CONSTANTS
    K = 2
    Keys <- MCKeys
    Entries <- MCEntries
    NodeSize = 10
    OffsetModulus = 65
SPECIFICATION FairSpec
INVARIANT TypeOK
INVARIANT EntriesInOrder
INVARIANT ReadableLayout
INVARIANT ParentsChain
INVARIANT RootCommits
INVARIANT TreeAnswersBelowLimit
PROPERTY WrittenOnce
PROPERTY CloseEnds
CHECK_DEADLOCK FALSE
