CONSTANTS
    K = 2
    Keys <- MCKeys
    Entries <- MCEntries
    NodeSize = 10
    OffsetModulus = 200
SPECIFICATION FairTreeSpec
INVARIANT TreeTypeOK
INVARIANT CacheComplete
INVARIANT OneReadPerLookup
PROPERTY ImplementsStore
CHECK_DEADLOCK FALSE
