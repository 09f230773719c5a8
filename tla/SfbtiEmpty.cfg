CONSTANTS
    K = 2
    Keys <- MCKeys
    Entries <- MCEntries
    NodeSize = 10
    OffsetModulus = 200
SPECIFICATION Spec
INVARIANT EmptyLeftInvalid
CHECK_DEADLOCK FALSE
