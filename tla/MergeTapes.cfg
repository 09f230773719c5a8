CONSTANTS
    NoFiles = 5
    Tapes <- MCTapes
    MaxFiles = 5
SPECIFICATION FairSpec
INVARIANT TypeOK
INVARIANT HeapSound
INVARIANT OutAscending
INVARIANT CountsKept
PROPERTY MergeEnds
CHECK_DEADLOCK FALSE
