CONSTANTS
    MaxIndex = 3
    Batch = 2
    NoRecords = 2
    t1 = t1
    t2 = t2
    Tapes = {t1, t2}
    Contents <- MCContents
SPECIFICATION FairSpec
INVARIANT BinsAreShares
INVARIANT WellMeansComplete
INVARIANT ParentEndsLast
PROPERTY BuildEnds
CHECK_DEADLOCK FALSE
