CONSTANTS
    MaxIndex = 3
    Batch = 2
    NoRecords = 2
    t1 = t1
    t2 = t2
    Tapes = {t1, t2}
    Contents <- MCContents
SPECIFICATION Spec
INVARIANT SuccessMeansComplete
CHECK_DEADLOCK FALSE
