CONSTANTS
    N = 2
    Dictionary <- MCDictionary
    Words <- MCWords
    Counts <- MCCounts
    Limit = 5
    AddWildcards = TRUE
    Source = "transformer"
    MaxLines = 3
SPECIFICATION Spec
INVARIANT TypeOK
INVARIANT TapesSorted
INVARIANT LimitHolds
INVARIANT CountsKept
CHECK_DEADLOCK FALSE
