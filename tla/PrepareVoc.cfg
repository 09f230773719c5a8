CONSTANTS
    N = 2
    Dictionary <- MCDictionary
    Words <- MCWords
    Counts <- MCCounts
    Limit = 5
    AddWildcards = TRUE
    Source = "vocabulary"
    MaxLines = 3
SPECIFICATION Spec
INVARIANT OneDictionarySuffices
CHECK_DEADLOCK FALSE
