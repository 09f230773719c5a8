CONSTANTS
    K = 4
    N = 2
    Token <- MCToken
    QueryToken <- MCQueryToken
SPECIFICATION Spec
INVARIANT TypeOK
INVARIANT SearchResult
PROPERTY WindowShrinks
CHECK_DEADLOCK FALSE
