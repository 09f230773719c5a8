SPECIFICATION FairSpec
CONSTANTS
    HashRange = 8
    Hash <- MCHash
    CharRange = 8
    LetterA = 5
    Slash = 2
    BlockSize = 2
    PathMax = 8
    Configs <- MCConfigs
    MaxGram = 3
    NgramSize = 3
    TokenSize = 3
    SuffixSize = 8
    KeysPerRecord = 2
    Counts <- MCCounts
    Leaves <- MCLeaves
    AssumedLeaves = 16
    MaxSlots = 9
    IntBound = 28
    RctxBytes = 3
    NoConfig = NoConfig
INVARIANT NamesMeet
INVARIANT BindingsExact
INVARIANT ReadyMeansComplete
INVARIANT AnswersRight
INVARIANT OnlyKnownMisuse
PROPERTY InitReturns
CHECK_DEADLOCK FALSE
