SPECIFICATION FairSpec
CONSTANTS
    NL = 10
    TAB = 9
    SPACE = 32
    LineBufferSize = 12
    MaxColumns = 4
    VocMaxSize = 3
    Garbage = {0, 7}
    RawVocabularies <- MCRawVocabularies
    Normal <- MCNormal
    Texts <- MCTexts
INVARIANT LinesHandedOver
INVARIANT DictionariesAgree
INVARIANT UnigramsAreSums
PROPERTY LoadingEnds
CHECK_DEADLOCK FALSE
