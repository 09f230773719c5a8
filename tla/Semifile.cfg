CONSTANTS
    BufferSize = 3
    Blocks <- MCBlocks
    Sizes <- MCSizes
    Offsets <- MCOffsets
    MaxLength = 6
SPECIFICATION Spec
INVARIANT BufferTight
PROPERTY ImplementsStream
CHECK_DEADLOCK FALSE
