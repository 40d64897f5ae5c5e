CONSTANTS
    PoolLen = 2
    BufLens = {1, 3}
    IdMod = 256
    SeqMod = 3
    MaxFrames = 3
    MaxPieces = 3
    MaxReads = 2
    MaxOpens = 2
SPECIFICATION LiveSpec
INVARIANTS
    SuccessIsWhole
    FitsTheBuffer
    UnknownOnlyFromClose
    ReaderKeepsBlock
CHECK_DEADLOCK FALSE
PROPERTY CloseReturns
