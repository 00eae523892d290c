SPECIFICATION HistoryFairSpec
CONSTANTS
    ByteValues = 4
    ShiftCount = 8
    UpperShift = 4
    BitAnd <- MCAnd
    BitOr <- MCOr
    BitXor <- MCXor
    ShiftLeft <- MCShiftLeft
    ShiftRight <- MCShiftRight
    RegCount = 4
    ImemLast = 7
    CountValues = 8
    MemLast = 7
    PowerUpRegs = {3}
    PowerUpWords = {85}
    Programs <- StraightPrograms
PROPERTY ImplementsRV32I
PROPERTY EveryInstructionRuns
