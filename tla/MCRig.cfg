SPECIFICATION GenSpec
CONSTANTS
    ByteBits = 2
    GBytes = 4
    WBytes = 8
    NGpr = 4
    NWdr = 4
    StackDepth = 2
    None = None
    DmemWords = 3
    DeadBeef = 48879
    PadByte = 3
    LuiShift = 4
    MaxLoopDepth = 2
    ImemBytes = 48
    Broken = Broken
    StraightOps <- MCStraightOps
    Files <- MCFiles
    Requests <- MCRequests
    WdrPool = {0, 1}
    LuiImms = {1}
    LoadRange <- MCLoadRange
    WideRange <- MCWideRange
    JalrRange <- MCJalrRange
    MaxIters = 2
INVARIANTS
    GeneratorAsserts
    ModelSound
    RunsClean
