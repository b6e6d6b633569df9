SPECIFICATION FairSpec
CONSTANTS
    ByteBits = 2
    GBytes = 4
    WBytes = 8
    NGpr = 6
    NWdr = 4
    StackDepth = 2
    None = None
    DmemWords = 6
    DeadBeef = 48879
    PadByte = 3
    LuiShift = 4
    ImemSize = 64
    Programs <- MCPrograms
    StatPrograms <- MCStatPrograms
    Datas <- MCDatas
    StartAddrs = {0, 8}
    TestRnd = 4095
    MaxLoads = 2
    MaxStarts = 2
    MaxWords = 6
INVARIANTS
    AssertsHold
    CyclesAccounted
    RndFresh
    WideResults
PROPERTIES
    HostView
    RunsEnd
