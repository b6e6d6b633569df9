SPECIFICATION Spec
CONSTANTS
    RegBits = 2
    CsrBits = 2
    WsrBits = 2
    WordBits = 8
    Broken = Broken
    Files <- MCFiles
    OperandVals <- MCOperandVals
    RawWords <- MCRawWords
    DataImages <- MCDataImages
    Imem <- MCImem
    Dmem <- MCDmem
    MaxInsns = 2
INVARIANTS
    LoadedIsaSound
    ProgramLoaded
    ListingReassembles
