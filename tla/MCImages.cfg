SPECIFICATION Spec
CONSTANTS
    ChunkSize = 8
    RomSize = 32
    FileLimit = 32
    LowRamEnd = 64
    HighRamStart = 160
    AddressEnd = 256
    RomStart = 96
    Junk = 238
    Inputs <- MCInputs
    Examples <- MCExamples
    Argument <- MCArgument
INVARIANTS
    TypeOK
    ProgramReady
    PiecesLoadable
PROPERTIES
    StartUpStays
    Ends
