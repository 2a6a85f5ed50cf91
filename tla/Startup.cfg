\* The memory map of the code to scale; tables of 32 entries.  The model ends in
\* the loop of main.
CONSTANTS
    SegSectors = 16
    BOOTSEG = 7
    MemSectors = 160
    SYS_SIZE_SECTOR = 10
    SYS_POSITION = 5
    SetupSectors = 2
    SystemSectors <- MCSystemSectors
    Delay = 2
    Half = 65536
    HalfType = 256
    Address <- MCAddress
    Garbage = {3}
    Entries = 32
    EarlyWords = 20
    LateWords = 20
    Numbers = 4
    SectorWords = 32
SPECIFICATION Spec
INVARIANTS
    LoaderIntact
    KernelLoaded
    InterruptsHandled
    GatesWhole
    TableComplete
    A20Tested
    HeadIntact
    IdentityMapped
    ParametersRead
PROPERTIES
    Boots
CHECK_DEADLOCK FALSE
