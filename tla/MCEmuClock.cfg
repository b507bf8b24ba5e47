SPECIFICATION PaceSpec
CONSTANTS
    Node = {n1, n2, n3}
    NULL = NULL
    CPU_DEVIDER = 3
    PPU_DEVIDER = 1
    SPRITE_RAM_SIZE = 2
    PAGES = 2
    IoPage = {1}
    Byte = {0, 1}
INVARIANTS
    TypeOK
    OneBusMaster
    MasterFindsBus
    ClockInv
    NeverStarved
    DmaStealsExactly
PROPERTIES
    DmaCopiesPage
    ImplementsDma
    DmaTerminates
    StopsWhenAsked
CHECK_DEADLOCK FALSE
