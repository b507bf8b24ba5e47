CONSTANTS
    ROM_BIT = 64
    IO_APU_BIT = 32
    IO_PPU_BIT = 16
    RAM_SIZE = 2
    PPU_IO_SIZE = 8
    APU_IO_SIZE = 8
    APU_DMA = 4
    APU_JOYPAD = 6
    PPU_STATUS = 2
    PPU_VRAM_DATA = 7
    SPRITE_RAM_SIZE = 2
    DMA_ADDR_MULTIPLE = 38
    BUTTON_CNT = 4
    PpuByte = {1}
    Byte = {0, 1}
    Rom <- MCRom
    Address <- MCAddress
SPECIFICATION Spec
CONSTRAINT Bound
INVARIANTS TypeOK BusIsHandedOn
PROPERTIES ImplementsMemoryMap
