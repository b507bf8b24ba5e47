CONSTANTS
    PATTERN_TBL_SIZE = 16
    NAME_TBL_SIZE = 3
    ATTR_TBL_SIZE = 1
    PALETTE_TBL_SIZE = 2
    PALETTE_START = 56
    BACKDROP_STEP = 2
    Byte = {0, 1, 2, 3, 4, 5, 6, 7, 8, 9, 10, 11, 12, 13, 14, 15}
    Pattern <- MCPattern
    BYTE = 16
    LINE_INC = 3
    SPRITE_RAM_SIZE = 8
    SPRITE_SIZE = 4
    Ctrl1 <- MCCtrl1
    Half = {0, 2, 3, 15}
    Data = {7}
SPECIFICATION HistorySpec
CONSTRAINT Bound
INVARIANTS TypeOK DerivedFromCtrl1 PairSetsAddress
PROPERTIES ImplementsVramPort
