CONSTANTS
    PATTERN_TBL_SIZE = 64
    NAME_TBL_SIZE = 12
    ATTR_TBL_SIZE = 4
    PALETTE_TBL_SIZE = 2
    PALETTE_START = 248
    BACKDROP_STEP = 2
    Byte = {0, 3, 7}
    Pattern <- MCPattern
    BYTE = 8
    LINE_INC = 4
    SPRITE_RAM_SIZE = 1
    SPRITE_SIZE = 4
    Ctrl1 <- MCCtrl1
    Half = {}
    Data = {3, 7}
    HSCAN_MAX = 9
    VSCAN_MAX = 7
    VSCREEN_WIDTH = 8
    VSCREEN_HEIGHT = 6
    TILE_DOT_SIZE = 2
    H_SCREEN_TILE_SIZE = 4
    ATTR_GROUP_UNIT = 2
    ATTR_ROW = 2
    NULL = NULL
SPECIFICATION BgSpec
INVARIANTS BgTypeOK NameAndAttributesAgree
PROPERTIES DotIsFromPlane
