CONSTANTS
    HSCAN_MAX = 3
    VSCAN_MAX = 4
    VSCREEN_WIDTH = 2
    VSCREEN_HEIGHT = 3
    TILE_DOT_SIZE = 2
    SPRITE_CNT = 1
    SPRITE_PREFETCH_CNT = 1
    Sprite <- BackSprite
    Background = Background
    Backdrop = Backdrop
    Old = Old
    NULL = NULL
SPECIFICATION HistorySpec
PROPERTIES BackgroundIsDrawn
