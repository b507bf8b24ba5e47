CONSTANTS
    HSCAN_MAX = 3
    VSCAN_MAX = 4
    VSCREEN_WIDTH = 2
    VSCREEN_HEIGHT = 3
    TILE_DOT_SIZE = 2
    SPRITE_CNT = 3
    SPRITE_PREFETCH_CNT = 2
    Sprite <- MCSprite
    Background = Background
    Backdrop = Backdrop
    Old = Old
    NULL = NULL
SPECIFICATION MCSpec
INVARIANTS TypeOK VblankIsBlank VblankIsToldOnce LineIsBuffered
PROPERTIES DotIsPlaced NmiEveryFrame TopmostIsShown
