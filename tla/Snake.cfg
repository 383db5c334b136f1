SPECIFICATION FairSpec
CONSTANTS
    SCREEN_WIDTH = 3
    SCREEN_HEIGHT = 3
    START_SNAKE_LEN = 2
    BONUS_MIN_TIME = 1
    BONUS_MAX_TIME = 2
    MaxLen = 8
INVARIANTS
    TypeOK
    BoardSound
PROPERTIES
    NeckSafe
    QuitEnds
CHECK_DEADLOCK FALSE
