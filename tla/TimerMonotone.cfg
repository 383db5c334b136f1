CONSTANTS
    WordMod = 4
    CNTCR = 3
    Delays = {0, 1, 3, 5}
    MaxTime = 14
SPECIFICATION Spec
PROPERTY TicksMonotone
CHECK_DEADLOCK FALSE
