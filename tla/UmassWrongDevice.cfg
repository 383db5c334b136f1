CONSTANTS
    Block = {0}
    Data = {d1, d2}
    Device = {1, 2, 3}
    UmassId <- MCTwo
    QSize = 2
    MaxXfer = 2
    None = None
SPECIFICATION Spec
INVARIANT SentToNamedDevice
CHECK_DEADLOCK FALSE
