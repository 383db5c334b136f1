CONSTANTS
    Block = {0}
    Data = {d1, d2}
    Device = {1, 2}
    UmassId <- MCOne
    QSize = 2
    MaxXfer = 2
    None = None
SPECIFICATION Spec
PROPERTY FailureReported
CHECK_DEADLOCK FALSE
