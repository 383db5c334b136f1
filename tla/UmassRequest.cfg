CONSTANTS
    Block = {0, 1}
    Data = {d1, d2}
    Device = {1, 2}
    UmassId <- MCOne
    QSize = 2
    MaxXfer = 3
    None = None
SPECIFICATION FairSpec
INVARIANTS
    TypeOK
    FlushFindsRequest
    ResponseMatches
PROPERTIES
    ImplementsSyncDisk
    RequestReturns
CHECK_DEADLOCK FALSE
