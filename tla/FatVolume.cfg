SPECIFICATION FairSpec
CONSTANTS
    Clusters = 3
    PerSector = 4
    Name = {n1, n2}
    Data = {d1, d2}
    MaxLen = 2
    Text <- MCText
    None = None
INVARIANTS
    TypeOK
    DiskSound
PROPERTIES
    ImplementsFileStore
    ClosedIsDurable
    ShortWriteMeansFull
    CommandReturns
