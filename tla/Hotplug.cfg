SPECIFICATION HotplugFairSpec
CONSTANTS
    MAX_DEVICES = 3
    Capacity = 3
    None = None
    Fault = Fault
INVARIANTS
    HotplugTypeOK
    TableMatchesAnnounced
    NoStrandedExplore
PROPERTY
    EveryPluggedListed
CHECK_DEADLOCK FALSE
