CONSTANTS
    MaxEvents = 4
    EventRing = 3
SPECIFICATION FairSpec
INVARIANTS
    TypeOK
    NoStrandedEvent
    PendingIsRecognised
    MaskedIsHandled
    SoftcBeforeInterrupt
PROPERTY EventsConsumed
CHECK_DEADLOCK FALSE
