CONSTANTS
    SIZE = 4
    IdxMod = 8
    Value = {v1, v2}
    None = None
SPECIFICATION Spec
INVARIANTS
    TypeOK
    NoSlotRace
    CheckStillHolds
    CookieStable
PROPERTY ImplementsFifo
