CONSTANTS
    Capacity = 3
    Report = {key, release, rollover}
    StopsOn = {release, rollover}
    MaxReports = 6
    None = None
SPECIFICATION InputFairSpec
INVARIANTS
    InputTypeOK
    NoStrandedReport
PROPERTY ReportsConsumed
CHECK_DEADLOCK FALSE
