SPECIFICATION Spec
CONSTANTS
    Char = {a, blank}
    Blank = blank
    Quote = quote
    CmdLimit = 4
    HistSize = 3
    CmdHistory = 2
    ArgMax = 3
    MaxEntries = 2
    MaxGarbage = 1
    NUL = NUL
    None = None
    a = a
    blank = blank
    quote = quote
INVARIANTS
    TypeOK
    HistoryMatches
    GameOwnsKeyboard
PROPERTIES
    RecallShowsEntry
    ImplementsEditor
CHECK_DEADLOCK FALSE
