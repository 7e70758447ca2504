SPECIFICATION Spec
CONSTANTS
    Rows = 3
    Cols = 2
    MaxScrollback = 2
    Chars <- Letters
    Params <- Numbers
    MaxPrints = 2
    MaxFeeds = 3
    MaxMoves = 1
    MaxSwitches = 2
    MaxEvents = 7
INVARIANTS
    TypeOK
    Transcript
    FullTextLosesNothing
PROPERTIES
    ScrollStaysInRegion
    LeaveRestores
CHECK_DEADLOCK FALSE
