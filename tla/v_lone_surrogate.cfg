SPECIFICATION Spec
CONSTANTS
    Pieces <- WithHalves
    TornInText = FALSE
    MaxPieces = 2
    MaxTurns = 2
    MaxRows = 3
    AnswerLines <- SomeLines
INVARIANTS
    PayloadKept
CHECK_DEADLOCK FALSE
