SPECIFICATION Spec
CONSTANTS
    Pieces <- Ordinary
    TornInText = TRUE
    MaxPieces = 2
    MaxTurns = 2
    MaxRows = 3
    AnswerLines <- SomeLines
INVARIANTS
    NoneWithoutFence
CHECK_DEADLOCK FALSE
