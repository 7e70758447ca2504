SPECIFICATION Spec
CONSTANTS
    Pieces <- Ordinary
    TornInText = FALSE
    MaxPieces = 2
    MaxTurns = 2
    MaxRows = 3
    AnswerLines <- SomeLines
INVARIANTS
    FencedReply
    SliceIsLastAnswer
    TranscriptReply
CHECK_DEADLOCK FALSE
