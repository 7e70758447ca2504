SPECIFICATION Spec
CONSTANTS
    U16Max = 5
    MaxOsc = 1
    MaxCol = 2
    Bytes <- SomeBytes
    MaxPrints = 2
    MaxLines = 1
    MaxBody = 3
INVARIANTS
    NewlinesCounted
    LineBounded
    CsiParamsExact
PROPERTIES
    ChangesAreNoted
CHECK_DEADLOCK FALSE
