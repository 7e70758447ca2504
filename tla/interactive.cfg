SPECIFICATION RunSpec
CONSTANTS
  child = child
  escapee = escapee
  Child = child
  Members <- Nobody
  Escaped <- OneEscapee
  MaxUnits = 1
  MaxTyped = 3
  MaxHandles = 1
  OutCap = 2
  InCap = 1
  RawChild = FALSE
INVARIANT InputIntact
INVARIANT TerminalRestored
PROPERTY ThreadsEnd
PROPERTY SignalOnceBeforeReap
PROPERTY ExitsAfterTarget
CHECK_DEADLOCK FALSE
