SPECIFICATION FairSpec
CONSTANTS
  child = child
  member = member
  escapee = escapee
  Child = child
  Members <- OneMember
  Escaped <- OneEscapee
  MaxUnits = 3
  MaxTyped = 1
  MaxHandles = 1
  OutCap = 2
  InCap = 1
  RawChild = TRUE
INVARIANT TypeOK
PROPERTY ImplementsStream
PROPERTY DropReturns
CHECK_DEADLOCK FALSE
PROPERTY GroupDies
