SPECIFICATION Spec
CONSTANTS
  MaxCall = 5
  Overlap = FALSE
  SameSecond = FALSE
INVARIANTS
  TypeOK
  FiledIsKept
  EachIsShownOnce
PROPERTIES
  ImplementsLog
