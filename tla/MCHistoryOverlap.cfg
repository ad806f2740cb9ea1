SPECIFICATION Spec
CONSTANTS
  MaxCall = 4
  Overlap = TRUE
  SameSecond = FALSE
INVARIANTS
  FiledIsKept
