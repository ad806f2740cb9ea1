SPECIFICATION Spec
CHECK_DEADLOCK FALSE
INVARIANTS
  TypeOK
  NothingUsedAfterFree
  NothingLeaks
PROPERTIES
  ClosedIsFreed
