SPECIFICATION Spec
CONSTANTS
  u1 = u1
  u2 = u2
  b1 = b1
  b2 = b2
  Uri = {u1, u2}
  Buckets <- Both
  HasHandler = FALSE
INVARIANTS
  NullHandlerIsNotCalled
