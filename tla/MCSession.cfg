SPECIFICATION FairSession
CONSTANTS
  u1 = u1
  u2 = u2
  b1 = b1
  b2 = b2
  Uri = {u1, u2}
  Buckets <- Both
  HasHandler = TRUE
  MaxGen = 2
  MaxRefs = 3
  MaxLogins = 2
INVARIANTS
  SessionTypeOK
  AnswersFindMessages
  GoodIsThere
  DisplayIsRight
  KnownIsShown
  AloneIsExact
PROPERTIES
  ReportsFollowOn
  StaleIsCorrected
