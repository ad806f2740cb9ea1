SPECIFICATION FairSpec
CONSTANTS
  c1 = c1
  c2 = c2
  k1 = k1
  k2 = k2
  Call = {c1, c2}
  Key = {k1, k2}
  Settings <- TwoSettings
  MaxEarly = 2
INVARIANTS
  TypeOK
  ListIsLive
  NothingOutlivesTheCall
  AudioOnlyInSession
  AnswerNeedsUser
PROPERTIES
  ImplementsService
  AcceptIsAnswered
  DialIsSettled
  SilenceEndsCall
CHECK_DEADLOCK FALSE
