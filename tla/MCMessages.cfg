SPECIFICATION FairSpec
CONSTANTS
  MaxMsg = 2
  MaxCopies = 2
  Incoming = {1, 2}
  DateOf <- OneSecond
INVARIANTS
  TypeOK
  NothingShownIsLost
  IncomingIsKept
  CounterHasFlusher
PROPERTIES
  ImplementsService
  PendingGetsThrough
