SPECIFICATION Spec
CONSTANTS
  MaxContact = 4
  Bundle = 2
  MaxAsked = 2
INVARIANTS
  TypeOK
  KeptOffline
  NoneShownTwice
  RestIsShown
