SPECIFICATION Spec
CONSTANTS
  MaxContact = 3
  Bundle = 2
  MaxAsked = 1
INVARIANTS
  AllShown
