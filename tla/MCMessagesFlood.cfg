SPECIFICATION Spec
CONSTANTS
  MaxMsg = 2
  MaxCopies = 2
  Incoming = {}
  DateOf <- OneSecond
PROPERTIES
  FlushWaits
