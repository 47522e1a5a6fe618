SPECIFICATION LiveSpec
CONSTANTS
  Before = 1
  MaxLog = 1
  MaxChanges = 2
  MaxFaults = 1
INVARIANT
  TypeOK
PROPERTIES
  ReplayComplete
  NothingWiped
  Converges
