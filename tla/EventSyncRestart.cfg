SPECIFICATION LiveSpec
CONSTANTS
  Before = 1
  MaxLog = 1
  MaxChanges = 1
  MaxFaults = 1
PROPERTY
  SelfHeals
