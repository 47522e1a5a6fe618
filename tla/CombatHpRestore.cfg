SPECIFICATION Spec
CONSTANTS
  Requests = {r1, r2}
  MaxHp = 1
  Limit = 1
  Hits <- AnyHit
  MaxFaults = 0
PROPERTY
  RestoreIsEnough
