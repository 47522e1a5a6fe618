SPECIFICATION Spec
CONSTANTS
  Requests = {r1, r2}
  MaxHp = 2
  Limit = 1
  Hits <- AnyHit
  MaxFaults = 1
INVARIANTS
  TypeOK
  MatchesUnlessCrossed
SYMMETRY AnyRequest
