SPECIFICATION Spec
CONSTANTS
  ann = ann
  bob = bob
  rope = rope
  Pcs = {ann, bob}
  Items = {rope}
  Start <- Pack
  Requests = {r1, r2}
  MaxIds = 2
  MaxEdits = 1
INVARIANTS
  TypeOK
  NothingLostOrDoubled
  LootKeepsItsToken
  EmptiedBagGoes
  NobodyWaitsInACircle
CONSTRAINT TwoRopes
SYMMETRY AnyRequest
