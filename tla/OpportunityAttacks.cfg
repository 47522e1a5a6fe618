SPECIFICATION Spec
CONSTANTS
  Requests = {r1, r2, r3}
  Attackers = {ogre}
  Movers = {hero, familiar}
  MaxPrompts = 2
  MaxEconomies = 3
INVARIANTS
  TypeOK
  OneAttackEach
  OneReactionEach
PROPERTIES
  ImplementsReactions
SYMMETRY Same
