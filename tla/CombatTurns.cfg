SPECIFICATION Spec
CONSTANTS
  hero = hero
  ogre = ogre
  wolf = wolf
  alice = alice
  Tokens <- MCTokens
  Linked <- MCHero
  NPCs <- MCNPCs
  Alert <- MCHero
  Bonus <- MCBonus
  Players = {alice}
  OwnerOf <- MCOwnerOf
  DM = DM
  Nobody = Nobody
  Totals = {0, 1}
  Fates <- MCFates
  MaxOrder = 3
  MaxRound = 2
  Reqs = {q1}
  NoToken = NoToken
INVARIANTS
  TypeOK
  PointerInRange
PROPERTIES
  TurnSurvivesCorrections
  OrderIsKept
  TurnGoesToNextFit
  SurprisedLoseFirstTurn
SYMMETRY Monsters
