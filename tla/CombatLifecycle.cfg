SPECIFICATION Spec
CONSTANTS
  Handlers = {h1, h2}
  MaxRooms = 2
  MaxFights = 2
  MaxChecks = 2
  MaxEdits = 1
  MaxWrites = 2
  MaxFails = 1
INVARIANTS
  TypeOK
  OneStart
  CheckIsArmed
  SurvivesRestart
  EndedStaysEnded
SYMMETRY AnyHandler
