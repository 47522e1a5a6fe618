SPECIFICATION LiveSpec
CONSTANTS
  Tasks = {t1, t2}
  Workers = {w1}
  MaxEntries = 2
  MaxChat = 2
  MaxRare = 2
INVARIANTS
  TypeOK
  GeneratingIsHeld
  NothingSlipsBy
PROPERTIES
  LateAnswerIsHarmless
  BacklogDrains
