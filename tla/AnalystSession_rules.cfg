CONSTANTS
  Arms <- AllArms
  Kinds <- MCKinds
  MaxSearch = 1
  MaxRefused = 0
  Cap = 1
  MaxFree = 1
  NoRec = NoRec
SPECIFICATION FairSpec
INVARIANTS
  OneRunPerQuestion
  StageAStands
  NoFailureNoGap
PROPERTIES
  SessionEnds
CHECK_DEADLOCK FALSE
