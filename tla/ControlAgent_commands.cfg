CONSTANTS
  Commands <- TwoCommands
  Agents = {a}
  Overlap = FALSE
  Limit = 1
  Threshold = 3
  MaxCrashes = 1
SPECIFICATION FairSpec
INVARIANTS
  ExecutedOnceInOrder
  DoneMeansWorked
  
PROPERTIES
  CommandsStart
  
