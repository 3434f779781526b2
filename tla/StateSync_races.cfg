CONSTANTS
  Rows = {v1, v2}
  Name = {a, b}
  SweepsOverlap = FALSE
  WritersOverlap = TRUE
  MaxSaves = 1
  MaxSlots = 1
  MaxFailures = 1
  MaxCrashes = 1
SPECIFICATION FairSpec
INVARIANTS
  CloudRowsAreKept
  NoRowTwice

  
  
