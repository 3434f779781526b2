CONSTANTS
  DepthPubs = {d1}
  QwenPubs = {q1}
  Refreshers = {r1}
  NoProc = NoProc
  NoSweep = NoSweep
  LockExpires = FALSE
  MaxAttempts = 2
  MaxData = 1
  MaxVersion = 1
  MaxRejects = 1
  MaxOutages = 1
  MaxCrashes = 2
SPECIFICATION FairSpec
INVARIANTS
  
  PushedIsOnSite
  DataIsCurrent
PROPERTIES
  VerdictsArePublished
  NothingIsRolledBack
