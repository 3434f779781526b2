CONSTANTS
  Name <- TwoNames
  Run <- TwoRuns
  MAX_ATTEMPTS = 2
  LockIsAtomic = TRUE
  EngineWaits = TRUE
SPECIFICATION FairSpec
INVARIANTS
  FinishedMeansDone
  LedgerRecomputes
PROPERTIES
  MapOnlyAdvances
  NamesAreRun
