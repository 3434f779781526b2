CONSTANTS
  Name <- TwoNames
  Held <- Second
  Filers <- Second
  ENTRY_DWELL = 2
  EXIT_REVIEW_DWELL = 1
  FRESHNESS_DAYS = 0
  COOLDOWN_DAYS = 0
  ROTATION_DAYS = 1
  MAX_RETRIES = 1
  Horizon = 3
  MaxMoves = 2
  MaxEvents = 1
SPECIFICATION Spec
INVARIANTS
  RetriesAreBounded
  EntryIsEarned
PROPERTIES
  RotationYields
