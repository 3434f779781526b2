CONSTANTS
  Stock <- TwoNames
  List <- Second
  Excluded <- Nobody
  Formed <- Second
  Row = {w1}
  NoRow = NoRow
  REFRESH_DAYS = 2
  PopAlone = TRUE
  MaxRequests = 1
  MaxKills = 1
  LastDay = 3
SPECIFICATION FairWorkerSpec
INVARIANT RequestsAreKept
PROPERTY NobodyWaitsForever
