CONSTANTS
  Stock <- OneName
  List <- OneName
  Excluded <- Nobody
  Formed <- Nobody
  Row = {w1}
  NoRow = NoRow
  REFRESH_DAYS = 14
  PopAlone = TRUE
  MaxRequests = 1
  MaxKills = 1
  LastDay = 3
SPECIFICATION WorkerSpec
PROPERTY RefusalIsRetried
