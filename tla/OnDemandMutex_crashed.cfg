CONSTANTS
  Clients = {c1, c2}
  Stocks = {a, b}
  NoClient = NoClient
  NoStock = NoStock
  Timeout = 1
  SlowHolders = FALSE
  Starvation = FALSE
  TornWrites = FALSE
  MaxAdds = 2
  MaxDeaths = 1
SPECIFICATION FairMutexSpec
INVARIANTS
  MutualExclusion
PROPERTIES
  KeepsPromise
  EveryoneGetsIn
