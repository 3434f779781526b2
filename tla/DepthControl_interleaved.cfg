CONSTANTS
  Sweeps = {s1, s2}
  Runners = {r1}
  Requesters = {cli}
  Tickers = {a}
  Book = {b}
  NoPid = NoPid
  NoTicker = NoTicker
  LaunchesOverlap = TRUE
  ChildOutlivesCrash = TRUE
  MaxRequests = 2
  MaxPauses = 1
  MaxCrashes = 1
  MaxRefusals = 0
SPECIFICATION Spec
SYMMETRY Symmetry
INVARIANTS
  RequestsConserved
  
PROPERTY PauseStopsAtBoundary
