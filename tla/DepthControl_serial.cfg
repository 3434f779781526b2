CONSTANTS
  Sweeps = {s1, s2}
  Runners = {r1}
  Requesters = {cli}
  Tickers = {a}
  Book = {b}
  NoPid = NoPid
  NoTicker = NoTicker
  LaunchesOverlap = FALSE
  ChildOutlivesCrash = FALSE
  MaxRequests = 1
  MaxPauses = 1
  MaxCrashes = 1
  MaxRefusals = 1
SPECIFICATION FairSpec
INVARIANT OneChildAtATime
PROPERTY QueuedIsServed
