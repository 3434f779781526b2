--------------------------- MODULE MCOnDemandMutex ----------------------------
(* Instances of OnDemandMutex for TLC.                                     *)
EXTENDS OnDemandMutex, TLC

Symmetry == Permutations(Clients) \cup Permutations(Stocks)

===============================================================================
