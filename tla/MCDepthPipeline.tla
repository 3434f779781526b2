--------------------------- MODULE MCDepthPipeline --------------------------
(* Instances of DepthPipeline for TLC.                                     *)
EXTENDS DepthPipeline, TLC

Bull == [iv |-> 130, base |-> 130, bull |-> 180, bear |-> 100,
         wBase |-> 5, wBull |-> 3, wBear |-> 2, kelly |-> 30, moat |-> 40,
         conviction |-> 12, falsifiable |-> TRUE, crux |-> TRUE,
         in_cohort |-> TRUE, basis |-> "value", entry |-> FALSE, faults |-> {}]

(* 13% above it; within 10% of the price; below the price, with a Kelly     *)
(* claim, an expected return and a momentum basis; a value scraped from a   *)
(* text without a contract and a crux; written at reduced effort; failed;   *)
(* out of its cohort                                                        *)
Higher   == [Bull EXCEPT !.iv = 147, !.base = 147, !.bear = 130, !.conviction = 9]
Cautious == [Bull EXCEPT !.iv = 105, !.base = 105, !.bear = 70, !.basis = "none"]
Lower    == [Bull EXCEPT !.iv = 80, !.base = 80, !.bull = 200, !.bear = 60,
                         !.basis = "momentum", !.entry = TRUE]
Scraped  == [Bull EXCEPT !.iv = 125, !.base = Missing, !.moat = Missing,
                         !.crux = FALSE]
Reduced  == [Bull EXCEPT !.faults = {"reduced"}]
Failed   == [Bull EXCEPT !.faults = {"failed"}]
Outlier  == [Lower EXCEPT !.in_cohort = FALSE]

MCOutcomes == {Bull, Higher, Cautious, Lower, Scraped, Reduced, Failed, Outlier}
Two == {Bull, Lower}
Slots == Permutations(Runs)

Clear == [risk |-> "off", momentum |-> TRUE, fence |-> <<70, 160>>,
          estimates |-> TRUE, producer |-> "other", scoped |-> TRUE,
          discovery |-> TRUE]
MCEnvs == {Clear, [Clear EXCEPT !.risk = "on", !.fence = <<>>]}

MCJobs == {[source |-> "orchestrator", samples |-> 0],
           [source |-> "ondemand", samples |-> 0],
           [source |-> "manual", samples |-> 1]}
TwinJobs == {[source |-> "orchestrator", samples |-> 1],
             [source |-> "manual_production", samples |-> 1]}
FourJobs == {[source |-> "manual_production", samples |-> 4]}
=============================================================================
