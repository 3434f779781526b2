---------------------------- MODULE MCDepthCadence ----------------------------
(* Instances of DepthCadence for TLC.                                      *)
EXTENDS DepthCadence

OneName  == {1}
TwoNames == {1, 2}
Nobody   == {}
Second   == {2}

===============================================================================
