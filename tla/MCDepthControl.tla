---------------------------- MODULE MCDepthControl ----------------------------
(* Instances of DepthControl for TLC: slots of a kind are interchangeable. *)
EXTENDS DepthControl, TLC

Symmetry == Permutations(Sweeps) \cup Permutations(Runners)

===============================================================================
