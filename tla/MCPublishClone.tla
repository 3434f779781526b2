---------------------------- MODULE MCPublishClone ----------------------------
(* Instances of PublishClone for TLC. *)
EXTENDS PublishClone, TLC

Symmetry == Permutations(DepthPubs)

===============================================================================
