------------------------------ MODULE MCStateSync ------------------------------
(* Instances of StateSync for TLC; the .cfg files give the constants.      *)
EXTENDS StateSync

===============================================================================
