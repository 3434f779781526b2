--------------------------- MODULE MCFormationBooks ----------------------------
(* An instance of FormationBooks for TLC.                                  *)
EXTENDS FormationBooks

TwoNames == {1, 2}
TwoRuns  == {1, 2}

===============================================================================
