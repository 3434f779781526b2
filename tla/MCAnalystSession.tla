--------------------------- MODULE MCAnalystSession -------------------------
(* Instances of AnalystSession for TLC.                                    *)
EXTENDS AnalystSession

Arm(d, t, r) == [desk |-> d, two_pass |-> t, reference |-> r]

(* discovery; the plain arm with and without a reference; the two-pass arm *)
AllArms == {Arm(0, FALSE, FALSE), Arm(3, FALSE, FALSE), Arm(1, FALSE, TRUE),
            Arm(2, TRUE, FALSE), Arm(1, TRUE, TRUE)}
PlainArm == {Arm(2, FALSE, FALSE)}

(* A full valuation near the price, one far from it with and without a      *)
(* crux, a base alone, a run that computes nothing                          *)
MCKinds == {[values |-> "all",  far |-> FALSE, crux |-> FALSE],
            [values |-> "all",  far |-> TRUE,  crux |-> FALSE],
            [values |-> "all",  far |-> TRUE,  crux |-> TRUE],
            [values |-> "base", far |-> TRUE,  crux |-> FALSE],
            [values |-> "none", far |-> FALSE, crux |-> FALSE]}
=============================================================================
