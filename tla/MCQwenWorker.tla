---------------------------- MODULE MCQwenWorker ----------------------------
(* Instances of QwenWorker for TLC.                                        *)
EXTENDS QwenWorker

OneName  == {1}
TwoNames == {1, 2}
Second   == {2}
Nobody   == {}
=============================================================================
