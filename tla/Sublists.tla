------------------------------- MODULE Sublists -------------------------------
(***************************************************************************)
(* What a comprehension leaves of a list: the elements at the positions    *)
(* that are kept, in their order.  (Unlike SelectSeq, which is built in,   *)
(* this can be reasoned about; on the lists of these models it says the    *)
(* same.)                                                                  *)
(***************************************************************************)
EXTENDS Naturals, Sequences, FiniteSets

\* The k-th of a set of numbers.
Nth(S, k) == CHOOSE i \in S : Cardinality({j \in S : j <= i}) = k

Sublist(s, S) == [k \in 1 .. Cardinality(S) |-> s[Nth(S, k)]]
===============================================================================
