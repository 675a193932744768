----------------------------- MODULE MCHashTbl -----------------------------
(* Small instances of HashTbl for TLC.                                     *)
EXTENDS HashTbl

\* Two of the key objects are equal.
MCName == [k1 |-> "a", k2 |-> "a", k3 |-> "b", k4 |-> "c"]

\* "a" and "b" share a chain up to size 2, "a" and "c" share one at any size.
MCHash == [a |-> 1, b |-> 3, c |-> 9]

\* A factor below zero, one in the range and one above it.
MCLoads == {-25, 50, 150}

\* No operation looks at a value.
Symmetry == Permutations(Vals)
=============================================================================
