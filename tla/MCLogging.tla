----------------------------- MODULE MCLogging -----------------------------
(* Small instances of Logging for TLC.                                     *)
EXTENDS Logging, TLC

MCLoggers == <<"ebpc">>

MCCalls == {<<"ebpc", 2>>, <<"ebpc", 4>>}

(***************************************************************************)
(* Days of two hours.  Day 4 loses its second hour, day 5 has it twice:    *)
(*      hour   2  3   4  5   6  7   8   9 10 11                            *)
(*      day    1  1   2  2   3  3   4   5  5  5                            *)
(***************************************************************************)
MCOffset == [t \in Hours |-> IF t \in {9, 10} THEN 1 ELSE 0]

\* Threads are alike.
Symmetry == Permutations(Threads)
=============================================================================
