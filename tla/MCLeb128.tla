------------------------------ MODULE MCLeb128 ------------------------------
(* Small instances of Leb128 for TLC.                                      *)
EXTENDS Leb128

\* What follows ends a number itself, or would lengthen one.
MCFollow == {<<127>>, <<255, 1>>}
=============================================================================
