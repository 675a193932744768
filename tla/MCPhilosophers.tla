--------------------------- MODULE MCPhilosophers ---------------------------
(* The instance of Philosophers that main.cpp runs.                        *)
EXTENDS Philosophers
=============================================================================
