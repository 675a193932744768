--------------------------- MODULE MCLoopThreads ---------------------------
(* Instances of LoopThreads for TLC.                                       *)
EXTENDS LoopThreads
=============================================================================
