------------------------------ MODULE MCBanker ------------------------------
(* Small instances of Banker for TLC.                                      *)
EXTENDS Banker
=============================================================================
