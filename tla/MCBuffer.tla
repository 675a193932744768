------------------------------ MODULE MCBuffer ------------------------------
(* Small instances of Buffer for TLC.                                      *)
EXTENDS Buffer, SequencesExt

MCChunk == SeqOf(Byte, 3)
=============================================================================
