---------------------------- MODULE MCPollServer ----------------------------
(* Small instances of PollServer for TLC.                                  *)
EXTENDS PollServer

\* The first client makes every request, the second one common requests.
MCKinds == (2 :> {"keep", "close", "bare10", "other10", "odd", "spaced", "long"})
           @@ (3 :> {"keep", "close"})
=============================================================================
