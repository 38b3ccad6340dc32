---------------------------- MODULE MCContexts ----------------------------
(* A small instance of Contexts for TLC. *)
EXTENDS Contexts, TLC
CONSTANTS x1, x2
\* Three servers.  Hashes 1 and 7 both go to partition 1: partition 3 does not exist.
MCHash == (x1 :> 1) @@ (x2 :> 7)
=============================================================================
