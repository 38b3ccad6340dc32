------------------------------ MODULE MCClient ------------------------------
(* A small instance, for TLC, of what the threads of a client do to the context of a  *)
(* directory (Contexts) or to the directory partitions in memory (Partitions): two     *)
(* parts of fscli.cc that share no state, of which a behaviour follows one.            *)
EXTENDS Contexts, Partitions, TLC
CONSTANTS x1, x2, x3, k1, k2, k3, d1, d2

\* Three servers.  Hashes 1 and 7 both go to partition 1: partition 3 does not exist.
MCHash == (x1 :> 1) @@ (x2 :> 7) @@ (x3 :> 2)
MCDirOf == (k1 :> d1) @@ (k2 :> d1) @@ (k3 :> d2)

VARIABLE subject     \* "contexts" or "partitions"

\* The part that is not the subject stays in one of its initial states.
MCInit ==
    /\ Init /\ PartInit
    /\ \/ subject = "contexts"
       \/ /\ subject = "partitions"
          /\ kind = "batch" /\ n = [i \in Srv |-> 0]

MCNext ==
    /\ UNCHANGED subject
    /\ \/ subject = "contexts" /\ Next /\ UNCHANGED partVars
       \/ subject = "partitions" /\ PartNext /\ UNCHANGED vars

MCSpec == MCInit /\ [][MCNext]_<<subject, vars, partVars>>

Symmetry == Permutations(Thread)
=============================================================================
