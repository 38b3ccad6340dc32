---------------------------- MODULE MCPartitions ----------------------------
(* Small instances of Partitions for TLC. *)
EXTENDS Partitions, TLC
CONSTANTS k1, k2, k3, d1, d2
MCDirOf == (k1 :> d1) @@ (k2 :> d1) @@ (k3 :> d2)
Symmetry == Permutations(Thread)
=============================================================================
