------------------------------ MODULE MCLeases ------------------------------
(* Small instances of Leases for TLC. *)
EXTENDS Leases, TLC
CONSTANTS x1, x2
MCOneWay == (x1 :> 0) @@ (x2 :> 0)
\* Leases for bulk insertions never expire, as with the servers there are.
MCDue == [m \in Mode |-> IF m = "bulk" THEN {"never"} ELSE {"never", "later", "zero"}]
Symmetry == Permutations(Thread)
=============================================================================
