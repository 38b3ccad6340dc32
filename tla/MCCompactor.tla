---------------------------- MODULE MCCompactor ----------------------------
(* Small instances of Compactor for TLC. *)
EXTENDS Compactor, TLC
MCSource == (0 :> <<1, 2, 3>>) @@ (1 :> <<4, 5>>)
MCRoute == (1 :> 1) @@ (2 :> 1) @@ (3 :> 1) @@ (4 :> 0) @@ (5 :> 1)
\* A pool of one thread, and calls made in place.
MCFlags == {[rpc_batch_min |-> 1, rpc_batch_max |-> 2, rpc_async_sender_threads |-> 1],
            [rpc_batch_min |-> 2, rpc_batch_max |-> 2, rpc_async_sender_threads |-> 0]}
=============================================================================
