---------------------------- MODULE MCServerJob ----------------------------
(* Small instances of ServerJob for TLC. *)
EXTENDS ServerJob, TLC
OneEach == ("a" :> <<0, 1>>) @@ ("b" :> <<1, 1>>)
\* Calls made by the receiving threads, and by a pool of one thread, with dbs, ports
\* and sockets that may fail; and two signals to a rank where nothing else fails.
MCFlags == {[rpc_worker_threads |-> 0, faulty |-> FALSE, signals |-> 2],
            [rpc_worker_threads |-> 0, faulty |-> TRUE, signals |-> 1],
            [rpc_worker_threads |-> 1, faulty |-> TRUE, signals |-> 1]}
=============================================================================
