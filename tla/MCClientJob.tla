---------------------------- MODULE MCClientJob ----------------------------
(* Small instances of ClientJob for TLC. *)
EXTENDS ClientJob
Cmd(shared, local, abort, method) ==
    [share_dir |-> shared, fs_use_local |-> local, abort_on_errors |-> abort, method |-> method]
\* Batches in a shared directory, with and without abort_on_errors, a directory each,
\* and local file systems.
MCFlags == {Cmd(TRUE, FALSE, FALSE, "batch"), Cmd(TRUE, FALSE, TRUE, "bulk"),
            Cmd(FALSE, FALSE, FALSE, "mkfle"), Cmd(FALSE, TRUE, TRUE, "mkfle")}
AllFaults == {"map", "open", "prepare", "mon", "init", "op", "commit"}
=============================================================================
