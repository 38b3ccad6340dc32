---------------------------- MODULE MCPathnames -----------------------------
(* Small instances of Pathnames for TLC. *)
EXTENDS Pathnames
CONSTANTS x1, x2, root_user, user1
MCPaths == {<<"/", "/">>, <<"/", "/", x1>>, <<"/", x1, "/", "/">>,
            <<"/", x1, "/", "/", x1, x2>>, <<"/", x1, "/", x1, x2, "/", x2>>}
MCGroup == [u \in {root_user, user1} |-> u]
MCModes == {{<<"u", "w">>, <<"u", "x">>}, AllPerms}
MCExisting == (<< <<x1>> >> :> [owner |-> root_user, mode |-> {<<"u", "w">>, <<"u", "x">>}])
              @@ (<< <<x1>>, <<x1, x2>> >> :> [owner |-> root_user, mode |-> AllPerms])
Symmetry == Permutations(Thread)
=============================================================================
