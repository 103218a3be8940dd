---------------------------- MODULE MCIpcServer ----------------------------
(* IpcServer with two bridges, in several scenes. *)
EXTENDS IpcServer, TLC

CONSTANTS one, two

MCBridges == {one, two}
MCWorkers == 1..2

Scene(workers, ts, us, calls, conns, hits, strangers, stops) ==
    [tools |-> (one :> ts) @@ (two :> us), calls |-> (one :> calls) @@ (two :> 1),
     workers |-> workers, conns |-> conns, hits |-> hits, strangers |-> strangers,
     stops |-> stops]

\* The server is stopped between strangers and a call; a bridge that gives up
\* and retries, also when hits are taken from the device; symbols against a
\* process selection; a stopped thread that others may resume, also together
\* with a process selection.
AllScenes ==
    {Scene({1}, {"open_process"}, {}, 1, 3, 0, TRUE, TRUE),
     Scene({1, 2}, {"symbol_list"}, {}, 1, 2, 0, TRUE, TRUE),
     Scene({1, 2}, {"open_process", "symbol_list", "read_bp_info"}, {}, 1, 2, 0, FALSE, FALSE),
     Scene({1, 2}, {"symbol_init", "symbol_list"}, {"open_process"}, 2, 3, 0, FALSE, FALSE),
     Scene({1}, {"uxn_wait", "resume"}, {"open_process"}, 2, 4, 2, FALSE, FALSE)}
=============================================================================
