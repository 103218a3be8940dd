----------------------------- MODULE MCLuaEngine -----------------------------
(* Instance of LuaEngine for TLC: the GUI thread, its script task and one   *)
(* IPC worker contend for the engine while the target changes under them.   *)
EXTENDS LuaEngine

MCWorkers == {"ipc"}

=============================================================================
