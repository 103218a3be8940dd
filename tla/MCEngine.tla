------------------------------ MODULE MCEngine ------------------------------
(* Instance of Engine for TLC: two processes. *)
EXTENDS Engine

MCPids == {11, 12}

=============================================================================
