------------------------ MODULE MCConnectionManager ------------------------
(* Instance of ConnectionManager for TLC: one connection more than fits. *)
EXTENDS ConnectionManager

MCConns == 1..3

=============================================================================
