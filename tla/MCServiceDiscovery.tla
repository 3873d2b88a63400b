------------------------- MODULE MCServiceDiscovery -------------------------
(* Service discovery on a small instance. *)
EXTENDS ServiceDiscovery
=============================================================================
