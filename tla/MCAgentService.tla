--------------------------- MODULE MCAgentService ---------------------------
(* The agent service on small instances. *)
EXTENDS AgentService, TLC

(* Streams and users are only compared; sound for safety properties.       *)
StreamUserSymmetry == Permutations(Streams) \cup Permutations(Users)
=============================================================================
