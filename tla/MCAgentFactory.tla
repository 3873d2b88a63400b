--------------------------- MODULE MCAgentFactory ---------------------------
(* Two users' agents in one process. *)
EXTENDS AgentFactory, TLC

StreamUserSymmetry == Permutations(Streams) \cup Permutations(Users)
=============================================================================
