----------------------- MODULE MCConfigurationService -----------------------
(* The configuration service on small instances. *)
EXTENDS ConfigurationService, TLC

(* Requests, users and keys are only compared; sound for safety.           *)
Symmetry == Permutations(Requests) \cup Permutations(Users) \cup Permutations(Keys)
=============================================================================
