------------------------- MODULE MCCleanupScenarios -------------------------
(* Instances of CleanupScenarios for TLC. *)
EXTENDS CleanupScenarios
=============================================================================
