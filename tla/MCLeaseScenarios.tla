-------------------------- MODULE MCLeaseScenarios --------------------------
(* Instances of LeaseScenarios for TLC. *)
EXTENDS LeaseScenarios
=============================================================================
