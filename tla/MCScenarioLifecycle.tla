------------------------- MODULE MCScenarioLifecycle -------------------------
(* A suite of three scenarios: one before and one after the one that fails. *)
EXTENDS ScenarioLifecycle
=============================================================================
