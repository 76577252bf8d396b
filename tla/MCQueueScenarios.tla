-------------------------- MODULE MCQueueScenarios --------------------------
(* Instances of QueueScenarios for TLC. *)
EXTENDS QueueScenarios
=============================================================================
