------------------------- MODULE MCScheduleScenarios -------------------------
(* Instances of ScheduleScenarios for TLC. *)
EXTENDS ScheduleScenarios

(* One definition of each kind, and two of the storm, where a second lane may go
   on after the first has failed. *)
MCFiresOf == [delivery |-> 1, outage |-> 1, storm |-> 2]
=============================================================================
