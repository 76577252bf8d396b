-------------------------- MODULE ScenarioLifecycle --------------------------
(***************************************************************************)
(* runScenario (scenario.ts), runSuite (suite.ts) and the CLI (cli.ts): a  *)
(* scenario sets up its Compose stack, runs its workload, and then, in a   *)
(* finally clause that returns, collects evidence, removes the stack or    *)
(* preserves it, and writes its summary.  Every await is an action of its  *)
(* own and may reject: docker commands, the workload, and the writes to    *)
(* the artifact directory, of which there is one at almost every step.     *)
(* Errors are the classes that classifyFailure tells apart.                *)
(***************************************************************************)
EXTENDS Naturals, Sequences

CONSTANTS
    Scenarios,         \* length of the suite
    Ports,             \* values of --port
    MaxPort,           \* the largest TCP port
    CleanupMayFail     \* docker compose down may fail

ASSUME ScenariosAssumption == Scenarios \in Nat \ {0}
ASSUME PortsAssumption == Ports \subseteq Nat /\ MaxPort \in Nat

ErrorClasses == {"timeout", "assertion", "workload"}
ScenarioResult == [scenario : 1..Scenarios, verdict : {"passed", "failed"},
                   timing : {"none", "started", "completed"},
                   classification : ErrorClasses \cup {"none", "setup", "cleanup"},
                   cleanupState : {"removed", "preserved", "failed"}]

VARIABLES
    mode,            \* "suite" or "standalone"
    keep, port,      \* --keep, --port
    writable,        \* no write to the artifact directory fails in this run
    n,               \* the scenario that runs
    pc,              \* the await the program is at
    phase,           \* "setup" or "workload"
    timing,          \* workloadStartedAt, workloadCompletedAt: "none", "started", "completed"
    error,           \* class of the error that the catch clause handles
    verdict, classification, cleanupState,
    stack,           \* of each scenario: "absent", "up", "removed"
    results,         \* the results of runScenario so far
    summaryWritten,  \* the suite's summary.json
    exitCode         \* of the CLI, once it has ended

vars == <<mode, keep, port, writable, n, pc, phase, timing, error, verdict, classification,
          cleanupState, stack, results, summaryWritten, exitCode>>
runVars == <<mode, keep, port, writable, n, results, summaryWritten, exitCode>>
resultVars == <<verdict, classification, cleanupState>>

Count == IF mode = "suite" THEN Scenarios ELSE 1

Init ==
    /\ mode \in {"suite", "standalone"}
    /\ keep \in IF mode = "suite" THEN {FALSE} ELSE BOOLEAN
    /\ port \in Ports
    /\ writable \in BOOLEAN
    /\ n = 0
    /\ pc = "begin"
    /\ phase = "setup" /\ timing = "none" /\ error = "none"
    /\ verdict = "failed" /\ classification = "none" /\ cleanupState = "preserved"
    /\ stack = [k \in 1..Scenarios |-> "absent"]
    /\ results = <<>>
    /\ summaryWritten = FALSE
    /\ exitCode = 0
-----------------------------------------------------------------------------
Goto(next) == pc' = next

(* The promise of runScenario or runSuite rejects, and main's catch ends the
   process. *)
Reject ==
    /\ Goto("ended")
    /\ exitCode' = 1

(* allocateScenarioConfigs: a port for every scenario, or no suite at all. *)
Begin ==
    /\ pc = "begin"
    /\ \/ /\ port + Count - 1 <= MaxPort
          /\ Goto("next")
          /\ UNCHANGED exitCode
       \/ /\ port + Count - 1 > MaxPort
          /\ Reject
    /\ UNCHANGED <<mode, keep, port, writable, n, phase, timing, error, resultVars, stack,
                   results, summaryWritten>>

(* The next runScenario starts with its local state. *)
NextScenario ==
    /\ pc = "next" /\ n < Count
    /\ n' = n + 1
    /\ phase' = "setup" /\ timing' = "none" /\ error' = "none"
    /\ verdict' = "failed" /\ classification' = "none" /\ cleanupState' = "preserved"
    /\ Goto("announce")
    /\ UNCHANGED <<mode, keep, port, writable, stack, results, summaryWritten, exitCode>>

(* An artifact write that nothing catches. *)
UncaughtWrite(from, next) ==
    /\ pc = from
    /\ \/ Goto(next) /\ UNCHANGED exitCode
       \/ ~writable /\ Reject

(* Artifacts.create and scenario_started come before the try statement. *)
Announce ==
    /\ UncaughtWrite("announce", "setup")
    /\ UNCHANGED <<mode, keep, port, writable, n, phase, timing, error, resultVars, stack,
                   results, summaryWritten>>

(* An await in the try statement rejects. *)
Catch(class) ==
    /\ error' = class
    /\ Goto("catch")

(* preflight, reset, prepareImages and startCore. A start that fails may have
   left containers. *)
Setup ==
    /\ pc = "setup"
    /\ \/ /\ stack' = [stack EXCEPT ![n] = "up"]
          /\ phase' = "workload" /\ timing' = "started"
          /\ Goto("workloadEvent")
          /\ UNCHANGED error
       \/ /\ \E left \in {"absent", "up"} : stack' = [stack EXCEPT ![n] = left]
          /\ \E class \in ErrorClasses : Catch(class)
          /\ UNCHANGED <<phase, timing>>
    /\ UNCHANGED <<runVars, resultVars>>

WorkloadEvent ==
    /\ pc = "workloadEvent"
    /\ \/ Goto("workload") /\ UNCHANGED error
       \/ ~writable /\ Catch("workload")
    /\ UNCHANGED <<runVars, phase, timing, resultVars, stack>>

(* executeWorkload *)
Workload ==
    /\ pc = "workload"
    /\ \/ timing' = "completed" /\ Goto("completeEvent") /\ UNCHANGED error
       \/ \E class \in ErrorClasses : Catch(class) /\ UNCHANGED timing
    /\ UNCHANGED <<runVars, phase, resultVars, stack>>

CompleteEvent ==
    /\ pc = "completeEvent"
    /\ \/ Goto("stopFitz") /\ UNCHANGED error
       \/ ~writable /\ Catch("workload")
    /\ UNCHANGED <<runVars, phase, timing, resultVars, stack>>

(* stopFitz, the last await of the try statement. *)
StopFitz ==
    /\ pc = "stopFitz"
    /\ \/ /\ verdict' = "passed"
          /\ Goto("collect")
          /\ UNCHANGED error
       \/ /\ Catch("workload")
          /\ UNCHANGED verdict
    /\ UNCHANGED <<runVars, phase, timing, classification, cleanupState, stack>>

ClassifyFailure == IF phase = "setup" THEN "setup" ELSE error

(* The catch clause, up to its last event.  A write that fails here leaves
   the failure unclassified, and is swallowed: the finally clause returns. *)
CatchFailure ==
    /\ pc = "catch"
    /\ timing' = IF timing = "started" THEN "completed" ELSE timing
    /\ \/ classification' = ClassifyFailure
       \/ ~writable /\ timing = "started" /\ UNCHANGED classification
    /\ Goto("collect")
    /\ UNCHANGED <<runVars, phase, error, verdict, cleanupState, stack>>
-----------------------------------------------------------------------------
(* The finally clause. *)

Collect ==
    /\ pc = "collect"
    /\ Goto("cleanup") \/ Goto("collectFailed")
    /\ UNCHANGED <<runVars, phase, timing, error, resultVars, stack>>

(* A run that had passed fails for a reason found in the finally clause. *)
Demote(class) ==
    IF verdict = "passed"
    THEN verdict' = "failed" /\ classification' = class
    ELSE UNCHANGED <<verdict, classification>>

(* The handler of a failed collection. *)
CollectFailed ==
    /\ pc = "collectFailed"
    /\ \/ Demote("setup") /\ Goto("cleanup") /\ UNCHANGED exitCode
       \/ ~writable /\ Reject /\ UNCHANGED <<verdict, classification>>
    /\ UNCHANGED <<mode, keep, port, writable, n, results, summaryWritten, phase, timing, error,
                   cleanupState, stack>>

(* Mutant: a failed run of a suite is preserved too. *)
ShouldCleanupOnPassOnly == verdict = "passed" /\ ~keep

(* shouldCleanup: a suite passes preserveFailure: false. *)
ShouldCleanup == IF verdict = "passed" THEN ~keep ELSE mode = "suite"

(* stack.cleanup: docker compose down, and an event. *)
Cleanup ==
    /\ pc = "cleanup"
    /\ \/ /\ ShouldCleanup
          /\ stack' = [stack EXCEPT ![n] = "removed"]
          /\ \/ cleanupState' = "removed" /\ Goto("summary")
             \/ ~writable /\ cleanupState' = "failed" /\ Goto("cleanupFailed")
       \/ /\ ShouldCleanup
          /\ CleanupMayFail /\ cleanupState' = "failed" /\ Goto("cleanupFailed")
          /\ UNCHANGED stack
       \/ /\ ~ShouldCleanup
          /\ Goto("summary")
          /\ UNCHANGED <<cleanupState, stack>>
    /\ UNCHANGED <<runVars, phase, timing, error, verdict, classification>>

(* Mutant: a failed cleanup does not fail the run. *)
CleanupFailedIgnored ==
    /\ pc = "cleanupFailed"
    /\ Goto("summary")
    /\ UNCHANGED <<exitCode, verdict, classification, mode, keep, port, writable, n, results,
                   summaryWritten,
                   phase, timing, error, cleanupState, stack>>

(* The handler of a failed cleanup. *)
CleanupFailed ==
    /\ pc = "cleanupFailed"
    /\ \/ Demote("cleanup") /\ Goto("summary") /\ UNCHANGED exitCode
       \/ ~writable /\ Reject /\ UNCHANGED <<verdict, classification>>
    /\ UNCHANGED <<mode, keep, port, writable, n, results, summaryWritten, phase, timing, error,
                   cleanupState, stack>>

Result == [scenario |-> n, verdict |-> verdict, timing |-> timing,
           classification |-> classification, cleanupState |-> cleanupState]

(* summary.json and scenario_complete; then runScenario returns, and the
   suite goes on. *)
Summary ==
    /\ \/ pc = "summary" /\ Goto("next") /\ results' = Append(results, Result) /\ UNCHANGED exitCode
       \/ pc = "summary" /\ ~writable /\ Reject /\ UNCHANGED results
    /\ UNCHANGED <<mode, keep, port, writable, n, summaryWritten, phase, timing, error,
                   resultVars, stack>>

Passed == \A k \in 1..Len(results) : results[k].verdict = "passed"

(* Mutant: the exit code is that of the last scenario. *)
FinishOnLast ==
    /\ pc = "next" /\ n = Count
    /\ Goto("ended")
    /\ summaryWritten' = (mode = "suite")
    /\ exitCode' = IF results[Len(results)].verdict = "passed" THEN 0 ELSE 1
    /\ UNCHANGED <<mode, keep, port, writable, n, phase, timing, error, resultVars, stack, results>>

(* The suite's summary, and main's exit code. *)
Finish ==
    /\ pc = "next" /\ n = Count
    /\ \/ /\ Goto("ended")
          /\ summaryWritten' = (mode = "suite")
          /\ exitCode' = IF Passed THEN 0 ELSE 1
       \/ /\ ~writable /\ mode = "suite"
          /\ Reject
          /\ UNCHANGED summaryWritten
    /\ UNCHANGED <<mode, keep, port, writable, n, phase, timing, error, resultVars, stack, results>>

Next ==
    \/ Begin \/ NextScenario \/ Announce \/ Setup \/ WorkloadEvent \/ Workload
    \/ CompleteEvent \/ StopFitz \/ CatchFailure
    \/ Collect \/ CollectFailed \/ Cleanup \/ CleanupFailed \/ Summary \/ Finish

Spec == Init /\ [][Next]_vars
-----------------------------------------------------------------------------
(* Every variable has its type. *)
TypeOK ==
    /\ mode \in {"suite", "standalone"} /\ keep \in BOOLEAN /\ port \in Ports
    /\ writable \in BOOLEAN
    /\ n \in 0..Scenarios
    /\ pc \in {"begin", "next", "announce", "setup", "workloadEvent", "workload", "completeEvent",
               "stopFitz", "catch", "collect", "collectFailed", "cleanup", "cleanupFailed",
               "summary", "ended"}
    /\ phase \in {"setup", "workload"}
    /\ timing \in {"none", "started", "completed"}
    /\ error \in ErrorClasses \cup {"none"}
    /\ verdict \in {"passed", "failed"}
    /\ classification \in ErrorClasses \cup {"none", "setup", "cleanup"}
    /\ cleanupState \in {"removed", "preserved", "failed"}
    /\ stack \in [1..Scenarios -> {"absent", "up", "removed"}]
    /\ results \in Seq(ScenarioResult)
    /\ summaryWritten \in BOOLEAN
    /\ exitCode \in {0, 1}

(* The CLI exits with 0 only after every scenario has run its workload to the
   end and passed, and has left no stack behind but one that --keep asked for:
   also when artifact writes fail inside the catch and finally clauses. *)
ExitZeroMeansPassed ==
    pc = "ended" /\ exitCode = 0 =>
        /\ Len(results) = Count
        /\ \A k \in 1..Len(results) :
              /\ results[k].verdict = "passed"
              /\ results[k].timing = "completed"
              /\ stack[k] = "removed" \/ (keep /\ stack[k] = "up")

(* What a result says is so: a stack reported as removed is gone, a failed
   cleanup never passes, and a workload that started has also ended. *)
ResultsAreTrue ==
    \A k \in 1..Len(results) :
        /\ results[k].scenario = k
        /\ results[k].cleanupState = "removed" => stack[k] = "removed"
        /\ results[k].cleanupState = "failed" => results[k].verdict = "failed"
        /\ results[k].timing # "started"
        /\ results[k].verdict = "passed" => results[k].classification = "none"

(* With an artifact directory that can be written, a suite runs every scenario
   in order and writes its summary whatever fails; every failure is classified,
   and a stack is left only by a cleanup that is reported as failed. *)
SuiteIsComplete ==
    writable =>
        /\ pc = "ended" /\ mode = "suite" /\ n > 0 =>
              /\ Len(results) = Scenarios
              /\ summaryWritten
              /\ \A k \in 1..Scenarios : stack[k] = "up" => results[k].cleanupState = "failed"
        /\ \A k \in 1..Len(results) :
              results[k].verdict = "failed" => results[k].classification # "none"
=============================================================================
