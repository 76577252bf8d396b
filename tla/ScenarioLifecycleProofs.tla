----------------------- MODULE ScenarioLifecycleProofs -----------------------
(* Proofs about ScenarioLifecycle for every length of the suite, every port,
   and any combination of failing writes and cleanups. *)
EXTENDS ScenarioLifecycle, TLAPS

InTry == {"announce", "setup", "workloadEvent", "workload", "completeEvent", "stopFitz", "catch"}
InFinally == {"collect", "collectFailed", "cleanup", "cleanupFailed", "summary"}

(* One result per scenario that has returned. *)
Counts ==
    /\ n <= Count
    /\ pc \in {"begin", "next"} => Len(results) = n
    /\ pc \in InTry \cup InFinally => n > 0 /\ Len(results) = n - 1
    /\ pc = "ended" => Len(results) <= n

(* The exit code is set at the end, and is 0 only after the loop. *)
Exit ==
    /\ pc # "ended" => exitCode = 0
    /\ pc = "ended" /\ exitCode = 0 => Len(results) = Count /\ Passed

(* Before the finally clause nothing is decided. *)
Undecided ==
    /\ pc \in InTry => verdict = "failed" /\ classification = "none" /\ cleanupState = "preserved"
    /\ pc \in {"workloadEvent", "workload"} => stack[n] = "up"
    /\ pc \in {"completeEvent", "stopFitz"} => stack[n] = "up" /\ timing = "completed"

(* In the finally clause, a passed verdict is about a workload that ended, and
   what is said about the stack is so. *)
Decided ==
    /\ pc \in InFinally =>
          /\ timing # "started"
          /\ verdict = "passed" => timing = "completed" /\ classification = "none"
          /\ cleanupState = "removed" => stack[n] = "removed"
    /\ pc \in {"collect", "collectFailed", "cleanup"} =>
          /\ cleanupState = "preserved"
          /\ verdict = "passed" => stack[n] = "up"
    /\ pc = "summary" =>
          /\ cleanupState = "failed" => verdict = "failed"
          /\ verdict = "passed" => stack[n] = "removed" \/ (keep /\ stack[n] = "up")

(* What a result says stays so. *)
Tied ==
    \A k \in 1..Len(results) :
        results[k].verdict = "passed" =>
            /\ results[k].timing = "completed"
            /\ stack[k] = "removed" \/ (keep /\ stack[k] = "up")

(* What the order of the suite rests on: a scenario that has not begun has no
   stack, a suite never keeps, and when every write succeeds a failure is
   classified and a suite ends only after its last scenario. *)
Complete ==
    /\ mode = "suite" => ~keep
    /\ pc = "begin" => n = 0
    /\ pc = "catch" => error \in ErrorClasses
    /\ pc = "cleanupFailed" => cleanupState = "failed"
    /\ \A k \in 1..Scenarios : k > n => stack[k] = "absent"
    /\ writable =>
         /\ pc \in InFinally /\ verdict = "failed" => classification # "none"
         /\ pc = "summary" /\ mode = "suite" /\ stack[n] = "up" => cleanupState = "failed"
         /\ pc = "ended" /\ mode = "suite" => n = 0 \/ (Len(results) = Scenarios /\ summaryWritten)

(* What a result leaves out is not so: no failure without a class, no stack
   left without a failed cleanup. *)
Told ==
    writable =>
        \A k \in 1..Len(results) :
            /\ results[k].verdict = "failed" => results[k].classification # "none"
            /\ mode = "suite" /\ stack[k] = "up" => results[k].cleanupState = "failed"

(* The inductive invariant. *)
IInv ==
    /\ TypeOK /\ Counts /\ Exit /\ Undecided /\ Decided /\ Complete
    /\ Tied /\ ResultsAreTrue /\ Told

(* Init establishes the inductive invariant. *)
LEMMA InitIInv == Init => IInv
<1> SUFFICES ASSUME Init PROVE IInv
  OBVIOUS
<1>1. TypeOK
  <2>1. results \in Seq(ScenarioResult)
    BY DEF Init
  <2>2. stack \in [1..Scenarios -> {"absent", "up", "removed"}] /\ n \in 0..Scenarios
    BY ScenariosAssumption DEF Init
  <2> QED
    BY <2>1, <2>2 DEF Init, TypeOK, ErrorClasses
<1>2. Counts /\ Exit
  BY ScenariosAssumption DEF Init, Counts, Exit, Count, InTry, InFinally
<1>3. Undecided /\ Decided /\ Tied /\ ResultsAreTrue /\ Told
  BY DEF Init, Undecided, Decided, Tied, ResultsAreTrue, Told, InTry, InFinally
<1>4. Complete
  BY DEF Init, Complete, InFinally
<1> QED
  BY <1>1, <1>2, <1>3, <1>4 DEF IInv

(* Every step keeps the types. *)
LEMMA NextTypeOK == IInv /\ [Next]_vars => TypeOK'
<1> SUFFICES ASSUME IInv, [Next]_vars PROVE TypeOK'
  OBVIOUS
<1> USE ScenariosAssumption DEF TypeOK, ErrorClasses, Goto
<1>0. TypeOK /\ Counts
  BY DEF IInv
<1>1. CASE Begin
  BY <1>0, <1>1 DEF Begin, Reject, resultVars
<1>2. CASE NextScenario
  <2>1. n' \in 0..Scenarios
    BY <1>0, <1>2 DEF NextScenario, Count
  <2> QED
    BY <1>0, <1>2, <2>1 DEF NextScenario
<1>3. CASE Announce
  BY <1>0, <1>3 DEF Announce, UncaughtWrite, Reject, resultVars
<1>4. CASE Setup
  BY <1>0, <1>4 DEF Setup, Catch, runVars, resultVars
<1>5. CASE WorkloadEvent
  BY <1>0, <1>5 DEF WorkloadEvent, Catch, runVars, resultVars
<1>6. CASE Workload
  BY <1>0, <1>6 DEF Workload, Catch, runVars, resultVars
<1>7. CASE CompleteEvent
  BY <1>0, <1>7 DEF CompleteEvent, Catch, runVars, resultVars
<1>8. CASE StopFitz
  BY <1>0, <1>8 DEF StopFitz, Catch, runVars
<1>9. CASE CatchFailure
  BY <1>0, <1>9 DEF CatchFailure, ClassifyFailure, runVars
<1>10. CASE Collect
  BY <1>0, <1>10 DEF Collect, runVars, resultVars
<1>11. CASE CollectFailed
  BY <1>0, <1>11 DEF CollectFailed, Demote, Reject
<1>12. CASE Cleanup
  BY <1>0, <1>12 DEF Cleanup, runVars
<1>13. CASE CleanupFailed
  BY <1>0, <1>13 DEF CleanupFailed, Demote, Reject
<1>14. CASE Summary
  <2>1. n \in 1..Scenarios
    BY <1>0, <1>14 DEF Summary, Counts, InFinally
  <2>2. Result \in ScenarioResult
    BY <1>0, <2>1 DEF Result, ScenarioResult
  <2>3. results' \in Seq(ScenarioResult)
    BY <1>0, <1>14, <2>2 DEF Summary
  <2> QED
    BY <1>0, <1>14, <2>3 DEF Summary, Reject, resultVars
<1>15. CASE Finish
  <2>1. summaryWritten' \in BOOLEAN
    BY <1>0, <1>15, Zenon DEF Finish
  <2>2. exitCode' \in {0, 1} /\ pc' = "ended"
    BY <1>15 DEF Finish, Reject
  <2>3. UNCHANGED <<mode, keep, port, writable, n, phase, timing, error, verdict,
                    classification, cleanupState, stack, results>>
    BY <1>15 DEF Finish, resultVars
  <2> QED
    BY <1>0, <2>1, <2>2, <2>3
<1>16. CASE UNCHANGED vars
  BY <1>0, <1>16 DEF vars
<1> QED
  BY <1>1, <1>2, <1>3, <1>4, <1>5, <1>6, <1>7, <1>8, <1>9, <1>10, <1>11, <1>12, <1>13,
     <1>14, <1>15, <1>16 DEF Next

(* Every step keeps the counts, the exit code and what the clauses of
   runScenario rely on. *)
LEMMA NextLocal == IInv /\ [Next]_vars => Counts' /\ Exit' /\ Undecided' /\ Decided'
<1> DEFINE Goal == Counts /\ Exit /\ Undecided /\ Decided
<1> SUFFICES ASSUME IInv, [Next]_vars PROVE Goal'
  OBVIOUS
<1> USE ScenariosAssumption DEF Counts, Exit, Undecided, Decided, InTry, InFinally, Count, Goto,
                                Passed
<1>0. TypeOK /\ Goal
  BY DEF IInv
<1>n. n \in Nat /\ Len(results) \in Nat
  BY <1>0 DEF TypeOK
<1>1. CASE Begin
  BY <1>0, <1>n, <1>1 DEF Begin, Reject, resultVars
<1>2. CASE NextScenario
  BY <1>0, <1>n, <1>2 DEF NextScenario
<1>3. CASE Announce
  BY <1>0, <1>n, <1>3 DEF Announce, UncaughtWrite, Reject, resultVars
<1>4. CASE Setup
  BY <1>0, <1>n, <1>4 DEF Setup, Catch, runVars, resultVars, TypeOK
<1>5. CASE WorkloadEvent
  BY <1>0, <1>n, <1>5 DEF WorkloadEvent, Catch, runVars, resultVars
<1>6. CASE Workload
  BY <1>0, <1>n, <1>6 DEF Workload, Catch, runVars, resultVars
<1>7. CASE CompleteEvent
  BY <1>0, <1>n, <1>7 DEF CompleteEvent, Catch, runVars, resultVars
<1>8. CASE StopFitz
  BY <1>0, <1>n, <1>8 DEF StopFitz, Catch, runVars
<1>9. CASE CatchFailure
  BY <1>0, <1>n, <1>9 DEF CatchFailure, runVars, TypeOK
<1>10. CASE Collect
  BY <1>0, <1>n, <1>10 DEF Collect, runVars, resultVars
<1>11. CASE CollectFailed
  BY <1>0, <1>n, <1>11 DEF CollectFailed, Demote, Reject, TypeOK
<1>12. CASE Cleanup
  BY <1>0, <1>n, <1>12 DEF Cleanup, ShouldCleanup, runVars, TypeOK
<1>13. CASE CleanupFailed
  BY <1>0, <1>n, <1>13 DEF CleanupFailed, Demote, Reject, TypeOK
<1>14. CASE Summary
  <2>1. Len(results') = n \/ (pc' = "ended" /\ exitCode' = 1 /\ results' = results)
    BY <1>0, <1>n, <1>14 DEF Summary, Reject, TypeOK
  <2> QED
    BY <1>0, <1>n, <1>14, <2>1 DEF Summary, Reject, resultVars
<1>15. CASE Finish
  <2>1. UNCHANGED <<mode, n, results>> /\ pc' = "ended" /\ pc = "next" /\ n = Count
    BY <1>15 DEF Finish, Reject
  <2>2. exitCode' = 0 => Passed
    BY <1>15 DEF Finish, Reject
  <2>3. Passed' = Passed /\ Count' = Count
    BY <2>1
  <2>4. Counts' /\ Undecided' /\ Decided'
    BY <1>0, <1>n, <2>1
  <2>5. Exit'
    <3> HIDE DEF Passed, Count
    <3> QED
      BY <1>0, <1>n, <2>1, <2>2, <2>3
  <2> QED
    BY <2>4, <2>5
<1>16. CASE UNCHANGED vars
  BY <1>0, <1>16 DEF vars
<1> QED
  BY <1>1, <1>2, <1>3, <1>4, <1>5, <1>6, <1>7, <1>8, <1>9, <1>10, <1>11, <1>12, <1>13,
     <1>14, <1>15, <1>16 DEF Next

(* Every step keeps what the order of the suite rests on. *)
LEMMA NextComplete == IInv /\ [Next]_vars => Complete'
<1> SUFFICES ASSUME IInv, [Next]_vars PROVE Complete'
  OBVIOUS
<1> USE ScenariosAssumption DEF Complete, InTry, InFinally, Goto, ErrorClasses
<1>0. TypeOK /\ Counts /\ Undecided /\ Decided /\ Complete
  BY DEF IInv
<1>n. n \in Nat /\ Len(results) \in Nat
  BY <1>0 DEF TypeOK
<1>1. CASE Begin
  <2>1. /\ pc = "begin" /\ pc' \in {"next", "ended"}
        /\ UNCHANGED <<mode, keep, writable, n, stack>>
    BY <1>1 DEF Begin, Reject
  <2> QED
    BY <1>0, <2>1
<1>2. CASE NextScenario
  BY <1>0, <1>n, <1>2 DEF NextScenario
<1>3. CASE Announce
  BY <1>0, <1>n, <1>3 DEF Announce, UncaughtWrite, Reject, resultVars
<1>4. CASE Setup
  <2>1. /\ pc = "setup" /\ pc' \in {"workloadEvent", "catch"}
        /\ pc' = "catch" => error' \in ErrorClasses
        /\ UNCHANGED <<mode, keep, writable, n>>
    BY <1>4 DEF Setup, Catch, runVars
  <2>2. \E s : stack' = [stack EXCEPT ![n] = s]
    BY <1>4 DEF Setup
  <2>3. \A k \in 1..Scenarios : k > n => stack'[k] = stack[k]
    BY <1>0, <1>n, <2>2 DEF TypeOK
  <2> QED
    BY <1>0, <2>1, <2>3
<1>5. CASE WorkloadEvent
  BY <1>0, <1>n, <1>5 DEF WorkloadEvent, Catch, runVars, resultVars
<1>6. CASE Workload
  BY <1>0, <1>n, <1>6 DEF Workload, Catch, runVars, resultVars
<1>7. CASE CompleteEvent
  BY <1>0, <1>n, <1>7 DEF CompleteEvent, Catch, runVars, resultVars
<1>8. CASE StopFitz
  BY <1>0, <1>n, <1>8 DEF StopFitz, Catch, runVars
<1>9. CASE CatchFailure
  BY <1>0, <1>n, <1>9 DEF CatchFailure, ClassifyFailure, runVars
<1>10. CASE Collect
  BY <1>0, <1>n, <1>10 DEF Collect, runVars, resultVars
<1>11. CASE CollectFailed
  BY <1>0, <1>n, <1>11 DEF CollectFailed, Demote, Reject
<1>12. CASE Cleanup
  BY <1>0, <1>n, <1>12 DEF Cleanup, ShouldCleanup, Counts, runVars, TypeOK
<1>13. CASE CleanupFailed
  BY <1>0, <1>n, <1>13 DEF CleanupFailed, Demote, Reject
<1>14. CASE Summary
  BY <1>0, <1>n, <1>14 DEF Summary, Reject, resultVars
<1>15. CASE Finish
  BY <1>0, <1>n, <1>15 DEF Finish, Reject, resultVars, Counts, Count
<1>16. CASE UNCHANGED vars
  BY <1>0, <1>16 DEF vars
<1> QED
  BY <1>1, <1>2, <1>3, <1>4, <1>5, <1>6, <1>7, <1>8, <1>9, <1>10, <1>11, <1>12, <1>13,
     <1>14, <1>15, <1>16 DEF Next

(* What the results say stays true: a later scenario has a stack of its own. *)
LEMMA NextResults == IInv /\ [Next]_vars => Tied' /\ ResultsAreTrue' /\ Told'
<1> SUFFICES ASSUME IInv, [Next]_vars PROVE Tied' /\ ResultsAreTrue' /\ Told'
  OBVIOUS
<1>0. TypeOK /\ Counts /\ Tied /\ ResultsAreTrue /\ Told
  BY DEF IInv
<1>n. n \in Nat /\ Len(results) \in Nat
  BY <1>0 DEF TypeOK
<1>1. ASSUME UNCHANGED <<results, mode, keep, writable>>,
             stack' = stack \/ (Len(results) = n - 1 /\ \E s : stack' = [stack EXCEPT ![n] = s])
      PROVE  Tied' /\ ResultsAreTrue' /\ Told'
  <2>1. \A k \in 1..Len(results) : stack'[k] = stack[k]
    <3>1. CASE stack' = stack
      BY <3>1
    <3>2. CASE Len(results) = n - 1 /\ \E s : stack' = [stack EXCEPT ![n] = s]
      <4>1. PICK s : stack' = [stack EXCEPT ![n] = s]
        BY <3>2
      <4>2. \A k \in 1..Len(results) : k \in 1..Scenarios /\ k # n
        BY <1>0, <1>n, <3>2, ScenariosAssumption DEF TypeOK
      <4>3. DOMAIN stack = 1..Scenarios
        BY <1>0 DEF TypeOK
      <4> QED
        BY <4>1, <4>2, <4>3
    <3> QED
      BY <1>1, <3>1, <3>2
  <2> QED
    BY <1>0, <1>1, <2>1 DEF Tied, ResultsAreTrue, Told
<1>2. CASE Setup \/ Cleanup
  <2>1. Len(results) = n - 1 /\ UNCHANGED <<results, mode, keep, writable>>
    BY <1>0, <1>2 DEF Setup, Cleanup, Counts, InTry, InFinally, runVars
  <2>2. stack' = stack \/ \E s : stack' = [stack EXCEPT ![n] = s]
    BY <1>2 DEF Setup, Cleanup
  <2> QED
    BY <1>1, <2>1, <2>2
<1>3. CASE Summary
  <2>1. CASE results' = results
    BY <1>1, <1>3, <2>1 DEF Summary
  <2>2. CASE pc = "summary" /\ results' = Append(results, Result)
    <3>1. UNCHANGED <<stack, mode, keep, writable>> /\ n \in 1..Scenarios /\ Len(results) = n - 1
      BY <1>0, <1>n, <1>3, <2>2 DEF Summary, Counts, InFinally, TypeOK
    <3>2. Len(results') = n /\ results'[n] = Result
      BY <1>0, <1>n, <2>2, <3>1 DEF TypeOK
    <3>3. \A k \in 1..Len(results) : results'[k] = results[k]
      BY <1>0, <2>2 DEF TypeOK
    <3>4. /\ Result.scenario = n /\ Result.verdict = verdict /\ Result.timing = timing
          /\ Result.classification = classification /\ Result.cleanupState = cleanupState
      BY DEF Result
    <3>5. Decided /\ Complete
      BY DEF IInv
    <3>6. \A k \in 1..Len(results') : k = n \/ k \in 1..Len(results)
      BY <1>n, <3>1, <3>2
    <3>7. Tied'
      BY <1>0, <2>2, <3>1, <3>2, <3>3, <3>4, <3>5, <3>6 DEF Tied, Decided, InFinally
    <3>8. ResultsAreTrue'
      BY <1>0, <2>2, <3>1, <3>2, <3>3, <3>4, <3>5, <3>6 DEF ResultsAreTrue, Decided, InFinally
    <3>9. Told'
      BY <1>0, <2>2, <3>1, <3>2, <3>3, <3>4, <3>5, <3>6 DEF Told, Complete, InFinally
    <3> QED
      BY <3>7, <3>8, <3>9
  <2> QED
    BY <1>3, <2>1, <2>2 DEF Summary
<1>4. CASE Begin \/ NextScenario \/ Announce \/ WorkloadEvent \/ Workload \/ CompleteEvent
           \/ StopFitz \/ CatchFailure
  <2>1. UNCHANGED <<results, mode, keep, writable, stack>>
    BY <1>4 DEF Begin, NextScenario, Announce, WorkloadEvent, Workload, CompleteEvent, StopFitz,
                CatchFailure, runVars
  <2> QED
    BY <1>1, <2>1
<1>5. CASE Collect \/ CollectFailed \/ CleanupFailed \/ Finish \/ UNCHANGED vars
  <2>1. UNCHANGED <<results, mode, keep, writable, stack>>
    BY <1>5 DEF Collect, CollectFailed, CleanupFailed, Finish, runVars, vars
  <2> QED
    BY <1>1, <2>1
<1> QED
  BY <1>2, <1>3, <1>4, <1>5 DEF Next

(* The inductive invariant holds in every reachable state. *)
THEOREM LifecycleInvariant == Spec => []IInv
<1>1. IInv /\ [Next]_vars => IInv'
  BY NextTypeOK, NextLocal, NextComplete, NextResults DEF IInv
<1> QED
  BY InitIInv, <1>1, PTL DEF Spec

(* Every variable keeps its type. *)
THEOREM LifecycleTypeOK == Spec => []TypeOK
<1>1. IInv => TypeOK
  BY DEF IInv
<1> QED
  BY LifecycleInvariant, <1>1, PTL

(* The CLI exits with 0 only when every scenario of the suite has passed and
   left no stack that was not asked for, for every length of the suite and
   wherever artifact writes and docker commands fail. *)
THEOREM LifecycleExitZeroMeansPassed == Spec => []ExitZeroMeansPassed
<1>1. IInv => ExitZeroMeansPassed
  BY DEF IInv, ExitZeroMeansPassed, Exit, Passed, Tied
<1> QED
  BY LifecycleInvariant, <1>1, PTL

(* What a result says about its stack, its workload and its verdict is so. *)
THEOREM LifecycleResultsAreTrue == Spec => []ResultsAreTrue
<1>1. IInv => ResultsAreTrue
  BY DEF IInv
<1> QED
  BY LifecycleInvariant, <1>1, PTL

(* When no artifact write fails, a suite runs every scenario in order, writes
   its summary, classifies every failure, and leaves a stack behind only where
   it reports a failed cleanup: for every length of the suite. *)
THEOREM LifecycleSuiteIsComplete == Spec => []SuiteIsComplete
<1>1. IInv => SuiteIsComplete
  BY DEF IInv, SuiteIsComplete, Complete, Told
<1> QED
  BY LifecycleInvariant, <1>1, PTL
=============================================================================
