------------------------ MODULE RoleContainersProofs ------------------------
(* Proofs about RoleContainers for every number of replicas, every set of
   events, and docker commands that may or may not fail. *)
EXTENDS RoleContainers, TLAPS

(* A loop over the containers is at a container. *)
IndexInRange ==
    pc \in {"start", "waitLog", "waitState", "finishState", "finishCapture", "killCapture",
           "snapshot"}
        => i \in Workers

(* The containers a round of waitForRoleEvent has passed either have the
   event or are counted as missing; a snapshot does not forget the last wait. *)
RoundIsSound ==
    /\ pc \in {"waitLog", "waitState"} =>
          \A w \in 1..(i - 1) : w \in missing \/ event \in logged[w]
    /\ pc = "snapshot" /\ outcome = "logged" => \A w \in Workers : event \in logged[w]

(* A container sampled as exited has exited, with the code that was sampled;
   nothing is sampled while the wave starts. *)
SamplesAreFinal ==
    /\ pc = "start" => \A w \in Workers : states[w] = "unknown"
    /\ \A w \in Workers : states[w] = "exited" =>
        status[w] \in {"exited", "removed"} /\ codes[w] = exitCode[w]

Whole(w) == w \in Flaky \/ captured[w] = logged[w]

(* What a finish has captured of the containers it sampled as exited is whole. *)
FinishIsWhole ==
    /\ pc = "finishCapture" => \A w \in 1..(i - 1) : states[w] = "exited" => Whole(w)
    /\ pc = "finishJudge" => \A w \in Workers : states[w] = "exited" => Whole(w)

(* Nothing runs, and so nothing is logged, once a kill captures logs. *)
KillIsWhole ==
    /\ pc \in {"killCapture", "killRemove"} =>
         \A w \in Workers \ Flaky : status[w] # "running"
    /\ pc = "killCapture" => \A w \in 1..(i - 1) : Whole(w)
    /\ pc = "killRemove" => \A w \in Workers : Whole(w)

(* After a successful finish or kill everything is removed. *)
EndIsFinal ==
    outcome \in {"finished", "killed"} =>
        pc = "done" /\ \A w \in Workers : status[w] = "removed"

(* The inductive invariant. *)
IInv ==
    /\ TypeOK
    /\ IndexInRange
    /\ RoundIsSound
    /\ WaitMeansLogged
    /\ SamplesAreFinal
    /\ FinishIsWhole
    /\ KillIsWhole
    /\ EndIsFinal
    /\ LogsAreWhole


(* Init establishes the inductive invariant. *)
LEMMA InitIInv == Init => IInv
<1> SUFFICES ASSUME Init PROVE IInv
  OBVIOUS
<1>1. TypeOK
  <2>1. i \in 1..(Replicas + 1)
    BY ReplicasAssumption DEF Init
  <2>2. states \in [Workers -> {"unknown", "absent", "running", "exited", "removed"}]
    BY DEF Init
  <2> QED
    BY <2>1, <2>2 DEF Init, TypeOK, ExitCodes, Loop, Stopped
<1>2. IndexInRange
  BY ReplicasAssumption DEF Init, IndexInRange, Workers
<1>3. RoundIsSound /\ WaitMeansLogged /\ FinishIsWhole /\ KillIsWhole /\ EndIsFinal /\ LogsAreWhole
  BY DEF Init, RoundIsSound, WaitMeansLogged, FinishIsWhole, KillIsWhole, EndIsFinal, LogsAreWhole
<1>4. SamplesAreFinal
  BY DEF Init, SamplesAreFinal
<1> QED
  BY <1>1, <1>2, <1>3, <1>4 DEF IInv

(* Every step keeps the types and the loop index in range. *)
LEMMA NextTypeOK == TypeOK /\ IndexInRange /\ [Next]_vars => TypeOK' /\ IndexInRange'
<1> SUFFICES ASSUME TypeOK, IndexInRange, [Next]_vars PROVE TypeOK' /\ IndexInRange'
  OBVIOUS
<1> USE ReplicasAssumption DEF TypeOK, IndexInRange, Workers, Loop, Stopped, ExitCodes
<1>1. ASSUME NEW w \in Workers, WorkerLogs(w) PROVE TypeOK' /\ IndexInRange'
  BY <1>1 DEF WorkerLogs
<1>2. ASSUME NEW w \in Workers, WorkerExits(w) PROVE TypeOK' /\ IndexInRange'
  BY <1>2 DEF WorkerExits
<1>3. CASE DeadlinePasses
  BY <1>3 DEF DeadlinePasses, workerVars
<1>4. CASE StartOne
  BY <1>4 DEF StartOne, Return
<1>5. CASE CommandFails
  BY <1>5 DEF CommandFails, Throw, workerVars
<1>6. CASE CallWait
  BY <1>6 DEF CallWait, workerVars
<1>7. CASE WaitHead
  <2>1. UNCHANGED <<status, exitCode, logged, event, states, codes, captured, expired>>
    BY <1>7 DEF WaitHead, workerVars
  <2>2. (missing' = {} /\ i' = 1) \/ (missing' = missing /\ i' = i)
    BY <1>7 DEF WaitHead
  <2>4. missing' \in SUBSET Workers
    BY <2>2
  <2>5. i' \in 1..(Replicas + 1)
    BY <2>2
  <2>3. (pc' = "waitLog" /\ i' = 1 /\ outcome' = outcome) \/ (pc' = "threw" /\ outcome' = "timeout")
    BY <1>7 DEF WaitHead, Throw
  <2> QED
    BY <2>1, <2>3, <2>4, <2>5
<1>8. CASE WaitLog
  BY <1>8 DEF WaitLog, NextWait, Return, workerVars
<1>9. CASE WaitState
  <2>1. UNCHANGED <<status, exitCode, logged, event, states, codes, captured, expired>>
    BY <1>9 DEF WaitState, workerVars
  <2>2. i \in 1..Replicas
    BY <1>9 DEF WaitState
  <2>8. missing' = missing \/ missing' = missing \cup {i}
    BY <1>9 DEF WaitState
  <2>9. missing \in SUBSET Workers /\ i \in Workers
    BY <2>2
  <2>3. missing' \in SUBSET Workers
    <3> HIDE DEF TypeOK, IndexInRange, Workers
    <3>1. ASSUME NEW v \in missing' PROVE v \in Workers
      BY <2>8, <2>9
    <3> QED
      BY <3>1
  <2>4. \/ pc' = "threw" /\ outcome' = "exited-before-event" /\ i' = i
        \/ pc' = "waitLog" /\ outcome' = outcome /\ i' = i + 1 /\ i < Replicas
        \/ pc' = "idle" /\ outcome' = "logged" /\ i' = i
        \/ pc' = "waitHead" /\ outcome' = outcome /\ i' = i
    BY <1>9 DEF WaitState, NextWait, Return, Throw
  <2>5. i' \in 1..(Replicas + 1) /\ (pc' = "waitLog" => i' \in 1..Replicas)
    BY <2>2, <2>4
  <2>6. pc' \in {"threw", "waitLog", "idle", "waitHead"}
    BY <2>4
  <2>7. outcome' \in {"none", "started", "command", "logged", "timeout",
                       "exited-before-event", "finished", "failed", "killed"}
    BY <2>4
  <2> QED
    BY <2>1, <2>3, <2>5, <2>6, <2>7
<1>10. CASE CallFinish
  BY <1>10 DEF CallFinish, workerVars
<1>11. CASE FinishHead
  BY <1>11 DEF FinishHead, workerVars
<1>12. CASE FinishState
  BY <1>12 DEF FinishState, workerVars
<1>13. CASE FinishCapture
  BY <1>13 DEF FinishCapture, CaptureOne, Reads, workerVars
<1>14. CASE FinishJudge
  BY <1>14 DEF FinishJudge, Throw, Remove, RemoveFails
<1>15. CASE CallKill
  BY <1>15 DEF CallKill, SignalKill
<1>16. CASE KillCapture
  BY <1>16 DEF KillCapture, CaptureOne, Reads, workerVars
<1>17. CASE KillRemove
  BY <1>17 DEF KillRemove, Throw, Remove, RemoveFails
<1>21. CASE StartFails
  BY <1>21 DEF StartFails, Throw
<1>19. CASE CallSnapshot
  BY <1>19 DEF CallSnapshot, workerVars
<1>20. CASE Snapshot
  BY <1>20 DEF Snapshot, CaptureOne, Reads, workerVars
<1>18. CASE UNCHANGED vars
  BY <1>18 DEF vars
<1> QED
  BY <1>1, <1>2, <1>3, <1>4, <1>5, <1>6, <1>7, <1>8, <1>9, <1>10, <1>11, <1>12,
     <1>13, <1>14, <1>15, <1>16, <1>17, <1>18, <1>19, <1>20, <1>21 DEF Next, Driver

(* A round of waitForRoleEvent stays sound, and returns only when the event
   is in every log: logs only grow. *)
LEMMA NextWaitMeansLogged ==
    TypeOK /\ IndexInRange /\ RoundIsSound /\ WaitMeansLogged /\ [Next]_vars
        => RoundIsSound' /\ WaitMeansLogged'
<1> SUFFICES ASSUME TypeOK, IndexInRange, RoundIsSound, WaitMeansLogged, [Next]_vars
             PROVE  RoundIsSound' /\ WaitMeansLogged'
  OBVIOUS
<1> USE ReplicasAssumption DEF RoundIsSound, WaitMeansLogged, Workers
<1>0. i \in Nat
  BY DEF TypeOK
<1>1. ASSUME NEW w \in Workers, WorkerLogs(w) PROVE RoundIsSound' /\ WaitMeansLogged'
  <2>1. \A v \in Workers : logged[v] \subseteq logged'[v]
    BY <1>1 DEF WorkerLogs, TypeOK
  <2>2. UNCHANGED <<pc, i, missing, event, outcome>>
    BY <1>1 DEF WorkerLogs
  <2>3. pc \in {"waitLog", "waitState"} => \A v \in 1..(i - 1) : v \in Workers
    BY <1>0 DEF IndexInRange
  <2> QED
    BY <2>1, <2>2, <2>3
<1>2. ASSUME NEW w \in Workers, WorkerExits(w) PROVE RoundIsSound' /\ WaitMeansLogged'
  BY <1>2 DEF WorkerExits
<1>3. CASE DeadlinePasses
  BY <1>3 DEF DeadlinePasses, workerVars
<1>4. CASE StartOne
  BY <1>4 DEF StartOne, Return
<1>5. CASE CommandFails
  BY <1>5 DEF CommandFails, Throw
<1>6. CASE CallWait
  BY <1>6 DEF CallWait
<1>7. CASE WaitHead
  BY <1>7 DEF WaitHead, Throw
<1>8. CASE WaitLog
  <2>1. i \in Workers
    BY <1>8 DEF WaitLog, IndexInRange
  <2>2. PICK log \in Reads(i) :
          \/ event \in log /\ NextWait(missing)
          \/ event \notin log /\ pc' = "waitState" /\ UNCHANGED <<i, outcome>>
    BY <1>8 DEF WaitLog
  <2>3. log \subseteq logged[i]
    BY <2>2 DEF Reads
  <2>4. UNCHANGED <<logged, event, missing>>
    BY <1>8 DEF WaitLog, workerVars
  <2>5. \A w \in 1..(i - 1) : w \in missing \/ event \in logged[w]
    BY <1>8 DEF WaitLog
  <2>6. CASE event \in log /\ NextWait(missing)
    <3>1. \A w \in 1..i : w \in missing \/ event \in logged[w]
      BY <2>1, <2>3, <2>5, <2>6
    <3>2. CASE i < Replicas
      BY <2>1, <2>4, <2>6, <3>1, <3>2 DEF NextWait
    <3>3. CASE ~(i < Replicas)
      <4>1. i = Replicas
        BY <2>1, <3>3
      <4> QED
        BY <2>4, <2>6, <3>1, <3>3, <4>1 DEF NextWait, Return
    <3> QED
      BY <3>2, <3>3
  <2>7. CASE pc' = "waitState" /\ UNCHANGED <<i, outcome>>
    BY <2>4, <2>5, <2>7
  <2> QED
    BY <2>2, <2>6, <2>7
<1>9. CASE WaitState
  <2>1. i \in Workers
    BY <1>9 DEF WaitState, IndexInRange
  <2>2. UNCHANGED <<logged, event>>
    BY <1>9 DEF WaitState, workerVars
  <2>3. \A w \in 1..(i - 1) : w \in missing \/ event \in logged[w]
    BY <1>9 DEF WaitState
  <2>4. CASE pc' = "threw"
    BY <2>4
  <2>5. CASE missing' = missing \cup {i} /\ NextWait(missing \cup {i})
    <3>1. \A w \in 1..i : w \in missing' \/ event \in logged[w]
      BY <2>1, <2>3, <2>5
    <3>2. CASE i < Replicas
      BY <2>1, <2>2, <2>5, <3>1, <3>2 DEF NextWait
    <3>3. CASE ~(i < Replicas)
      <4>1. pc' = "waitHead"
        BY <2>5, <3>3 DEF NextWait
      <4> QED
        BY <4>1
    <3> QED
      BY <3>2, <3>3
  <2> QED
    BY <1>9, <2>4, <2>5 DEF WaitState, Throw
<1>10. CASE CallFinish
  BY <1>10 DEF CallFinish
<1>11. CASE FinishHead
  BY <1>11 DEF FinishHead
<1>12. CASE FinishState
  BY <1>12 DEF FinishState
<1>13. CASE FinishCapture
  BY <1>13 DEF FinishCapture, CaptureOne
<1>14. CASE FinishJudge
  BY <1>14 DEF FinishJudge, RemoveFails, Throw
<1>15. CASE CallKill
  BY <1>15 DEF CallKill
<1>16. CASE KillCapture
  BY <1>16 DEF KillCapture, CaptureOne
<1>17. CASE KillRemove
  BY <1>17 DEF KillRemove, RemoveFails, Throw
<1>21. CASE StartFails
  BY <1>21 DEF StartFails, Throw
<1>19. CASE CallSnapshot
  BY <1>19 DEF CallSnapshot, workerVars
<1>20. CASE Snapshot
  BY <1>20 DEF Snapshot, CaptureOne, workerVars
<1>18. CASE UNCHANGED vars
  BY <1>18 DEF vars
<1> QED
  BY <1>1, <1>2, <1>3, <1>4, <1>5, <1>6, <1>7, <1>8, <1>9, <1>10, <1>11, <1>12,
     <1>13, <1>14, <1>15, <1>16, <1>17, <1>18, <1>19, <1>20, <1>21 DEF Next, Driver

(* What is sampled and captured stays true: a container that is not running
   never runs, logs or changes its exit code again. *)
LEMMA NextLogsAreWhole == IInv /\ [Next]_vars
        => SamplesAreFinal' /\ FinishIsWhole' /\ KillIsWhole' /\ EndIsFinal' /\ LogsAreWhole'
<1> DEFINE Goal == SamplesAreFinal /\ FinishIsWhole /\ KillIsWhole /\ EndIsFinal /\ LogsAreWhole
<1> SUFFICES ASSUME IInv, [Next]_vars PROVE Goal'
  OBVIOUS
<1> USE ReplicasAssumption DEF SamplesAreFinal, FinishIsWhole, KillIsWhole, EndIsFinal,
                               LogsAreWhole, Whole
<1>0. TypeOK /\ IndexInRange /\ Goal
  BY DEF IInv
<1>i. i \in Nat /\ i \in 1..(Replicas + 1)
  BY <1>0 DEF TypeOK
<1>1. ASSUME NEW w \in Workers, WorkerLogs(w) PROVE Goal'
  <2>1. \A v \in Workers : status[v] # "running" => logged'[v] = logged[v]
    BY <1>0, <1>1 DEF WorkerLogs, TypeOK
  <2>2. UNCHANGED <<status, exitCode, pc, i, states, codes, captured, outcome>>
    BY <1>1 DEF WorkerLogs
  <2>3. pc \in {"finishCapture", "killCapture"} => \A v \in 1..(i - 1) : v \in Workers
    BY <1>0, <1>i DEF IndexInRange, Workers
  <2> QED
    BY <1>0, <2>1, <2>2, <2>3
<1>2. ASSUME NEW w \in Workers, WorkerExits(w) PROVE Goal'
  <2>1. \A v \in Workers : status[v] # "running" =>
           status'[v] = status[v] /\ exitCode'[v] = exitCode[v]
    BY <1>0, <1>2 DEF WorkerExits, TypeOK
  <2>2. UNCHANGED <<logged, pc, i, states, codes, captured, outcome>>
    BY <1>2 DEF WorkerExits
  <2> QED
    BY <1>0, <2>1, <2>2
<1>3. CASE DeadlinePasses
  BY <1>0, <1>3 DEF DeadlinePasses, workerVars
<1>4. CASE StartOne
  <2>1. UNCHANGED <<exitCode, logged, states, codes, captured>> /\ pc = "start"
    BY <1>4 DEF StartOne
  <2>2. (pc' = "idle" /\ outcome' = "started") \/ (pc' = pc /\ outcome' = outcome)
    BY <1>4 DEF StartOne, Return
  <2> QED
    BY <1>0, <2>1, <2>2
<1>5. CASE CommandFails
  BY <1>0, <1>5 DEF CommandFails, Throw, workerVars, Stopped
<1>6. CASE CallWait
  BY <1>0, <1>6 DEF CallWait, workerVars
<1>7. CASE WaitHead
  BY <1>0, <1>7 DEF WaitHead, Throw, workerVars
<1>8. CASE WaitLog
  BY <1>0, <1>8 DEF WaitLog, NextWait, Return, workerVars
<1>9. CASE WaitState
  BY <1>0, <1>9 DEF WaitState, NextWait, Return, Throw, workerVars
<1>10. CASE CallFinish
  BY <1>0, <1>10 DEF CallFinish, workerVars
<1>11. CASE FinishHead
  BY <1>0, <1>11 DEF FinishHead, workerVars
<1>12. CASE FinishState
  BY <1>0, <1>12 DEF FinishState, workerVars, TypeOK, IndexInRange
<1>13. CASE FinishCapture
  <2>1. UNCHANGED <<status, exitCode, logged, states, codes, outcome>>
    BY <1>13 DEF FinishCapture, workerVars
  <2>2. pc = "finishCapture" /\ i \in Workers
    BY <1>0, <1>13 DEF FinishCapture, IndexInRange
  <2>3. /\ i \in Flaky \/ captured'[i] = logged[i]
        /\ \A w \in Workers : w # i => captured'[w] = captured[w]
    BY <1>0, <1>13, <2>2 DEF FinishCapture, CaptureOne, Reads, TypeOK
  <2>4. \A w \in 1..i : w \in Workers /\ (states[w] = "exited" => Whole(w)')
    BY <1>0, <2>1, <2>2, <2>3 DEF Workers
  <2>5. \/ pc' = pc /\ i' = i + 1
        \/ pc' = "finishJudge" /\ i = Replicas
    BY <1>13, <2>2 DEF FinishCapture, CaptureOne, Workers
  <2>6. FinishIsWhole'
    BY <2>1, <2>2, <2>4, <2>5 DEF Workers
  <2> QED
    BY <1>0, <2>1, <2>2, <2>5, <2>6
<1>r. ASSUME RemoveFails, pc \in {"finishJudge", "killRemove"},
             UNCHANGED <<exitCode, logged, states, codes, captured>>
      PROVE  Goal'
  <2>1. \A w \in Workers : status'[w] = status[w] \/ (status[w] = "exited" /\ status'[w] = "removed")
    BY <1>r DEF RemoveFails
  <2>2. pc' = "threw" /\ outcome' = "command"
    BY <1>r DEF RemoveFails, Throw
  <2> QED
    BY <1>0, <1>r, <2>1, <2>2
<1>14. CASE FinishJudge
  <2>1. CASE RemoveFails
    BY <1>r, <1>14, <2>1 DEF FinishJudge
  <2>2. CASE ~RemoveFails
    BY <1>0, <1>14, <2>2 DEF FinishJudge, Throw, Remove
  <2> QED
    BY <2>1, <2>2
<1>15. CASE CallKill
  BY <1>0, <1>15 DEF CallKill, SignalKill, TypeOK, Workers
<1>16. CASE KillCapture
  BY <1>0, <1>i, <1>16 DEF KillCapture, CaptureOne, Reads, workerVars, TypeOK, IndexInRange, Workers
<1>17. CASE KillRemove
  <2>1. CASE RemoveFails
    BY <1>r, <1>17, <2>1 DEF KillRemove
  <2>2. CASE ~RemoveFails
    BY <1>0, <1>17, <2>2 DEF KillRemove, Remove
  <2> QED
    BY <2>1, <2>2
<1>21. CASE StartFails
  BY <1>0, <1>21 DEF StartFails, Throw
<1>19. CASE CallSnapshot
  BY <1>0, <1>19 DEF CallSnapshot, workerVars
<1>20. CASE Snapshot
  BY <1>0, <1>20 DEF Snapshot, CaptureOne, workerVars, TypeOK
<1>18. CASE UNCHANGED vars
  BY <1>0, <1>18 DEF vars
<1> QED
  BY <1>1, <1>2, <1>3, <1>4, <1>5, <1>6, <1>7, <1>8, <1>9, <1>10, <1>11, <1>12,
     <1>13, <1>14, <1>15, <1>16, <1>17, <1>18, <1>19, <1>20, <1>21 DEF Next, Driver

(* The inductive invariant holds in every reachable state. *)
THEOREM RoleInvariant == Spec => []IInv
<1>1. IInv /\ [Next]_vars => IInv'
  BY NextTypeOK, NextWaitMeansLogged, NextLogsAreWhole DEF IInv
<1> QED
  BY InitIInv, <1>1, PTL DEF Spec

(* waitForRoleEvent returns only once every container of the wave has logged
   the event, for every number of containers. *)
THEOREM RoleWaitMeansLogged == Spec => []WaitMeansLogged
<1>1. IInv => WaitMeansLogged
  BY DEF IInv
<1> QED
  BY RoleInvariant, <1>1, PTL

(* finishRoleContainers and killRoleContainers hand out whole logs, and a
   finish succeeds only when every exit code is 0. *)
THEOREM RoleLogsAreWhole == Spec => []LogsAreWhole
<1>1. IInv => LogsAreWhole
  BY DEF IInv
<1> QED
  BY RoleInvariant, <1>1, PTL

(* Every variable keeps its type. *)
THEOREM RoleTypeOK == Spec => []TypeOK
<1>1. IInv => TypeOK
  BY DEF IInv
<1> QED
  BY RoleInvariant, <1>1, PTL
-----------------------------------------------------------------------------
(* RoleContainers implements RoleWave, for every number of replicas, every set
   of events, and docker commands that may or may not fail. *)

(* A wave is started in order: the containers from i on are still absent, and
   none is once the start has been answered. *)
StartInOrder ==
    /\ pc = "start" => \A w \in Workers : status[w] = "absent" <=> w >= i
    /\ pc \notin {"start", "threw"} => \A w \in Workers : status[w] # "absent"

(* What was captured has been logged. *)
CapturedIsLogged == \A w \in Workers : captured[w] \subseteq logged[w]

WaveInv == IInv /\ StartInOrder /\ CapturedIsLogged

(* Every step keeps the order of the start. *)
LEMMA NextStartInOrder ==
    TypeOK /\ IndexInRange /\ StartInOrder /\ [Next]_vars => StartInOrder'
<1> SUFFICES ASSUME TypeOK, IndexInRange, StartInOrder, [Next]_vars PROVE StartInOrder'
  OBVIOUS
<1> USE ReplicasAssumption DEF StartInOrder
<1>0. status \in [Workers -> {"absent", "running", "exited", "removed"}]
  BY DEF TypeOK
<1>1. ASSUME NEW w \in Workers, WorkerLogs(w) PROVE StartInOrder'
  BY <1>1 DEF WorkerLogs
<1>2. ASSUME NEW w \in Workers, WorkerExits(w) PROVE StartInOrder'
  <2>1. \A v \in Workers : (status'[v] = "absent") <=> (status[v] = "absent")
    BY <1>0, <1>2 DEF WorkerExits
  <2> QED
    BY <1>2, <2>1 DEF WorkerExits
<1>3. CASE StartOne
  <2>1. pc = "start" /\ i \in Workers /\ i' = i + 1
    BY <1>3 DEF StartOne, IndexInRange
  <2>2. \A v \in Workers : status'[v] = IF v = i THEN "running" ELSE status[v]
    BY <1>0, <1>3, <2>1 DEF StartOne
  <2>3. (i = Replicas /\ pc' = "idle") \/ (i < Replicas /\ pc' = "start")
    BY <1>3, <2>1 DEF StartOne, Return, Workers
  <2>4. ASSUME NEW v \in Workers PROVE (status'[v] = "absent") <=> v >= i + 1
    BY <2>1, <2>2 DEF Workers
  <2> QED
    BY <2>1, <2>3, <2>4 DEF Workers
<1>4. CASE CallKill
  BY <1>0, <1>4 DEF CallKill, SignalKill
<1>5. CASE FinishJudge
  BY <1>5 DEF FinishJudge, Throw, Remove, RemoveFails
<1>6. CASE KillRemove
  BY <1>6 DEF KillRemove, Throw, Remove, RemoveFails
<1>7. CASE status' = status /\ ((pc' = pc /\ i' = i) \/ (pc \notin {"start", "threw"} /\ pc' # "start"))
  BY <1>7 DEF StartInOrder
<1>8. CASE CommandFails \/ StartFails
  BY <1>8 DEF CommandFails, StartFails, Throw, Stopped
<1>9. CASE DeadlinePasses
  BY <1>9, <1>7 DEF DeadlinePasses, workerVars
<1>10. CASE CallWait \/ WaitHead \/ CallFinish \/ FinishHead \/ CallSnapshot
  BY <1>10, <1>7 DEF CallWait, WaitHead, CallFinish, FinishHead, CallSnapshot, Throw, workerVars
<1>11. CASE WaitLog \/ WaitState
  BY <1>11 DEF WaitLog, WaitState, NextWait, Return, Throw, workerVars
<1>12. CASE FinishState \/ FinishCapture \/ KillCapture \/ Snapshot
  BY <1>12 DEF FinishState, FinishCapture, KillCapture, Snapshot, CaptureOne, workerVars
<1>13. CASE UNCHANGED vars
  BY <1>13 DEF vars
<1> QED
  BY <1>1, <1>2, <1>3, <1>4, <1>5, <1>6, <1>8, <1>9, <1>10, <1>11, <1>12, <1>13
     DEF Next, Driver

(* Every step captures what was logged, and logs only grow. *)
LEMMA NextCapturedIsLogged ==
    TypeOK /\ IndexInRange /\ CapturedIsLogged /\ [Next]_vars => CapturedIsLogged'
<1> SUFFICES ASSUME TypeOK, IndexInRange, CapturedIsLogged, [Next]_vars PROVE CapturedIsLogged'
  OBVIOUS
<1> USE DEF CapturedIsLogged
<1>0. logged \in [Workers -> SUBSET Events] /\ captured \in [Workers -> SUBSET Events]
  BY DEF TypeOK
<1>1. ASSUME NEW w \in Workers, WorkerLogs(w) PROVE CapturedIsLogged'
  BY <1>0, <1>1 DEF WorkerLogs
<1>2. ASSUME NEW next, CaptureOne(next), i \in Workers, logged' = logged PROVE CapturedIsLogged'
  <2>1. PICK log \in Reads(i) : captured' = [captured EXCEPT ![i] = log]
    BY <1>2 DEF CaptureOne
  <2>2. log \subseteq logged[i]
    BY <2>1 DEF Reads
  <2> QED
    BY <1>0, <1>2, <2>1, <2>2
<1>3. CASE FinishCapture \/ KillCapture \/ Snapshot
  BY <1>2, <1>3 DEF FinishCapture, KillCapture, Snapshot, IndexInRange, workerVars
<1>4. CASE UNCHANGED <<logged, captured>>
  BY <1>4
<1>5. ASSUME NEW w \in Workers, WorkerExits(w) PROVE CapturedIsLogged'
  BY <1>4, <1>5 DEF WorkerExits
<1>6. CASE \/ DeadlinePasses \/ StartOne \/ StartFails \/ CommandFails
           \/ CallWait \/ WaitHead \/ WaitLog \/ WaitState
  BY <1>4, <1>6 DEF DeadlinePasses, StartOne, StartFails, CommandFails, CallWait, WaitHead, WaitLog,
                    WaitState, workerVars
<1>7. CASE CallFinish \/ FinishHead \/ FinishState \/ FinishJudge \/ CallKill \/ KillRemove
            \/ CallSnapshot
  BY <1>4, <1>7 DEF CallFinish, FinishHead, FinishState, FinishJudge, CallKill, KillRemove,
                    CallSnapshot, workerVars
<1>8. CASE UNCHANGED vars
  BY <1>4, <1>8 DEF vars
<1> QED
  BY <1>1, <1>3, <1>5, <1>6, <1>7, <1>8 DEF Next, Driver

(* The invariant that the refinement needs holds in every reachable state. *)
LEMMA WaveInvariant == Spec => []WaveInv
<1>1. Init => StartInOrder /\ CapturedIsLogged
  BY DEF Init, StartInOrder, CapturedIsLogged, Workers
<1>2. StartInOrder /\ CapturedIsLogged /\ IInv /\ [Next]_vars => StartInOrder' /\ CapturedIsLogged'
  BY NextStartInOrder, NextCapturedIsLogged DEF IInv
<1> QED
  BY RoleInvariant, <1>1, <1>2, PTL DEF Spec, WaveInv

(* The initial states are initial states of the wave. *)
LEMMA InitWave == Init => Wave!Init
  BY DEF Init, Wave!Init, Wave!NoLogs, Call, Handed

(* A step that leaves what the caller can see as it is stutters. *)
LEMMA Stutter ==
    ASSUME UNCHANGED <<status, exitCode, logged, event, outcome>>, Call' = Call,
           outcome \notin {"finished", "killed"} \/ captured' = captured
    PROVE  UNCHANGED Wave!vars
  BY DEF Wave!vars, Handed

(* The end of a wave: nothing runs, the logs are whole. *)
LEMMA EndOfWave ==
    ASSUME TypeOK, CapturedIsLogged, \A w \in Workers : Whole(w),
           \A w \in Workers : status[w] \notin {"absent", "running"},
           NEW how \in {"finished", "killed"}, Remove, pc' = "done", outcome' = how,
           UNCHANGED <<exitCode, logged, event, captured>>
    PROVE  Wave!End(how)
<1>1. Handed' = captured
  BY DEF Handed
<1>2. Call' = "done"
  BY DEF Call
<1>3. captured \in [Workers -> SUBSET Events]
  BY DEF TypeOK
<1> QED
  BY <1>1, <1>2, <1>3 DEF Wave!End, Remove, Whole, CapturedIsLogged

(* Every step of the driver, of a worker or of the clock is a step of the wave
   or leaves it as it is. *)
LEMMA NextWave == WaveInv /\ [Next]_vars => [Wave!Next]_Wave!vars
<1> SUFFICES ASSUME WaveInv, [Next]_vars PROVE Wave!Next \/ UNCHANGED Wave!vars
  BY DEF Wave!vars
<1>0. /\ TypeOK /\ IndexInRange /\ StartInOrder /\ CapturedIsLogged /\ SamplesAreFinal
      /\ FinishIsWhole /\ KillIsWhole /\ EndIsFinal /\ RoundIsSound
  BY DEF WaveInv, IInv
<1>e. pc # "done" => outcome \notin {"finished", "killed"}
  BY <1>0 DEF EndIsFinal
<1>c. pc # "done" /\ outcome' \notin {"finished", "killed"} => Handed' = Handed
  BY <1>e DEF Handed
<1>1. ASSUME NEW w \in Workers, WorkerLogs(w) PROVE Wave!Log(w)
  BY <1>1 DEF WorkerLogs, Wave!Log, Call, Handed
<1>2. ASSUME NEW w \in Workers, WorkerExits(w) PROVE Wave!Exit(w)
  BY <1>2 DEF WorkerExits, Wave!Exit, Call, Handed
<1>3. CASE StartOne
  <2>1. pc = "start" /\ i \in Workers /\ Call = "start"
    BY <1>0, <1>3 DEF StartOne, IndexInRange, Call
  <2>2. \A w \in Workers : (status[w] = "absent") <=> w >= i
    BY <1>0, <2>1 DEF StartInOrder
  <2>3. status[i] = "absent" /\ status' = [status EXCEPT ![i] = "running"]
    BY <1>3, <2>1, <2>2 DEF StartOne, Workers
  <2>4. outcome' \notin {"finished", "killed"} /\ UNCHANGED <<exitCode, logged, event>>
    BY <1>3, <1>e, <2>1 DEF StartOne, Return
  <2>5. CASE i = Replicas
    <3>1. \A v \in Workers \ {i} : status[v] # "absent"
      BY <2>1, <2>2, <2>5, ReplicasAssumption DEF Workers
    <3>2. Call' = "idle" /\ outcome' = "started"
      BY <1>3, <2>5 DEF StartOne, Return, Call
    <3> QED
      BY <1>c, <2>1, <2>3, <2>4, <3>1, <3>2 DEF Wave!Start, Wave!Next
  <2>6. CASE i # Replicas
    <3>1. i + 1 \in Workers \ {i} /\ status[i + 1] = "absent"
      BY <2>1, <2>2, <2>6, ReplicasAssumption DEF Workers
    <3>2. Call' = Call /\ outcome' = outcome
      BY <1>3, <2>6 DEF StartOne, Call
    <3> QED
      BY <1>c, <2>1, <2>3, <2>4, <3>1, <3>2 DEF Wave!Start, Wave!Next
  <2> QED
    BY <2>5, <2>6
<1>4. ASSUME pc \notin {"idle", "threw", "done"}, 
             Throw("command") \/ (pc \in {"waitHead", "finishJudge"} /\ Throw("timeout")),
             UNCHANGED <<status, exitCode, logged, event, captured>>
      PROVE  Wave!Throw
  BY <1>0, <1>4, <1>c DEF Throw, Wave!Throw, Wave!Pending, Call, TypeOK, Loop, Stopped
<1>5. CASE CommandFails
  BY <1>4, <1>5 DEF CommandFails, Stopped, workerVars, Wave!Next
<1>s. CASE StartFails
  <2>1. pc = "start" /\ i \in Workers /\ Throw("command")
        /\ UNCHANGED <<exitCode, logged, event, captured>>
    BY <1>0, <1>s DEF StartFails, IndexInRange
  <2>2. CASE status' = status
    BY <1>4, <2>1, <2>2 DEF Wave!Next
  <2>3. CASE status' = [status EXCEPT ![i] = "running"]
    <3>1. status[i] = "absent"
      BY <1>0, <2>1 DEF StartInOrder, Workers
    <3>2. Call = "start" /\ Call' = "threw" /\ outcome' = "command" /\ Handed' = Handed
      BY <1>c, <2>1 DEF Throw, Call
    <3>3. Wave!ThrowStart(i)
      BY <2>1, <2>3, <3>1, <3>2 DEF Wave!ThrowStart
    <3> QED
      BY <2>1, <3>3 DEF Wave!Next
  <2> QED
    BY <1>s, <2>2, <2>3 DEF StartFails
<1>r. ASSUME RemoveFails, Call \in {"finish", "kill"}, pc # "done",
             UNCHANGED <<exitCode, logged, event, captured>>,
             Call = "finish" => \A w \in Workers : status[w] \notin {"absent", "running"}
                                                  /\ exitCode[w] = 0
      PROVE  Wave!Next
  <2>1. Call' = "threw" /\ outcome' = "command" /\ Handed' = Handed
    BY <1>c, <1>r DEF RemoveFails, Throw, Call
  <2> QED
    BY <1>r, <2>1 DEF RemoveFails, Wave!ThrowEnd, Wave!Next
<1>6. CASE DeadlinePasses
  BY <1>6, Stutter DEF DeadlinePasses, workerVars, Call
<1>7. CASE CallWait
  BY <1>7 DEF CallWait, workerVars, Wave!Ask, Wave!Next, Call, Handed
<1>8. CASE CallFinish
  BY <1>8 DEF CallFinish, workerVars, Wave!Ask, Wave!Next, Call, Handed
<1>9. CASE CallSnapshot
  BY <1>9 DEF CallSnapshot, workerVars, Wave!Ask, Wave!Next, Call, Handed
<1>10. CASE WaitHead
  <2>1. CASE expired /\ Throw("timeout")
    BY <1>4, <1>10, <2>1 DEF WaitHead, workerVars, Wave!Next
  <2>2. CASE pc' = "waitLog" /\ outcome' = outcome
    BY <1>10, <2>2, Stutter DEF WaitHead, workerVars, Call
  <2> QED
    BY <1>10, <2>1, <2>2 DEF WaitHead
<1>11. ASSUME pc \in {"waitLog", "waitState"}, i \in Workers, NEW still,
              NextWait(still), \A w \in 1..i : w \in still \/ event \in logged[w],
              UNCHANGED <<status, exitCode, logged, event, captured>>
       PROVE  Wave!Next \/ UNCHANGED Wave!vars
  <2>1. CASE i < Replicas
    BY <1>11, <2>1, Stutter DEF NextWait, Call
  <2>2. CASE ~(i < Replicas) /\ still = {}
    <3>1. \A w \in Workers : event \in logged[w]
      BY <1>11, <2>2, ReplicasAssumption DEF Workers
    <3>2. Call = "wait" /\ Call' = "idle" /\ outcome' = "logged"
      BY <1>11, <2>2 DEF NextWait, Return, Call
    <3> QED
      BY <1>11, <1>c, <3>1, <3>2 DEF Wave!AnswerWait, Wave!Next
  <2>3. CASE ~(i < Replicas) /\ still # {}
    BY <1>11, <2>3, Stutter DEF NextWait, Call
  <2> QED
    BY <2>1, <2>2, <2>3
<1>12. CASE WaitLog
  <2>1. i \in Workers /\ pc = "waitLog" /\ UNCHANGED <<status, exitCode, logged, event, captured>>
    BY <1>0, <1>12 DEF WaitLog, IndexInRange, workerVars
  <2>2. PICK log \in Reads(i) :
          \/ event \in log /\ NextWait(missing)
          \/ event \notin log /\ pc' = "waitState" /\ UNCHANGED <<i, outcome>>
    BY <1>12 DEF WaitLog
  <2>3. log \subseteq logged[i]
    BY <2>2 DEF Reads
  <2>4. CASE event \in log /\ NextWait(missing)
    <3>1. \A w \in 1..i : w \in missing \/ event \in logged[w]
      BY <1>0, <2>1, <2>3, <2>4 DEF RoundIsSound, Workers
    <3> QED
      BY <1>11, <2>1, <2>4, <3>1
  <2>5. CASE pc' = "waitState" /\ UNCHANGED <<i, outcome>>
    BY <2>1, <2>5, Stutter DEF Call
  <2> QED
    BY <2>2, <2>4, <2>5
<1>13. CASE WaitState
  <2>1. i \in Workers /\ pc = "waitState" /\ UNCHANGED <<status, exitCode, logged, event, captured>>
    BY <1>0, <1>13 DEF WaitState, IndexInRange, workerVars
  <2>2. CASE status[i] = "exited"
    <3>1. Call = "wait" /\ Call' = "threw" /\ outcome' = "exited-before-event"
      BY <1>13, <2>2 DEF WaitState, Throw, Call
    <3> QED
      BY <1>c, <2>1, <2>2, <3>1 DEF Wave!Throw, Wave!Pending, Wave!Next
  <2>3. CASE status[i] # "exited"
    <3>1. NextWait(missing \cup {i})
      BY <1>13, <2>3 DEF WaitState
    <3>2. \A w \in 1..i : w \in missing \cup {i} \/ event \in logged[w]
      BY <1>0, <2>1 DEF RoundIsSound, Workers
    <3> QED
      BY <1>11, <2>1, <3>1, <3>2
  <2> QED
    BY <2>2, <2>3
<1>14. CASE FinishHead \/ FinishState
  BY <1>14, Stutter DEF FinishHead, FinishState, workerVars, Call
<1>15. CASE FinishCapture
  BY <1>15, <1>e, Stutter DEF FinishCapture, CaptureOne, workerVars, Call
<1>16. CASE FinishJudge
  <2>1. pc = "finishJudge" /\ UNCHANGED <<exitCode, logged, event, captured>> /\ Call = "finish"
    BY <1>16 DEF FinishJudge, Call
  <2>2. CASE Throw("timeout") /\ status' = status
    BY <1>4, <2>1, <2>2 DEF Wave!Next
  <2>3. CASE /\ \A w \in Workers : states[w] = "exited"
             /\ \E w \in Workers : codes[w] # 0
             /\ Throw("failed") /\ status' = status
    <3>1. /\ \E w \in Workers : exitCode[w] # 0
          /\ \A w \in Workers : status[w] # "running"
      BY <1>0, <2>3 DEF SamplesAreFinal
    <3>2. Call' = "threw" /\ outcome' = "failed"
      BY <2>3 DEF Throw, Call
    <3> QED
      BY <1>c, <2>1, <2>3, <3>1, <3>2 DEF Wave!Throw, Wave!Pending, Wave!Next
  <2>4. CASE /\ \A w \in Workers : states[w] = "exited" /\ codes[w] = 0
             /\ Remove /\ pc' = "done" /\ outcome' = "finished"
    <3>1. /\ \A w \in Workers : exitCode[w] = 0
          /\ \A w \in Workers : status[w] \notin {"absent", "running"}
          /\ \A w \in Workers : Whole(w)
      BY <1>0, <2>1, <2>4 DEF SamplesAreFinal, FinishIsWhole
    <3>2. Wave!End("finished")
      BY <1>0, <2>1, <2>4, <3>1, EndOfWave
    <3> QED
      BY <2>1, <3>1, <3>2 DEF Wave!AnswerFinish, Wave!Next
  <2>5. CASE (\A w \in Workers : states[w] = "exited" /\ codes[w] = 0) /\ RemoveFails
    <3>1. \A w \in Workers : status[w] \notin {"absent", "running"} /\ exitCode[w] = 0
      BY <1>0, <2>5 DEF SamplesAreFinal
    <3> QED
      BY <1>r, <2>1, <2>5, <3>1
  <2> QED
    BY <1>16, <2>2, <2>3, <2>4, <2>5 DEF FinishJudge
<1>17. CASE CallKill
  <2>1. PICK spared \in SUBSET Flaky :
          /\ status' = [w \in Workers |-> IF w \in Workers \ spared /\ status[w] = "running"
                                          THEN "exited" ELSE status[w]]
          /\ exitCode' = [w \in Workers |-> IF w \in Workers \ spared /\ status[w] = "running"
                                            THEN 137 ELSE exitCode[w]]
    BY <1>17 DEF CallKill, SignalKill
  <2>2. Workers \ spared \in SUBSET Workers /\ Workers \ Flaky \subseteq Workers \ spared
    BY <2>1
  <2>3. Call = "idle" /\ Call' = "kill" /\ UNCHANGED <<logged, event, outcome, captured>>
    BY <1>17 DEF CallKill, Call
  <2>4. Handed' = Handed
    BY <2>3 DEF Handed
  <2> QED
    BY <2>1, <2>2, <2>3, <2>4 DEF Wave!Kill, Wave!Next
<1>18. CASE KillCapture
  BY <1>18, <1>e, Stutter DEF KillCapture, CaptureOne, workerVars, Call
<1>19. CASE KillRemove
  <2>1. /\ pc = "killRemove" /\ Call = "kill"
        /\ UNCHANGED <<exitCode, logged, event, captured>>
    BY <1>19 DEF KillRemove, Call
  <2>2. CASE RemoveFails
    BY <1>r, <2>1, <2>2
  <2>3. CASE ~RemoveFails
    <3>1. Remove /\ pc' = "done" /\ outcome' = "killed"
      BY <1>19, <2>3 DEF KillRemove
    <3>2. /\ \A w \in Workers : status[w] \notin {"absent", "running"}
          /\ \A w \in Workers : Whole(w)
      BY <1>0, <1>19, <2>1, <2>3 DEF KillRemove, KillIsWhole, StartInOrder
    <3>3. Wave!End("killed")
      BY <1>0, <2>1, <3>1, <3>2, EndOfWave
    <3> QED
      BY <2>1, <3>3 DEF Wave!AnswerKill, Wave!Next
  <2> QED
    BY <2>2, <2>3
<1>20. CASE Snapshot
  <2>1. pc = "snapshot" /\ UNCHANGED <<status, exitCode, logged, event, outcome>>
    BY <1>20 DEF Snapshot, workerVars
  <2>2. CASE pc' = pc
    BY <1>e, <2>1, <2>2, Stutter DEF Call
  <2>3. CASE pc' = "idle"
    BY <1>c, <1>e, <2>1, <2>3 DEF Call, Wave!AnswerSnapshot, Wave!Next
  <2> QED
    BY <1>20, <2>2, <2>3 DEF Snapshot, CaptureOne
<1>21. CASE UNCHANGED vars
  BY <1>21, Stutter DEF vars, Call
<1> QED
  BY <1>1, <1>2, <1>3, <1>5, <1>6, <1>7, <1>8, <1>9, <1>10, <1>12, <1>13, <1>14, <1>15, <1>16,
     <1>17, <1>18, <1>19, <1>20, <1>21, <1>s DEF Next, Driver, Wave!Next

(* The role-container operations implement the wave for every number of
   containers: each call is answered as if all of them had been looked at in
   one instant. *)
THEOREM RoleImplementsWave == Spec => ImplementsWave
<1>1. WaveInv /\ [Next]_vars => [Wave!Next]_Wave!vars
  BY NextWave
<1> QED
  BY WaveInvariant, InitWave, <1>1, PTL DEF Spec, ImplementsWave, Wave!Spec
=============================================================================
