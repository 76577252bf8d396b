--------------------------- MODULE RoleContainers ---------------------------
(***************************************************************************)
(* The role-container operations of ComposeStack (orchestration/compose.ts)*)
(* that every live scenario is built from: start a wave of client          *)
(* containers, wait until each has logged an event, signal them, and       *)
(* finish or kill them.  The driver learns about a container only through  *)
(* separate docker commands (logs, inspect), and the containers run on     *)
(* between any two of them: each such command is an action of its own.     *)
(*                                                                         *)
(* The worker process inside a container is external: it logs events and   *)
(* exits when it likes, or never does.  A log is the set of events it      *)
(* holds; the operations only ask whether an event is there.               *)
(***************************************************************************)
EXTENDS Naturals

CONSTANTS
    Replicas,     \* containers in the wave
    Events,       \* events that a worker may log
    Flaky         \* containers whose docker logs and docker kill may fail, which
                  \* the code ignores

ASSUME ReplicasAssumption == Replicas \in Nat \ {0}

Workers == 1..Replicas
ASSUME FlakyAssumption == Flaky \subseteq Workers

ExitCodes == {0, 1, 137}

VARIABLES
    \* the containers
    status,     \* "absent", "running", "exited", "removed"
    exitCode,   \* valid once exited
    logged,     \* events the worker has written to its log
    \* the driver
    pc,         \* where the driver is in the current operation
    i,          \* the container that the current loop is at
    event,      \* the event waitForRoleEvent was called with
    missing,    \* containers whose log lacked the event in this round
    states,     \* sampled states: "unknown", "running", "exited"
    codes,      \* sampled exit codes
    captured,   \* logs returned to the caller
    expired,    \* the deadline of the current operation has passed
    outcome     \* how the last operation ended

vars == <<status, exitCode, logged, pc, i, event, missing, states, codes,
          captured, expired, outcome>>
workerVars == <<status, exitCode, logged>>

Loop == {"waitHead", "waitLog", "waitState", "finishHead", "finishState"}
Stopped == {"threw", "done"}

Init ==
    /\ status = [w \in Workers |-> "absent"]
    /\ exitCode = [w \in Workers |-> 0]
    /\ logged = [w \in Workers |-> {}]
    /\ pc = "start"
    /\ i = 1
    /\ event \in Events
    /\ missing = {}
    /\ states = [w \in Workers |-> "unknown"]
    /\ codes = [w \in Workers |-> 0]
    /\ captured = [w \in Workers |-> {}]
    /\ expired = FALSE
    /\ outcome = "none"
-----------------------------------------------------------------------------
(* External: the worker processes. *)
WorkerLogs(w) ==
    /\ status[w] = "running"
    /\ \E e \in Events \ logged[w] : logged' = [logged EXCEPT ![w] = @ \cup {e}]
    /\ UNCHANGED <<status, exitCode, pc, i, event, missing, states, codes,
                   captured, expired, outcome>>

WorkerExits(w) ==
    /\ status[w] = "running"
    /\ status' = [status EXCEPT ![w] = "exited"]
    /\ \E code \in {0, 1} : exitCode' = [exitCode EXCEPT ![w] = code]
    /\ UNCHANGED <<logged, pc, i, event, missing, states, codes, captured,
                   expired, outcome>>

(* The clock passes the deadline of the polling loop. *)
DeadlinePasses ==
    /\ pc \in Loop
    /\ ~expired
    /\ expired' = TRUE
    /\ UNCHANGED <<workerVars, pc, i, event, missing, states, codes, captured, outcome>>
-----------------------------------------------------------------------------
Throw(how) ==
    /\ pc' = "threw"
    /\ outcome' = how

Return(how) ==
    /\ pc' = "idle"
    /\ outcome' = how

(* A docker command that only looks at containers, or an artifact write next
   to it, fails. *)
CommandFails ==
    /\ pc \notin {"start", "idle", "finishJudge", "killRemove"} \cup Stopped
    /\ Throw("command")
    /\ UNCHANGED <<workerVars, i, event, missing, states, codes, captured, expired>>

(* startRoleContainers: docker compose run for one container after another.
   A command that fails abandons the wave, with the earlier containers up. *)
StartOne ==
    /\ pc = "start"
    /\ status' = [status EXCEPT ![i] = "running"]
    /\ i' = i + 1
    /\ IF i = Replicas THEN Return("started") ELSE UNCHANGED <<pc, outcome>>
    /\ UNCHANGED <<exitCode, logged, event, missing, states, codes, captured, expired>>

(* docker compose run fails, before or after it has started its container;
   or its container runs and the id in its output, or the artifact event
   behind the last one, is what fails. *)
StartFails ==
    /\ pc = "start"
    /\ status' \in {status, [status EXCEPT ![i] = "running"]}
    /\ Throw("command")
    /\ UNCHANGED <<exitCode, logged, i, event, missing, states, codes, captured, expired>>

(* What containerLogs may return: a docker logs that fails half way is taken
   for a shorter log. *)
Reads(w) == IF w \in Flaky THEN SUBSET logged[w] ELSE {logged[w]}

(* waitForRoleEvent is called. *)
CallWait ==
    /\ pc = "idle"
    /\ pc' = "waitHead"
    /\ event' \in Events
    /\ missing' = Workers
    /\ expired' = FALSE
    /\ UNCHANGED <<workerVars, i, states, codes, captured, outcome>>

(* The head of its loop: the deadline ends the wait with a time-out. *)
WaitHead ==
    /\ pc = "waitHead"
    /\ \/ /\ ~expired
          /\ pc' = "waitLog"
          /\ i' = 1
          /\ missing' = {}
          /\ UNCHANGED outcome
       \/ /\ expired
          /\ Throw("timeout")
          /\ UNCHANGED <<i, missing>>
    /\ UNCHANGED <<workerVars, event, states, codes, captured, expired>>

(* After container i: the next one, or the end of the round. *)
NextWait(stillMissing) ==
    IF i < Replicas
    THEN /\ i' = i + 1
         /\ pc' = "waitLog"
         /\ UNCHANGED outcome
    ELSE /\ IF stillMissing = {}
            THEN Return("logged")
            ELSE pc' = "waitHead" /\ UNCHANGED outcome
         /\ UNCHANGED i

(* docker logs: is the event there? *)
WaitLog ==
    /\ pc = "waitLog"
    /\ \E log \in Reads(i) :
          \/ event \in log /\ NextWait(missing)
          \/ event \notin log /\ pc' = "waitState" /\ UNCHANGED <<i, outcome>>
    /\ UNCHANGED <<workerVars, event, missing, states, codes, captured, expired>>

(* docker inspect, a command later: a container that has exited by now is
   blamed for not having logged the event. *)
WaitState ==
    /\ pc = "waitState"
    /\ IF status[i] = "exited"
       THEN /\ Throw("exited-before-event")
            /\ UNCHANGED <<i, missing>>
       ELSE /\ missing' = missing \cup {i}
            /\ NextWait(missing \cup {i})
    /\ UNCHANGED <<workerVars, event, states, codes, captured, expired>>
-----------------------------------------------------------------------------
(* finishRoleContainers is called. *)
CallFinish ==
    /\ pc = "idle"
    /\ pc' = "finishHead"
    /\ states' = [w \in Workers |-> "unknown"]
    /\ expired' = FALSE
    /\ UNCHANGED <<workerVars, i, event, missing, codes, captured, outcome>>

(* Mutant: the loop has no deadline. *)
FinishHeadForever ==
    /\ pc = "finishHead"
    /\ i' = 1
    /\ pc' = "finishState"
    /\ states' = [w \in Workers |-> "unknown"]
    /\ UNCHANGED <<workerVars, event, missing, codes, captured, expired, outcome>>

(* The head of its loop.  Past the deadline the states of the last round,
   if any, are what is judged. *)
FinishHead ==
    /\ pc = "finishHead"
    /\ i' = 1
    /\ \/ /\ ~expired
          /\ pc' = "finishState"
          /\ states' = [w \in Workers |-> "unknown"]
       \/ /\ expired
          /\ pc' = "finishCapture"
          /\ UNCHANGED states
    /\ UNCHANGED <<workerVars, event, missing, codes, captured, expired, outcome>>

(* docker inspect of container i; after the last one, leave the loop when
   all have exited. *)
FinishState ==
    /\ pc = "finishState"
    /\ states' = [states EXCEPT ![i] = status[i]]
    /\ codes' = [codes EXCEPT ![i] = exitCode[i]]
    /\ IF i < Replicas
       THEN i' = i + 1 /\ UNCHANGED pc
       ELSE IF \A w \in Workers : states'[w] = "exited"
       THEN i' = 1 /\ pc' = "finishCapture"
       ELSE UNCHANGED i /\ pc' = "finishHead"
    /\ UNCHANGED <<workerVars, event, missing, captured, expired, outcome>>

(* captureRoleLogs, one docker logs after another. *)
CaptureOne(next) ==
    /\ \E log \in Reads(i) : captured' = [captured EXCEPT ![i] = log]
    /\ IF i < Replicas
       THEN i' = i + 1 /\ UNCHANGED pc
       ELSE UNCHANGED i /\ pc' = next

FinishCapture ==
    /\ pc = "finishCapture"
    /\ CaptureOne("finishJudge")
    /\ UNCHANGED <<workerVars, event, missing, states, codes, expired, outcome>>

Remove == status' = [w \in Workers |-> "removed"]

(* A docker rm of several ids goes on after one that fails, and it fails for
   one that is running: it has removed some of the exited containers.  They
   are all gone when the artifact event behind the docker rm is what fails. *)
RemoveFails ==
    /\ \E gone \in SUBSET {w \in Workers : status[w] = "exited"} :
          status' = [w \in Workers |-> IF w \in gone THEN "removed" ELSE status[w]]
    /\ Throw("command")

(* Containers still running are a time-out, exit codes a failure; only then
   are the containers removed and their logs returned. *)
FinishJudge ==
    /\ pc = "finishJudge"
    /\ \/ /\ \E w \in Workers : states[w] # "exited"
          /\ Throw("timeout")
          /\ UNCHANGED status
       \/ /\ \A w \in Workers : states[w] = "exited"
          /\ \E w \in Workers : codes[w] # 0
          /\ Throw("failed")
          /\ UNCHANGED status
       \/ /\ \A w \in Workers : states[w] = "exited" /\ codes[w] = 0
          /\ \/ Remove /\ pc' = "done" /\ outcome' = "finished"
             \/ RemoveFails
    /\ UNCHANGED <<exitCode, logged, i, event, missing, states, codes, captured, expired>>
-----------------------------------------------------------------------------
(* signalRoleContainers with SIGKILL: docker kill returns once the containers
   are dead, but its failure is ignored.  (What the other signals do to a
   worker is up to the worker.) *)
SignalKill ==
    \E spared \in SUBSET Flaky : LET hit == Workers \ spared IN
        /\ status' = [w \in Workers |-> IF w \in hit /\ status[w] = "running"
                                        THEN "exited" ELSE status[w]]
        /\ exitCode' = [w \in Workers |-> IF w \in hit /\ status[w] = "running"
                                          THEN 137 ELSE exitCode[w]]

(* killRoleContainers: SIGKILL, then capture the logs, then remove. *)
CallKill ==
    /\ pc = "idle"
    /\ SignalKill
    /\ pc' = "killCapture"
    /\ i' = 1
    /\ UNCHANGED <<logged, event, missing, states, codes, captured, expired, outcome>>

KillCapture ==
    /\ pc = "killCapture"
    /\ CaptureOne("killRemove")
    /\ UNCHANGED <<workerVars, event, missing, states, codes, expired, outcome>>

(* Mutant: docker rm -f. *)
KillRemoveForced ==
    /\ pc = "killRemove"
    /\ Remove
    /\ pc' = "done"
    /\ outcome' = "killed"
    /\ UNCHANGED <<exitCode, logged, i, event, missing, states, codes, captured, expired>>

(* docker rm refuses a container that is still running, and removes the
   others: a kill that did not reach every container throws here. *)
KillRemove ==
    /\ pc = "killRemove"
    /\ \/ /\ \A w \in Workers : status[w] # "running"
          /\ Remove
          /\ pc' = "done"
          /\ outcome' = "killed"
       \/ RemoveFails
    /\ UNCHANGED <<exitCode, logged, i, event, missing, states, codes, captured, expired>>

(* roleLogs: a snapshot of the logs of containers that may be running. *)
CallSnapshot ==
    /\ pc = "idle"
    /\ pc' = "snapshot"
    /\ i' = 1
    /\ UNCHANGED <<workerVars, event, missing, states, codes, captured, expired, outcome>>

Snapshot ==
    /\ pc = "snapshot"
    /\ CaptureOne("idle")
    /\ UNCHANGED <<workerVars, event, missing, states, codes, expired, outcome>>

Driver ==
    \/ StartOne \/ StartFails \/ CommandFails
    \/ CallWait \/ WaitHead \/ WaitLog \/ WaitState
    \/ CallFinish \/ FinishHead \/ FinishState \/ FinishCapture \/ FinishJudge
    \/ CallKill \/ KillCapture \/ KillRemove
    \/ CallSnapshot \/ Snapshot

Next ==
    \/ Driver
    \/ DeadlinePasses
    \/ \E w \in Workers : WorkerLogs(w) \/ WorkerExits(w)

Spec == Init /\ [][Next]_vars

(* The driver's event loop runs and its clock advances; nothing is assumed
   of the workers, which may hang. *)
FairSpec ==
    /\ Spec
    /\ WF_vars(Driver /\ pc \notin {"idle", "start"})
    /\ WF_vars(DeadlinePasses)
-----------------------------------------------------------------------------
(* Every variable has its type. *)
TypeOK ==
    /\ status \in [Workers -> {"absent", "running", "exited", "removed"}]
    /\ exitCode \in [Workers -> ExitCodes]
    /\ logged \in [Workers -> SUBSET Events]
    /\ pc \in Loop \cup Stopped \cup
              {"start", "idle", "finishCapture", "finishJudge", "killCapture", "killRemove",
               "snapshot"}
    /\ i \in 1..(Replicas + 1)
    /\ event \in Events
    /\ missing \in SUBSET Workers
    /\ states \in [Workers -> {"unknown", "absent", "running", "exited", "removed"}]
    /\ codes \in [Workers -> ExitCodes]
    /\ captured \in [Workers -> SUBSET Events]
    /\ expired \in BOOLEAN
    /\ outcome \in {"none", "started", "command", "logged", "timeout",
                    "exited-before-event", "finished", "failed", "killed"}

(* waitForRoleEvent returns only when every container has logged the event,
   although it looks at them one at a time. *)
WaitMeansLogged ==
    pc = "idle" /\ outcome = "logged" => \A w \in Workers : event \in logged[w]

(* finishRoleContainers succeeds only for containers that all ended with
   exit code 0, and the logs it hands to the ledgers are whole: nothing was
   written after they were read.  The same holds for the logs of a kill.
   A container whose docker logs or docker kill fails is excepted: the code
   ignores their exit codes. *)
LogsAreWhole ==
    /\ outcome = "finished" => \A w \in Workers : exitCode[w] = 0
    /\ outcome \in {"finished", "killed"} =>
         \A w \in Workers \ Flaky : captured[w] = logged[w]

(* Every operation returns to its caller, also when a worker hangs. *)
CallsReturn ==
    (pc \notin {"idle", "start"} \cup Stopped) ~> (pc \in {"idle"} \cup Stopped)

(* The driver as its caller sees it: the pending call, and the logs that a
   finish or a kill has handed out. *)
Call ==
    IF pc \in {"waitHead", "waitLog", "waitState"} THEN "wait"
    ELSE IF pc \in {"finishHead", "finishState", "finishCapture", "finishJudge"} THEN "finish"
    ELSE IF pc \in {"killCapture", "killRemove"} THEN "kill"
    ELSE pc

Handed ==
    IF outcome \in {"finished", "killed"} THEN captured ELSE [w \in Workers |-> {}]

Wave == INSTANCE RoleWave WITH call <- Call, handed <- Handed

(* To its caller every operation looks as if it saw all the containers in one
   instant: a wait is answered when the whole wave has the event, a wave ends
   when nothing runs and with whole logs, an exit or an exit code is blamed
   only when it is there.  RoleWave states it; the loops of docker commands,
   with the containers running on between them, implement it. *)
ImplementsWave == Wave!Spec
=============================================================================
