------------------------------ MODULE RoleWave ------------------------------
(***************************************************************************)
(* What the role-container operations of ComposeStack promise a scenario:  *)
(* each call is answered in one step, as if all the containers of the wave *)
(* were looked at in the same instant.  RoleContainers, which asks docker  *)
(* about one container at a time while the others run on, implements it.   *)
(***************************************************************************)
CONSTANTS
    Workers,    \* the containers of the wave
    Events,     \* events that a worker may log
    Flaky       \* containers whose docker logs and docker kill may fail unnoticed

VARIABLES
    status,     \* "absent", "running", "exited", "removed"
    exitCode,   \* valid once exited
    logged,     \* events the worker has written to its log
    call,       \* the call that is pending, "idle", or how the wave ended
    event,      \* the event the last wait is for
    outcome,    \* the last answer
    handed      \* the logs handed to the caller when the wave ends

vars == <<status, exitCode, logged, call, event, outcome, handed>>

NoLogs == [w \in Workers |-> {}]
Pending == {"start", "wait", "finish", "kill", "snapshot"}

Init ==
    /\ status = [w \in Workers |-> "absent"]
    /\ exitCode = [w \in Workers |-> 0]
    /\ logged = NoLogs
    /\ call = "start"
    /\ event \in Events
    /\ outcome = "none"
    /\ handed = NoLogs
-----------------------------------------------------------------------------
(* A running worker logs an event, or ends. *)
Log(w) ==
    /\ status[w] = "running"
    /\ \E e \in Events : logged' = [logged EXCEPT ![w] = @ \cup {e}]
    /\ UNCHANGED <<status, exitCode, call, event, outcome, handed>>

Exit(w) ==
    /\ status[w] = "running"
    /\ status' = [status EXCEPT ![w] = "exited"]
    /\ \E code \in {0, 1} : exitCode' = [exitCode EXCEPT ![w] = code]
    /\ UNCHANGED <<logged, call, event, outcome, handed>>

(* A start adds containers; it is answered with the last of them. *)
Start(w) ==
    /\ call = "start"
    /\ status[w] = "absent"
    /\ status' = [status EXCEPT ![w] = "running"]
    /\ IF \A v \in Workers \ {w} : status[v] # "absent"
       THEN call' = "idle" /\ outcome' = "started"
       ELSE UNCHANGED <<call, outcome>>
    /\ UNCHANGED <<exitCode, logged, event, handed>>

(* The caller waits for an event, asks for a finish or takes a snapshot. *)
Ask ==
    /\ call = "idle"
    /\ \/ call' = "wait" /\ event' \in Events
       \/ call' \in {"finish", "snapshot"} /\ UNCHANGED event
    /\ UNCHANGED <<status, exitCode, logged, outcome, handed>>

(* The caller has the wave killed: every container that docker kill reaches
   is dead before anything else is done. *)
Kill ==
    /\ call = "idle"
    /\ call' = "kill"
    /\ \E hit \in SUBSET Workers :
          /\ Workers \ Flaky \subseteq hit
          /\ status' = [w \in Workers |-> IF w \in hit /\ status[w] = "running"
                                          THEN "exited" ELSE status[w]]
          /\ exitCode' = [w \in Workers |-> IF w \in hit /\ status[w] = "running"
                                            THEN 137 ELSE exitCode[w]]
    /\ UNCHANGED <<logged, event, outcome, handed>>

(* The wave has the event. *)
AnswerWait ==
    /\ call = "wait"
    /\ \A w \in Workers : event \in logged[w]
    /\ call' = "idle"
    /\ outcome' = "logged"
    /\ UNCHANGED <<status, exitCode, logged, event, handed>>

AnswerSnapshot ==
    /\ call = "snapshot"
    /\ call' = "idle"
    /\ UNCHANGED <<status, exitCode, logged, event, outcome, handed>>

(* The wave is over: nothing runs, the containers go and their logs are
   handed out whole, save what a failed docker logs hides. *)
End(how) ==
    /\ \A w \in Workers : status[w] \notin {"absent", "running"}
    /\ status' = [w \in Workers |-> "removed"]
    /\ handed' \in [Workers -> SUBSET Events]
    /\ \A w \in Workers : /\ handed'[w] \subseteq logged[w]
                          /\ w \notin Flaky => handed'[w] = logged[w]
    /\ call' = "done"
    /\ outcome' = how
    /\ UNCHANGED <<exitCode, logged, event>>

AnswerFinish ==
    /\ call = "finish"
    /\ \A w \in Workers : exitCode[w] = 0
    /\ End("finished")

AnswerKill ==
    /\ call = "kill"
    /\ End("killed")

(* A call throws and leaves the containers as they are: all a wait or a
   snapshot can do.  It blames an exit only when a container has exited, and
   exit codes only when there is a bad one and nothing runs. *)
Throw ==
    /\ call \in Pending
    /\ \/ outcome' = "command"
       \/ call \in {"wait", "finish"} /\ outcome' = "timeout"
       \/ /\ call = "wait" /\ outcome' = "exited-before-event"
          /\ \E w \in Workers : status[w] = "exited"
       \/ /\ call = "finish" /\ outcome' = "failed"
          /\ \E w \in Workers : exitCode[w] # 0
          /\ \A w \in Workers : status[w] # "running"
    /\ call' = "threw"
    /\ UNCHANGED <<status, exitCode, logged, event, handed>>

(* A start throws, maybe with one more container up. *)
ThrowStart(w) ==
    /\ call = "start"
    /\ status[w] = "absent"
    /\ status' = [status EXCEPT ![w] = "running"]
    /\ call' = "threw"
    /\ outcome' = "command"
    /\ UNCHANGED <<exitCode, logged, event, handed>>

(* A wave that could not be removed: some of its exited containers are gone,
   with their logs not handed out; one that runs is left, and a finish has
   taken none away unless the whole wave has ended with exit code 0. *)
ThrowEnd ==
    /\ \/ call = "kill"
       \/ /\ call = "finish"
          /\ \A w \in Workers : status[w] \notin {"absent", "running"} /\ exitCode[w] = 0
    /\ \E gone \in SUBSET {w \in Workers : status[w] = "exited"} :
          status' = [w \in Workers |-> IF w \in gone THEN "removed" ELSE status[w]]
    /\ call' = "threw"
    /\ outcome' = "command"
    /\ UNCHANGED <<exitCode, logged, event, handed>>

Next ==
    \/ \E w \in Workers : Log(w) \/ Exit(w) \/ Start(w) \/ ThrowStart(w)
    \/ Ask \/ Kill
    \/ AnswerWait \/ AnswerSnapshot \/ AnswerFinish \/ AnswerKill
    \/ Throw \/ ThrowEnd

Spec == Init /\ [][Next]_vars
=============================================================================
