----------------------------- MODULE RpcStreams -----------------------------
(***************************************************************************)
(* The rpc-pressure and rpc-stream-hose scenarios: the drivers             *)
(* (orchestration/live-scenarios.ts, orchestration/rpc-stream-hose.ts),    *)
(* the RPC workers and callers (workloads/live.ts), and the wait for a     *)
(* quiescent broker (compose.ts, live-observability.ts).                   *)
(*                                                                         *)
(* rpc-stream-hose is a sequence of phases: a fleet, then a cancelled      *)
(* caller, a killed worker and a killed broker, each followed by a probe,  *)
(* which is a fleet of one.  A caller makes one call here: two calls of    *)
(* one caller differ in their identity, as those of two callers do.        *)
(*                                                                         *)
(* The broker is external.  It handles what a worker sends in order, and   *)
(* notices the end of a session later, behind everything that the session  *)
(* has sent.  Once in a run it may misbehave, silently: drop or repeat a   *)
(* frame, exchange those of two calls, or have a second worker handle a    *)
(* call.  The time-out of a call is long: it expires when nothing more can *)
(* come.  Deadlines of the driver end a run with the outcome "timeout".    *)
(***************************************************************************)
EXTENDS Naturals, Sequences, FiniteSets

CONSTANTS
    Replicas,      \* config.clientReplicas: callers, and workers, of a fleet
    Frames,        \* config.rpcStreamFrames
    Scenarios,     \* a subset of {"rpc-pressure", "rpc-stream-hose"}
    MayMisbehave   \* the broker may misbehave

ASSUME ReplicasAssumption == Replicas \in Nat \ {0}
ASSUME FramesAssumption == Frames \in Nat /\ Frames >= 2
ASSUME ScenariosAssumption == Scenarios \subseteq {"rpc-pressure", "rpc-stream-hose"}

Workers == 1..Replicas
Callers == 1..Replicas

VARIABLES
    \* the driver
    scenario, phase,   \* the phase is an index into Phases
    todo,              \* steps left of the phase
    callerFailure,     \* of a fleet: the callers threw
    baseline,          \* the baseline snapshot is of the broker that runs now
    stats,             \* half of a snapshot: "unread", "busy", "idle", "failures"
    metrics,           \* the other half: "unread", "busy", "idle"
    outcome,           \* "none", "passed", "rejected", "timeout"
    \* workers and callers
    worker,            \* "none", "starting", "ready", "lost", "stopping", "exited", "killed"
    caller,            \* "none", "starting", "ready", "running", "complete", "failed"
    handlers,          \* running handlers: <<worker, call, frames written>>
    handled, framesSent, progressed,   \* what the workers log
    call,              \* "idle", "open", "completed", "interrupted", "error"
    consumed,          \* the frames that the caller accepted
    cut,               \* callers whose connection is lost
    \* the broker
    up, registered, requests,
    pending,           \* <<call, worker>>
    inbox,             \* from each worker: frames, and its deregistration
    outbox,            \* to each call: frames, and an error
    late,              \* frames that were sent behind a deregistration
    ended, closing,    \* there are ended sessions: not noticed, not cleaned up
    failures,          \* a failure counter has risen since the baseline
    misbehaved,        \* history: the broker has misbehaved
    abandoned,         \* history: a worker stopped before a handler was counted
    straggled          \* history: a frame of a deregistered worker was handled

driverVars == <<scenario, phase, todo, callerFailure, baseline, stats, metrics, outcome>>
workerVars == <<worker, handlers, handled, framesSent, progressed, abandoned>>
callerVars == <<caller, call, consumed, cut>>
brokerVars == <<up, registered, requests, pending, inbox, outbox, late, ended, closing,
                failures, misbehaved, straggled>>
vars == <<driverVars, workerVars, callerVars, brokerVars>>
-----------------------------------------------------------------------------
(* runRpcStreamHose, runRpcPressureScenario *)
Phases ==
    IF scenario = "rpc-pressure" THEN <<"pressure">>
    ELSE <<"fleet", "cancel", "probe", "worker-kill", "probe", "fitz-restart", "probe">>

Kind == Phases[phase]
IsFleet(kind) == kind \in {"pressure", "fleet", "probe"}
Members == 1..(IF Kind \in {"pressure", "fleet"} THEN Replicas ELSE 1)

(* rpc-pressure replies with two frames. *)
FramesPerCall == IF scenario = "rpc-pressure" THEN 2 ELSE Frames

(* progressAfterFrames, which is also cancelAfterFrames *)
ProgressAfterFrames ==
    IF Frames < 8 THEN 1 ELSE IF Frames \div 4 < 10 THEN Frames \div 4 ELSE 10

(* Mutant: the counters are compared with those of the dead broker. *)
PhaseStepsOneBaseline(kind) ==
    CASE IsFleet(kind) ->
           <<"baseline", "startWorkers", "awaitWorkers", "startCallers", "awaitCallers", "release",
             "finishFleet", "stopWorkers", "finishWorkers", "judge", "quiesce">>
      [] kind = "cancel" ->
           <<"baseline", "startWorkers", "awaitWorkers", "startCallers", "awaitCallers", "release",
             "finishCallers", "stopWorkers", "finishWorkers", "quiesce">>
      [] kind = "worker-kill" ->
           <<"baseline", "startWorkers", "awaitWorkers", "startCallers", "awaitCallers", "release",
             "awaitProgress", "killWorkers", "finishCallers", "quiesce">>
      [] kind = "fitz-restart" ->
           <<"baseline", "startWorkers", "awaitWorkers", "startCallers", "awaitCallers", "release",
             "awaitProgress", "killFitz", "restartFitz", "finishCallers", "stopWorkers",
             "finishWorkers", "quiesce">>

(* The awaits of runSuccessfulFleet, runCancellationPhase, runWorkerKillPhase
   and runFitzRestartPhase. *)
PhaseSteps(kind) ==
    CASE IsFleet(kind) ->
           <<"baseline", "startWorkers", "awaitWorkers", "startCallers", "awaitCallers", "release",
             "finishFleet", "stopWorkers", "finishWorkers", "judge", "quiesce">>
      [] kind = "cancel" ->
           <<"baseline", "startWorkers", "awaitWorkers", "startCallers", "awaitCallers", "release",
             "finishCallers", "stopWorkers", "finishWorkers", "quiesce">>
      [] kind = "worker-kill" ->
           <<"baseline", "startWorkers", "awaitWorkers", "startCallers", "awaitCallers", "release",
             "awaitProgress", "killWorkers", "finishCallers", "quiesce">>
      [] kind = "fitz-restart" ->
           <<"baseline", "startWorkers", "awaitWorkers", "startCallers", "awaitCallers", "release",
             "awaitProgress", "killFitz", "restartFitz", "baseline", "finishCallers",
             "stopWorkers", "finishWorkers", "quiesce">>

Init ==
    /\ scenario \in Scenarios /\ phase = 1
    /\ todo = PhaseSteps(Kind)
    /\ callerFailure = FALSE
    /\ baseline = FALSE /\ stats = "unread" /\ metrics = "unread"
    /\ outcome = "none"
    /\ worker = [w \in Workers |-> "none"] /\ caller = [c \in Callers |-> "none"]
    /\ handlers = {}
    /\ handled = [w \in Workers |-> 0] /\ framesSent = [w \in Workers |-> 0]
    /\ progressed = {}
    /\ call = [c \in Callers |-> "idle"] /\ consumed = [c \in Callers |-> <<>>] /\ cut = {}
    /\ up = TRUE /\ registered = {} /\ requests = {} /\ pending = {}
    /\ inbox = [w \in Workers |-> <<>>] /\ outbox = [c \in Callers |-> <<>>]
    /\ late = 0 /\ ended = FALSE /\ closing = FALSE /\ failures = FALSE
    /\ misbehaved = FALSE /\ abandoned = FALSE /\ straggled = FALSE
-----------------------------------------------------------------------------
(* The workers: runRpcWorker, runRpcStreamWorker. *)

Frame(x, n) == [call |-> x, frame |-> n]
Unregister == Frame(0, 0)

(* registerWorker, also again after a lost connection. *)
WorkerRegisters(w) ==
    /\ worker[w] \in {"starting", "lost"}
    /\ up
    /\ worker' = [worker EXCEPT ![w] = "ready"]
    /\ registered' = registered \cup {w}
    /\ UNCHANGED <<driverVars, handlers, handled, framesSent, progressed, abandoned, callerVars,
                   up, requests, pending, inbox, outbox, late, ended, closing, failures,
                   misbehaved, straggled>>

(* The handler writes its next frame; the last one ends the response. *)
HandlerWrites(w, x, n) ==
    /\ <<w, x, n>> \in handlers
    /\ n < FramesPerCall
    /\ handlers' = (handlers \ {<<w, x, n>>}) \cup {<<w, x, n + 1>>}
    /\ IF worker[w] = "stopping" THEN late' = late + 1 /\ UNCHANGED inbox
       ELSE inbox' = [inbox EXCEPT ![w] = Append(@, Frame(x, n + 1))] /\ UNCHANGED late
    /\ framesSent' = IF n + 1 < FramesPerCall THEN [framesSent EXCEPT ![w] = @ + 1] ELSE framesSent
    /\ progressed' = IF n + 1 = ProgressAfterFrames THEN progressed \cup {w} ELSE progressed
    /\ UNCHANGED <<driverVars, worker, handled, abandoned, callerVars, up, registered, requests,
                   pending, outbox, ended, closing, failures, misbehaved, straggled>>

(* writer.end has resolved. *)
HandlerEnds(w, x) ==
    /\ <<w, x, FramesPerCall>> \in handlers
    /\ handlers' = handlers \ {<<w, x, FramesPerCall>>}
    /\ framesSent' = [framesSent EXCEPT ![w] = @ + 1]
    /\ handled' = [handled EXCEPT ![w] = @ + 1]
    /\ UNCHANGED <<driverVars, worker, progressed, abandoned, callerVars, brokerVars>>

(* unsubscribe has returned, or failed on a lost connection; the totals are
   logged and the process ends, with whatever handlers still run. *)
WorkerExits(w) ==
    /\ worker[w] = "stopping"
    /\ w \notin registered
    /\ worker' = [worker EXCEPT ![w] = "exited"]
    /\ abandoned' = (abandoned \/ \E h \in handlers : h[1] = w /\ h[3] = FramesPerCall)
    /\ handlers' = {h \in handlers : h[1] # w}
    /\ ended' = TRUE
    /\ UNCHANGED <<driverVars, handled, framesSent, progressed, callerVars, up, registered,
                   requests, pending, inbox, outbox, late, closing, failures, misbehaved,
                   straggled>>
-----------------------------------------------------------------------------
(* The callers: runRpcCaller, runRpcStreamCaller. *)

CallerConnects(c) ==
    /\ caller[c] = "starting"
    /\ up
    /\ caller' = [caller EXCEPT ![c] = "ready"]
    /\ UNCHANGED <<driverVars, workerVars, call, consumed, cut, brokerVars>>

StartCall(x) ==
    /\ caller[x] = "running" /\ call[x] = "idle"
    /\ call' = [call EXCEPT ![x] = "open"]
    /\ requests' = requests \cup {x}
    /\ UNCHANGED <<driverVars, workerVars, caller, consumed, cut, up, registered, pending, inbox,
                   outbox, late, ended, closing, failures, misbehaved, straggled>>

(* Mutant: the caller and call of a frame are not compared. *)
ValidUnchecked(x, f) ==
    /\ f.frame = Len(consumed[x]) + 1
    /\ consumed[x] # <<>> => f.worker = consumed[x][1].worker

(* The checks of a received frame: its sequence and identity, and the worker
   of the frames before it. *)
Valid(x, f) ==
    /\ f.frame = Len(consumed[x]) + 1
    /\ f.call = x
    /\ consumed[x] # <<>> => f.worker = consumed[x][1].worker

(* The call has thrown, also with "unexpectedly completed": the catch clause
   rethrows when the call should complete, and in the cancel phase unless the
   abort came first; any other error is the interruption that was expected. *)
Thrown ==
    IF Kind \in {"worker-kill", "fitz-restart"} THEN "interrupted" ELSE "error"

(* A frame arrives.  In the cancel phase the caller aborts after
   cancelAfterFrames, and the broker is told. *)
Receive(x) ==
    /\ call[x] = "open" /\ outbox[x] # <<>>
    /\ LET f == Head(outbox[x])
           aborts == Kind = "cancel" /\ f.frame = ProgressAfterFrames
       IN /\ f.frame > 0
          /\ \/ /\ ~Valid(x, f)
                /\ call' = [call EXCEPT ![x] = Thrown]
                /\ UNCHANGED consumed
             \/ /\ Valid(x, f)
                /\ consumed' = [consumed EXCEPT ![x] = Append(@, f)]
                /\ call' = [call EXCEPT ![x] =
                      IF aborts THEN "interrupted"
                      ELSE IF f.frame < FramesPerCall THEN "open"
                      ELSE IF IsFleet(Kind) THEN "completed" ELSE Thrown]
          /\ pending' = IF aborts /\ Valid(x, f) THEN {p \in pending : p[1] # x} ELSE pending
    /\ outbox' = [outbox EXCEPT ![x] = Tail(@)]
    /\ UNCHANGED <<driverVars, workerVars, caller, cut, up, registered, requests, inbox, late, ended, closing, failures, misbehaved, straggled>>

(* The broker has failed the call, or the connection is lost. *)
CallFails(x) ==
    /\ call[x] = "open"
    /\ x \in cut \/ (outbox[x] # <<>> /\ Head(outbox[x]).frame = 0)
    /\ call' = [call EXCEPT ![x] = Thrown]
    /\ UNCHANGED <<driverVars, workerVars, caller, consumed, cut, brokerVars>>

(* Mutant: a call has no time-out. *)
CallTimesOutNever(x) ==
    /\ FALSE
    /\ UNCHANGED vars

(* AbortSignal.timeout ends a call for which nothing is coming. *)
CallTimesOut(x) ==
    /\ call[x] = "open" /\ x \notin requests /\ outbox[x] = <<>>
    /\ \A h \in handlers : h[2] # x
    /\ \A w \in Workers : worker[w] # "killed" /\ \A i \in DOMAIN inbox[w] : inbox[w][i].call # x
    /\ call' = [call EXCEPT ![x] = Thrown]
    /\ UNCHANGED <<driverVars, workerVars, caller, consumed, cut, brokerVars>>

(* The caller verifies its totals and exits; an error exits at once. *)
CallerExits(c) ==
    /\ caller[c] = "running"
    /\ call[c] \in {"completed", "interrupted", "error"}
    /\ caller' = [caller EXCEPT ![c] = IF call[c] = "error" THEN "failed" ELSE "complete"]
    /\ ended' = (ended \/ c \notin cut)
    /\ UNCHANGED <<driverVars, workerVars, call, consumed, cut, up, registered, requests, pending,
                   inbox, outbox, late, closing, failures, misbehaved, straggled>>
-----------------------------------------------------------------------------
(* External: the broker. *)

Alive(w) == worker[w] \in {"ready", "stopping"}

BrokerDispatches(x, w) ==
    /\ up /\ x \in requests /\ w \in registered
    /\ requests' = requests \ {x}
    /\ pending' = pending \cup {<<x, w>>}
    /\ handlers' = IF Alive(w) THEN handlers \cup {<<w, x, 0>>} ELSE handlers
    /\ UNCHANGED <<driverVars, worker, handled, framesSent, progressed, abandoned, callerVars, up,
                   registered, inbox, outbox, late, ended, closing, failures, misbehaved,
                   straggled>>

(* The next message of a worker: a frame goes to its call while that is
   pending, and is counted as a failure otherwise. *)
BrokerHandles(w) ==
    /\ up /\ inbox[w] # <<>>
    /\ LET msg == Head(inbox[w])
           f == [worker |-> w, call |-> msg.call, frame |-> msg.frame]
       IN \/ /\ msg = Unregister
             /\ registered' = registered \ {w}
             /\ UNCHANGED <<pending, outbox, failures>>
          \/ /\ <<msg.call, w>> \in pending
             /\ outbox' = [outbox EXCEPT ![msg.call] = Append(@, f)]
             /\ pending' = IF msg.frame = FramesPerCall THEN pending \ {<<msg.call, w>>} ELSE pending
             /\ UNCHANGED <<registered, failures>>
          \/ /\ msg # Unregister /\ <<msg.call, w>> \notin pending
             /\ failures' = (failures \/ ~misbehaved)
             /\ UNCHANGED <<registered, pending, outbox>>
    /\ inbox' = [inbox EXCEPT ![w] = Tail(@)]
    /\ UNCHANGED <<driverVars, workerVars, callerVars, up, requests, late, ended, closing,
                   misbehaved, straggled>>

(* A frame of a worker that has deregistered. *)
BrokerHandlesLate ==
    /\ up /\ late > 0
    /\ late' = late - 1
    /\ failures' = TRUE /\ straggled' = TRUE
    /\ UNCHANGED <<driverVars, workerVars, callerVars, up, registered, requests, pending, inbox,
                   outbox, ended, closing, misbehaved>>

(* The end of a session is noticed once everything that it sent is handled. *)
BrokerNotices ==
    /\ up /\ ended /\ late = 0
    /\ ended' = FALSE /\ closing' = TRUE
    /\ UNCHANGED <<driverVars, workerVars, callerVars, up, registered, requests, pending, inbox,
                   outbox, late, failures, misbehaved, straggled>>

(* The cleanup removes what the session has left; the calls of a worker that
   was lost fail. *)
BrokerCleans ==
    LET lost == {w \in Workers : worker[w] = "killed"}
        orphans == {p \in pending : p[2] \in lost}
    IN
    /\ up /\ closing
    /\ \A w \in lost : inbox[w] = <<>>
    /\ closing' = FALSE
    /\ registered' = registered \ lost
    /\ pending' = {p \in pending \ orphans : caller[p[1]] = "running"}
    /\ outbox' = [x \in Callers |->
          IF \E p \in orphans : p[1] = x
          THEN Append(outbox[x], [worker |-> 0, call |-> x, frame |-> 0]) ELSE outbox[x]]
    /\ failures' = (failures \/ orphans # {})
    /\ UNCHANGED <<driverVars, workerVars, callerVars, up, requests, inbox, late, ended,
                   misbehaved, straggled>>

(* What the scenarios are there to detect. *)
BrokerMisbehaves(w) ==
    /\ MayMisbehave /\ ~misbehaved /\ up
    /\ misbehaved' = TRUE
    /\ \/ /\ inbox[w] # <<>> /\ <<Head(inbox[w]).call, w>> \in pending
          /\ LET msg == Head(inbox[w])
                 f == [worker |-> w, call |-> msg.call, frame |-> msg.frame]
             IN outbox' \in {outbox, [outbox EXCEPT ![msg.call] = Append(Append(@, f), f)]}
          /\ inbox' = [inbox EXCEPT ![w] = Tail(@)]
          /\ UNCHANGED handlers
       \/ /\ \E x, y \in Members :
                /\ x < y /\ outbox[x] # <<>> /\ outbox[y] # <<>>
                /\ outbox' = [outbox EXCEPT ![x] = outbox[y], ![y] = outbox[x]]
          /\ UNCHANGED <<inbox, handlers>>
       \/ /\ \E p \in pending : /\ p[2] # w /\ w \in registered
                                /\ handlers' = handlers \cup {<<w, p[1], 0>>}
          /\ UNCHANGED <<inbox, outbox>>
    /\ UNCHANGED <<driverVars, worker, handled, framesSent, progressed, abandoned, callerVars, up,
                   registered, requests, pending, late, ended, closing, failures, straggled>>
-----------------------------------------------------------------------------
(* The driver. *)

At(step) == outcome = "none" /\ Head(todo) = step
Done == todo' = Tail(todo)

Baseline ==
    /\ At("baseline") /\ Done
    /\ baseline' = TRUE /\ failures' = FALSE
    /\ UNCHANGED <<scenario, phase, callerFailure, stats, metrics, outcome, workerVars, callerVars,
                   up, registered, requests, pending, inbox, outbox, late, ended, closing,
                   misbehaved, straggled>>

StartWorkers ==
    /\ At("startWorkers") /\ Done
    /\ worker' = [w \in Workers |-> IF w \in Members THEN "starting" ELSE "none"]
    /\ handled' = [w \in Workers |-> 0] /\ framesSent' = [w \in Workers |-> 0]
    /\ progressed' = {}
    /\ UNCHANGED <<scenario, phase, callerFailure, baseline, stats, metrics, outcome, handlers,
                   abandoned, callerVars, brokerVars>>

StartCallers ==
    /\ At("startCallers") /\ Done
    /\ caller' = [c \in Callers |-> IF c \in Members THEN "starting" ELSE "none"]
    /\ call' = [c \in Callers |-> "idle"] /\ consumed' = [c \in Callers |-> <<>>] /\ cut' = {}
    /\ outbox' = [c \in Callers |-> <<>>]
    /\ UNCHANGED <<scenario, phase, callerFailure, baseline, stats, metrics, outcome, workerVars,
                   up, registered, requests, pending, inbox, late, ended, closing, failures,
                   misbehaved, straggled>>

(* The waits for ready and progress events. *)
Await(step) ==
    /\ At(step) /\ Done
    /\ step = "awaitWorkers" => \A w \in Members : worker[w] = "ready"
    /\ step = "awaitCallers" => \A c \in Members : caller[c] = "ready"
    /\ step = "awaitProgress" => Members \subseteq progressed
    /\ UNCHANGED <<scenario, phase, callerFailure, baseline, stats, metrics, outcome, workerVars,
                   callerVars, brokerVars>>

(* SIGUSR1 opens the start gate of the callers. *)
Release ==
    /\ At("release") /\ Done
    /\ caller' = [c \in Callers |-> IF c \in Members THEN "running" ELSE caller[c]]
    /\ UNCHANGED <<scenario, phase, callerFailure, baseline, stats, metrics, outcome, workerVars,
                   call, consumed, cut, brokerVars>>

CallersEnded == \A c \in Members : caller[c] \in {"complete", "failed"}
SomeCallerFailed == \E c \in Members : caller[c] = "failed"

(* A fleet goes on to stop its workers before it throws. *)
FinishFleet ==
    /\ At("finishFleet") /\ CallersEnded /\ Done
    /\ callerFailure' = SomeCallerFailed
    /\ UNCHANGED <<scenario, phase, baseline, stats, metrics, outcome, workerVars, callerVars,
                   brokerVars>>

(* finishRoleContainers and assertObservedFault *)
FinishCallers ==
    /\ At("finishCallers") /\ CallersEnded /\ Done
    /\ outcome' = IF SomeCallerFailed THEN "rejected" ELSE "none"
    /\ UNCHANGED <<scenario, phase, callerFailure, baseline, stats, metrics, workerVars,
                   callerVars, brokerVars>>

(* SIGTERM: a worker that is connected unsubscribes. *)
StopWorkers ==
    /\ At("stopWorkers") /\ Done
    /\ worker' = [w \in Workers |-> IF w \in Members THEN "stopping" ELSE worker[w]]
    /\ inbox' = [w \in Workers |-> IF w \in Members /\ worker[w] = "ready"
                                   THEN Append(inbox[w], Unregister) ELSE inbox[w]]
    /\ UNCHANGED <<scenario, phase, callerFailure, baseline, stats, metrics, outcome, handlers,
                   handled, framesSent, progressed, abandoned, callerVars, up, registered,
                   requests, pending, outbox, late, ended, closing, failures, misbehaved,
                   straggled>>

FinishWorkers ==
    /\ At("finishWorkers") /\ Done
    /\ \A w \in Members : worker[w] = "exited"
    /\ UNCHANGED <<scenario, phase, callerFailure, baseline, stats, metrics, outcome, workerVars,
                   callerVars, brokerVars>>

KillWorkers ==
    /\ At("killWorkers") /\ Done
    /\ worker' = [w \in Workers |-> IF w \in Members THEN "killed" ELSE worker[w]]
    /\ handlers' = {h \in handlers : h[1] \notin Members}
    /\ ended' = TRUE
    /\ UNCHANGED <<scenario, phase, callerFailure, baseline, stats, metrics, outcome, handled,
                   framesSent, progressed, abandoned, callerVars, up, registered, requests,
                   pending, inbox, outbox, late, closing, failures, misbehaved, straggled>>

(* Connections are lost with the broker; frames may be on their way to a
   caller.  Handlers fail, and workers reconnect. *)
KillFitz ==
    /\ At("killFitz") /\ Done
    /\ up' = FALSE
    /\ registered' = {} /\ requests' = {} /\ pending' = {}
    /\ inbox' = [w \in Workers |-> <<>>] /\ late' = 0
    /\ ended' = FALSE /\ closing' = FALSE /\ failures' = FALSE
    /\ baseline' = FALSE
    /\ worker' = [w \in Workers |-> IF worker[w] = "ready" THEN "lost" ELSE worker[w]]
    /\ handlers' = {}
    /\ cut' = {c \in Callers : caller[c] = "running"}
    /\ UNCHANGED <<scenario, phase, callerFailure, stats, metrics, outcome, handled,
                   framesSent, progressed, abandoned, caller, call, consumed, outbox, misbehaved,
                   straggled>>

RestartFitz ==
    /\ At("restartFitz") /\ Done
    /\ up' = TRUE
    /\ UNCHANGED <<scenario, phase, callerFailure, baseline, stats, metrics, outcome, workerVars,
                   callerVars, registered, requests, pending, inbox, outbox, late, ended, closing, failures, misbehaved, straggled>>

Total(f) == LET sum[n \in 0..Replicas] == IF n = 0 THEN 0 ELSE f[n] + sum[n - 1] IN sum[Replicas]

(* The totals of callers and workers; rpc-pressure also wants every worker to
   have been chosen.  A handler fails only when the broker dies, which is not
   during a fleet. *)
FleetAccepts ==
    /\ ~callerFailure
    /\ \A c \in Members : call[c] = "completed"
    /\ Total(handled) = Cardinality(Members)
    /\ Kind # "pressure" => Total(framesSent) = FramesPerCall * Cardinality(Members)
    /\ Kind = "pressure" =>
         /\ \A w \in Members : handled[w] > 0
         /\ {consumed[c][1].worker : c \in Members} = Members

Judge ==
    /\ At("judge") /\ Done
    /\ outcome' = IF FleetAccepts THEN "none" ELSE "rejected"
    /\ UNCHANGED <<scenario, phase, callerFailure, baseline, stats, metrics, workerVars,
                   callerVars, brokerVars>>

(* liveDomainSnapshot: two fetches, in any order. *)
ReadStats ==
    /\ At("quiesce") /\ up /\ stats = "unread"
    /\ stats' = IF registered # {} \/ pending # {} THEN "busy"
                ELSE IF failures THEN "failures" ELSE "idle"
    /\ UNCHANGED <<scenario, phase, todo, callerFailure, baseline, metrics, outcome, workerVars,
                   callerVars, brokerVars>>

ReadMetrics ==
    /\ At("quiesce") /\ up /\ metrics = "unread"
    /\ metrics' = IF closing THEN "busy" ELSE "idle"
    /\ UNCHANGED <<scenario, phase, todo, callerFailure, baseline, stats, outcome, workerVars,
                   callerVars, brokerVars>>

(* Mutant: only the cleanup metrics are looked at. *)
QuiescentByMetrics == metrics = "idle"

(* isLiveDomainQuiescent *)
Quiescent == stats # "busy" /\ metrics = "idle"

(* assertNoDomainFailures, unless failures are allowed, and cleanupDelta: a
   counter that fell below the baseline's is refused as well. *)
CountersAccepted ==
    /\ baseline
    /\ IsFleet(Kind) => stats # "failures"

NextPhase ==
    IF phase < Len(Phases)
    THEN outcome' = "none" /\ phase' = phase + 1 /\ todo' = PhaseSteps(Phases[phase + 1])
    ELSE outcome' = "passed" /\ UNCHANGED <<phase, todo>>

(* waitForLiveDomainQuiescence: poll again, or accept the phase. *)
Quiesce ==
    /\ At("quiesce") /\ stats # "unread" /\ metrics # "unread"
    /\ \/ /\ ~Quiescent
          /\ UNCHANGED <<phase, todo, outcome>>
       \/ /\ Quiescent /\ ~CountersAccepted
          /\ outcome' = "rejected" /\ UNCHANGED <<phase, todo>>
       \/ /\ Quiescent /\ CountersAccepted
          /\ NextPhase
    /\ stats' = "unread" /\ metrics' = "unread"
    /\ UNCHANGED <<scenario, callerFailure, baseline, workerVars, callerVars, brokerVars>>

(* A wait of the driver reaches its deadline: the run has failed, whatever
   containers a fleet still stops. *)
DeadlinePasses ==
    /\ outcome = "none"
    /\ Head(todo) \in {"awaitWorkers", "awaitCallers", "awaitProgress", "finishFleet",
                       "finishCallers", "finishWorkers", "quiesce"}
    /\ outcome' = "timeout"
    /\ UNCHANGED <<scenario, phase, todo, callerFailure, baseline, stats, metrics, workerVars,
                   callerVars, brokerVars>>

Driver ==
    \/ Baseline \/ StartWorkers \/ StartCallers \/ Release
    \/ \E step \in {"awaitWorkers", "awaitCallers", "awaitProgress"} : Await(step)
    \/ FinishFleet \/ FinishCallers \/ StopWorkers \/ FinishWorkers
    \/ KillWorkers \/ KillFitz \/ RestartFitz
    \/ Judge \/ ReadStats \/ ReadMetrics \/ Quiesce

Roles ==
    \/ \E w \in Workers :
          \/ WorkerRegisters(w) \/ WorkerExits(w)
          \/ \E x \in Callers :
                HandlerEnds(w, x) \/ \E n \in 0..(FramesPerCall - 1) : HandlerWrites(w, x, n)
    \/ \E c \in Callers :
          \/ CallerConnects(c) \/ StartCall(c) \/ Receive(c) \/ CallFails(c) \/ CallTimesOut(c)
          \/ CallerExits(c)

Broker ==
    \/ \E w \in Workers : BrokerHandles(w) \/ \E x \in Callers : BrokerDispatches(x, w)
    \/ BrokerHandlesLate \/ BrokerNotices \/ BrokerCleans

Next == outcome = "none" /\ (Driver \/ DeadlinePasses \/ Roles \/ Broker
                             \/ \E w \in Workers : BrokerMisbehaves(w))

Spec == Init /\ [][Next]_vars

(* The driver, and the processes that it waits for, keep running; nobody needs
   a deadline of the driver. *)
FairSpec ==
    /\ Spec
    /\ WF_vars(outcome = "none" /\ Driver)
    /\ WF_vars(outcome = "none" /\ (Roles \/ Broker))
-----------------------------------------------------------------------------
(* No correct broker is rejected, in whatever order frames, failures, ends of
   sessions and counters become visible to the driver.  The exceptions: a
   worker that logs its totals before its last handler is counted, a frame
   that a worker sends after it has unsubscribed, and a worker of rpc-pressure
   that the broker never chose. *)
NoFalseAlarm ==
    outcome = "rejected" =>
        \/ misbehaved \/ abandoned \/ straggled
        \/ Kind = "pressure" /\ \E w \in Workers : handled[w] = 0

(* A fleet that is accepted was served exactly: every call has all its frames
   in order, its own ones, and from one worker. *)
AcceptedIsExact ==
    At("quiesce") /\ IsFleet(Kind) =>
        \A c \in Members : \E w \in Workers :
            consumed[c] = [n \in 1..FramesPerCall |-> [worker |-> w, call |-> c, frame |-> n]]

(* A phase leaves nothing behind that could be counted against the next one:
   no registration, call, or running handler. *)
DrainedBetweenPhases ==
    At("startWorkers") \/ outcome = "passed" => registered = {} /\ pending = {} /\ handlers = {}

(* "Each destructive phase must terminate rather than hang" (README.md): every
   run ends, also without a deadline of the driver. *)
RunEnds == <>(outcome # "none")

(* The broker or the worker is killed "while calls are streaming" (README.md):
   a destructive phase that is accepted has interrupted a stream. *)
FaultsInterruptStreams ==
    At("quiesce") /\ Kind \in {"worker-kill", "fitz-restart"} =>
        \A c \in Members : Len(consumed[c]) < FramesPerCall
=============================================================================
