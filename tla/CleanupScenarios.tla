-------------------------- MODULE CleanupScenarios --------------------------
(***************************************************************************)
(* The scenarios about the state that a broker keeps for a session, and    *)
(* that must end with it: ephemeral-reply-loss-cleanup,                    *)
(* shutdown-reconnect-cleanup-storm, control-lane-cleanup-under-saturation *)
(* and active-graceful-shutdown.                                           *)
(*                                                                         *)
(* A client owns at most one piece of state of every kind: a Queue         *)
(* reservation, uncommitted work (a KV transaction and a Stream session),  *)
(* a Lease (held or awaited), the registrations that the statistics count, *)
(* and the watches that no statistic counts.  The broker is external: it   *)
(* admits requests, notices that a session is gone some time later, and    *)
(* removes its pieces one at a time.  It may misbehave once.  The driver's *)
(* limits of 8, 15 and 30 s are long enough for a correct broker.          *)
(***************************************************************************)
EXTENDS Naturals, Sequences, FiniteSets

CONSTANTS
    Clients,        \* victims of the reply loss; some are also
    Targets,        \* workers of the storm, and clients that hold state under saturation
    First,          \* the victim with a single request; the others send them all
    Domains,        \* domains of the saturated lanes and of the durable operations
    Cycles,         \* of the shutdown storm
    Scenarios,
    MayMisbehave

ASSUME ClientsAssumption ==
    /\ IsFiniteSet(Clients) /\ First \in Clients /\ Clients # {First}
    /\ Targets \subseteq Clients /\ Targets # {}
    /\ Clients \cap {"preparer", "saturator", "verifier", "caller"} = {}
ASSUME DomainsAssumption == IsFiniteSet(Domains) /\ Domains # {}
ASSUME CyclesAssumption == Cycles \in Nat \ {0}
ASSUME ScenariosAssumption == Scenarios \subseteq {"replyLoss", "storm", "saturation", "graceful"}

VARIABLES
    scenario, todo, cycle,
    verdict,        \* of the run, once its finally block has begun
    outcome,        \* "none", "passed", "rejected" (by a check), "error" (a call threw, or a
                    \* deadline of the driver passed)
    pc,             \* of every role
    handles,        \* of a worker of the storm: "open", "half", "closed"
    state,          \* pieces at the broker: "absent", "sent", "waiting", "held", "leaked"
    session,        \* "none", "up", "gone" (not noticed yet), "cleaning"
    item,           \* Queue item of a client's route: "absent", "there", "done", "lost"
    extra,          \* <<client, cycle>>: routes with a second copy of their item
    applied,        \* history: clients whose uncommitted work became durable
    up,             \* the broker is ready
    complaint,      \* the first one that the storm's ledger will raise, or "none"
    paused,         \* the proxy holds back the replies of the broker
    replied,        \* clients that have received a reply
    cleanups,       \* fitz_session_cleanup_successes_total since the broker started
    failures,       \* fitz_session_cleanup_failures_total
    baseline,       \* what the driver has read: cleanups, registrations
    quiet,          \* how many domains the driver has seen to be quiescent
    snapshot,       \* of waitForRegistrationCleanup: the readings so far
    fresh,          \* lanes with a success since the last control_lane_saturation_progress
    progressed,     \* lanes whose logged total has grown since progressBefore
    stalled,        \* lanes that the broker does not serve any more
    op,             \* durable operations: "idle", "sent", "applied", "acked", "failed",
                    \* "ambiguous" (failed and applied), "lost" (acknowledged)
    misbehaved,     \* history: the broker has misbehaved
    raced,          \* history: where a check relied on what a correct system need not keep to
    armedAtCut,     \* history: every visible piece was there, without a reply, at the cut
    lost,           \* history: clients one of whose items was lost
    late,           \* history: a second copy came after the last look at the queues
    observed,       \* history: cycles whose restart was seen, in time, and ended ready
    unlifted        \* history: what a restoring call has failed to lift

driverVars == <<scenario, todo, cycle, verdict, outcome>>
readings == <<baseline, quiet, snapshot, complaint>>
lanes == <<fresh, progressed, stalled>>
pieces == <<state, session, item, extra, applied, cleanups, failures>>
marks == <<armedAtCut, lost, late, observed, unlifted>>
history == <<misbehaved, raced, marks>>
vars == <<driverVars, pc, handles, pieces, up, paused, replied, readings, lanes, op, history>>

Kinds == {"queue", "work", "lease", "registration", "watch"}
Roles == Clients \cup {"preparer", "saturator", "verifier", "caller"}
Fields == {"cleanups", "failures", "registrations"}

(* The drivers.  "finally" ends the try block of two of them. *)
ReplyLossSteps ==
    <<"baselines", "startPreparer", "awaitPreparer", "startVictims", "pause", "signal",
      "awaitDispatched", "awaitArmed", "killVictims", "finally", "killPreparer", "checkDispatch",
      "quiesce", "startVerifier", "finishVerifier", "quiesce">>
StormSteps ==
    <<"startWorkers", "awaitArmed", "stopFitz", "startFitz", "readiness", "baselines",
      "finishWorkers", "quiesce", "pressure", "ledger">>
SaturationSteps ==
    <<"baselines", "startSaturator", "event", "awaitSaturating", "progressBefore", "startWorkers",
      "awaitArmed", "killHolders", "awaitCleanup", "startProbes", "finishProbes",
      "canary", "progressAfter", "stopSaturator", "finishSaturator", "pressure", "quiesce",
      "ledger", "finally">>
GracefulSteps ==
    <<"startCall", "awaitCall", "startCut", "awaitDispatchedCut", "stopFitz", "startFitz",
      "finishCall", "finishCut", "verifyLedger", "probeCall">>

Steps == [replyLoss |-> ReplyLossSteps, storm |-> StormSteps, saturation |-> SaturationSteps,
          graceful |-> GracefulSteps]

Init ==
    /\ scenario \in Scenarios /\ todo = Steps[scenario] /\ cycle = 1
    /\ verdict = "none" /\ outcome = "none"
    /\ pc = [r \in Roles |-> "none"] /\ handles = [c \in Clients |-> "open"]
    /\ state = [r \in Roles |-> [k \in Kinds |-> "absent"]]
    /\ session = [r \in Roles |-> "none"] /\ item = [c \in Clients |-> "absent"]
    /\ extra = {} /\ applied = {}
    /\ up = TRUE /\ paused = FALSE /\ replied = {}
    /\ cleanups = 0 /\ failures = 0
    /\ baseline = [f \in Fields |-> 0] /\ quiet = 0
    /\ snapshot = [pending |-> {}, registrations |-> {}]
    /\ fresh = {} /\ progressed = {} /\ stalled = {}
    /\ op = [d \in Domains |-> "idle"]
    /\ complaint = "none"
    /\ misbehaved = FALSE /\ raced = {} /\ armedAtCut = FALSE
    /\ lost = {} /\ late = FALSE /\ observed = 0 /\ unlifted = {}
-----------------------------------------------------------------------------
(* What the broker shows. *)

Shown(r, k) == state[r][k] \in {"held", "waiting", "leaked"}
Pending == Cardinality({r \in Roles : session[r] = "cleaning"})
Registrations == Cardinality({r \in Roles : Shown(r, "registration")})

(* The broker has nothing left to remove. *)
Settled == \A r \in Roles : session[r] \notin {"gone", "cleaning"}

Goes(r, to) == pc' = [pc EXCEPT ![r] = to]
Misbehaves == MayMisbehave /\ ~misbehaved /\ misbehaved' = TRUE

(* The queue item of a route can be reserved. *)
Reservable(c) == item[c] = "there" /\ ~Shown(c, "queue")

(* A second copy of the item of this cycle is in the queue. *)
Doubled(c) == <<c, cycle>> \in extra

(* The item is completed by nobody who may, or is gone. *)
LosesItem(c) ==
    /\ item[c] = "there"
    /\ item' = [item EXCEPT ![c] = "lost"] /\ lost' = lost \cup {c}
-----------------------------------------------------------------------------
(* armReliabilitySession: the pieces in the order of the code, each one with
   its reply.  A refusal undoes them. *)

ArmOrder == <<"queue", "work", "lease", "registration", "watch">>

ArmNext(c) == CHOOSE n \in 1..6 :
    /\ \A m \in 1..(n - 1) : state[c][ArmOrder[m]] = "held"
    /\ n = 6 \/ state[c][ArmOrder[n]] # "held"

Arm(c) ==
    /\ pc[c] = "arming" /\ up
    /\ session' = [session EXCEPT ![c] = "up"]
    /\ IF ArmNext(c) = 6 THEN Goes(c, "armed") /\ UNCHANGED <<state, item>>
       ELSE /\ state' = [state EXCEPT ![c][ArmOrder[ArmNext(c)]] = "held"]
            /\ item' = IF ArmNext(c) = 1 THEN [item EXCEPT ![c] = "there"] ELSE item
            /\ UNCHANGED pc
    /\ UNCHANGED <<driverVars, handles, extra, applied, cleanups, failures, up, paused, replied,
                   readings, lanes, op, history>>

ArmRefused(c) ==
    /\ pc[c] = "arming" /\ up /\ ArmNext(c) < 6 /\ Misbehaves
    /\ Goes(c, "failed")
    /\ state' = [state EXCEPT ![c] = [k \in Kinds |-> "absent"]]
    /\ session' = [session EXCEPT ![c] = "gone"]
    /\ item' = IF ArmNext(c) = 1 THEN item ELSE [item EXCEPT ![c] = "done"]
    /\ UNCHANGED <<driverVars, handles, extra, applied, cleanups, failures, up, paused, replied,
                   readings, lanes, op, raced, marks>>
-----------------------------------------------------------------------------
(* The clients of the reply loss. *)

(* What a victim asks for: one Lease, or everything at once. *)
Requested(c) == IF c = First THEN {"lease"} ELSE Kinds

PreparerReady ==
    /\ pc["preparer"] = "starting"
    /\ Goes("preparer", "armed")
    /\ state' = [state EXCEPT !["preparer"]["lease"] = "held"]
    /\ session' = [session EXCEPT !["preparer"] = "up"]
    /\ item' = [c \in Clients |-> IF c = First THEN item[c] ELSE "there"]
    /\ UNCHANGED <<driverVars, handles, extra, applied, cleanups, failures, up, paused, replied,
                   readings, lanes, op, history>>

VictimSends(c) ==
    /\ pc[c] = "signalled"
    /\ Goes(c, "sending")
    /\ session' = [session EXCEPT ![c] = "up"]
    /\ state' = [state EXCEPT ![c] =
                    [k \in Kinds |-> IF k \in Requested(c) THEN "sent" ELSE "absent"]]
    /\ UNCHANGED <<driverVars, handles, item, extra, applied, cleanups, failures, up, paused,
                   replied, readings, lanes, op, history>>

(* ephemeral_reply_loss_dispatched, 100 to 500 ms later *)
VictimDispatched(c) ==
    /\ pc[c] = "sending"
    /\ Goes(c, IF c \in replied THEN "leaky" ELSE "dispatched")
    /\ UNCHANGED <<driverVars, handles, pieces, up, paused, replied, readings, lanes, op,
                   history>>

(* A reply passes the proxy unless its downstream side is paused. *)
ReplyArrives(c) ==
    /\ pc[c] \in {"sending", "dispatched", "leaky"} /\ ~paused
    /\ \E k \in Kinds : Shown(c, k)
    /\ replied' = replied \cup {c}
    /\ UNCHANGED <<driverVars, pc, handles, pieces, up, paused, readings, lanes, op, history>>
-----------------------------------------------------------------------------
(* A worker of the shutdown storm after the broker has gone. *)

(* The client library invalidates the handles, together or one by one. *)
HandlesClose(c) ==
    /\ pc[c] = "armed" /\ scenario = "storm" /\ session[c] = "none" /\ handles[c] # "closed"
    /\ \E h \in {"half", "closed"} : handles[c] # h /\ handles' = [handles EXCEPT ![c] = h]
    /\ UNCHANGED <<driverVars, pc, pieces, up, paused, replied, readings, lanes, op, history>>

Reconnect(c) ==
    /\ scenario = "storm" /\ pc[c] \in {"armed", "waiting"} /\ up /\ session[c] = "none"
    /\ handles[c] = "closed"
    /\ session' = [session EXCEPT ![c] = "up"]
    /\ state' = [state EXCEPT ![c]["registration"] = "held"]
    /\ UNCHANGED <<driverVars, pc, handles, item, extra, applied, cleanups, failures, up, paused,
                   replied, readings, lanes, op, history>>

(* waitForReconnect: the first loop ends with either handle, the check after it
   wants both. *)
HandlesInvalid(c) ==
    /\ pc[c] = "armed" /\ scenario = "storm" /\ handles[c] # "open"
    /\ Goes(c, IF handles[c] = "closed" THEN "waiting" ELSE "failed")
    /\ raced' = raced \cup (IF handles[c] = "half" THEN {"handles"} ELSE {})
    /\ UNCHANGED <<driverVars, handles, pieces, up, paused, replied, readings, lanes, op,
                   misbehaved, marks>>

Connected(c) ==
    /\ pc[c] = "waiting" /\ session[c] = "up"
    /\ Goes(c, "stale")
    /\ UNCHANGED <<driverVars, handles, pieces, up, paused, replied, readings, lanes, op,
                   history>>

(* rejectStaleHandles.  A broker that honours a stale handle is found out at
   once, unless its answer is an error all the same. *)
RejectStaleHandles(c) ==
    /\ pc[c] = "stale"
    /\ \/ Goes(c, "resigning") /\ UNCHANGED <<item, lost, applied, misbehaved>>
       \/ /\ Misbehaves /\ \E to \in {"failed", "resigning"} : Goes(c, to)
          /\ \/ LosesItem(c) /\ UNCHANGED applied
             \/ applied' = applied \cup {c} /\ UNCHANGED <<item, lost>>
    /\ UNCHANGED <<driverVars, handles, state, session, extra, cleanups, failures, up, paused,
                   replied, readings, lanes, op, raced, armedAtCut, late, observed, unlifted>>

(* unsubscribeRegistrations swallows its failures. *)
Unsubscribe(c) ==
    /\ pc[c] = "resigning"
    /\ Goes(c, "probing")
    /\ \E s \in {"absent", state[c]["registration"]} :
        state' = [state EXCEPT ![c]["registration"] = s]
    /\ UNCHANGED <<driverVars, handles, session, item, extra, applied, cleanups, failures, up,
                   paused, replied, readings, lanes, op, history>>
-----------------------------------------------------------------------------
(* verifyReliabilitySessionReleased, by a worker of the storm or by a probe,
   and the verifier of the reply loss. *)

Probed(r) == IF r = "verifier" THEN Clients ELSE {r}

(* The routes of r whose item was put into the queue. *)
WithItem(r) == {c \in Probed(r) : scenario # "replyLoss" \/ c # First}

(* The reservation of a worker or probe takes two items if there are two, the one
   of the verifier takes one. *)
Redelivered(r) == \A c \in WithItem(r) : Reservable(c) /\ (Doubled(c) => r = "verifier")

(* Mutant: an empty reservation is not noticed. *)
ProbeQueueUncounted(r) ==
    /\ pc[r] = "probing"
    /\ \A c \in WithItem(r) : Reservable(c) \/ session[c] \notin {"gone", "cleaning"}
    /\ item' = [c \in Clients |-> IF c \in WithItem(r) /\ Reservable(c) THEN "done" ELSE item[c]]
    /\ Goes(r, "drained")
    /\ UNCHANGED <<driverVars, handles, state, session, extra, applied, cleanups, failures, up,
                   paused, replied, readings, lanes, op, history>>

(* The item comes back within the 5 s of the reservation and is completed. *)
ProbeQueue(r) ==
    /\ pc[r] = "probing"
    /\ \A c \in WithItem(r) : Reservable(c) \/ session[c] \notin {"gone", "cleaning"}
    /\ IF Redelivered(r)
       THEN /\ item' = [c \in Clients |-> IF c \in WithItem(r) THEN "done" ELSE item[c]]
            /\ Goes(r, "drained")
       ELSE Goes(r, "failed") /\ UNCHANGED item
    /\ UNCHANGED <<driverVars, handles, state, session, extra, applied, cleanups, failures, up,
                   paused, replied, readings, lanes, op, history>>

(* Mutant: what the dead session had written is not looked for. *)
ReleasedUnread(r) ==
    /\ \A c \in WithItem(r) : ~Doubled(c)
    /\ \A c \in Probed(r) \cup {"preparer"} : ~Shown(c, "lease")

(* Nothing is left in the queue (the verifier gets a second copy before its own
   item), nothing uncommitted can be read, and no Lease is held. *)
Released(r) ==
    /\ \A c \in WithItem(r) : ~Doubled(c)
    /\ scenario # "replyLoss" => Probed(r) \cap applied = {}
    /\ \A c \in Probed(r) \cup {"preparer"} : ~Shown(c, "lease")

ProbeReleased(r) ==
    /\ pc[r] = "drained"
    /\ IF Released(r) THEN Goes(r, "rpc") ELSE Goes(r, "failed")
    /\ UNCHANGED <<driverVars, handles, pieces, up, paused, replied, readings, lanes, op,
                   history>>

(* Four calls to the worker that the probe registers, one of the verifier; the
   process ends, and its session. *)
ProbeRpc(r) ==
    /\ pc[r] = "rpc"
    /\ \/ Goes(r, "done") /\ UNCHANGED misbehaved
       \/ Goes(r, "failed") /\ Misbehaves
    /\ session' = [session EXCEPT ![r] = IF @ = "up" THEN "gone" ELSE @]
    /\ UNCHANGED <<driverVars, handles, state, item, extra, applied, cleanups, failures, up, paused,
                   replied, readings, lanes, op, raced, marks>>

(* A client that throws ends, and its session. *)
FailedExits(r) ==
    /\ pc[r] = "failed" /\ session[r] = "up"
    /\ session' = [session EXCEPT ![r] = "gone"]
    /\ UNCHANGED <<driverVars, pc, handles, state, item, extra, applied, cleanups, failures, up,
                   paused, replied, readings, lanes, op, history>>
-----------------------------------------------------------------------------
(* The saturator. *)

SaturatorReady ==
    /\ pc["saturator"] = "starting"
    /\ Goes("saturator", "running")
    /\ session' = [session EXCEPT !["saturator"] = "up"]
    /\ state' = [state EXCEPT !["saturator"]["registration"] = "held"]
    /\ UNCHANGED <<driverVars, handles, item, extra, applied, cleanups, failures, up, paused,
                   replied, readings, lanes, op, history>>

(* saturationLoop: a failure is counted and the lane goes on. *)
LaneSucceeds(d) ==
    /\ pc["saturator"] = "running" /\ d \notin stalled
    /\ fresh' = fresh \cup {d}
    /\ UNCHANGED <<driverVars, pc, handles, pieces, up, paused, replied, readings, progressed,
                   stalled, op, history>>

LogProgress ==
    /\ pc["saturator"] = "running" /\ fresh # {}
    /\ progressed' = progressed \cup fresh /\ fresh' = {}
    /\ UNCHANGED <<driverVars, pc, handles, pieces, up, paused, replied, readings, stalled, op,
                   history>>

(* cleanupSaturationState and the end of the process *)
SaturatorExits ==
    /\ pc["saturator"] = "stopping"
    /\ Goes("saturator", "done")
    /\ state' = [state EXCEPT !["saturator"]["registration"] = "absent"]
    /\ session' = [session EXCEPT !["saturator"] = "gone"]
    /\ UNCHANGED <<driverVars, handles, item, extra, applied, cleanups, failures, up, paused,
                   replied, readings, lanes, op, history>>
-----------------------------------------------------------------------------
(* The call and the durable operations that a graceful shutdown interrupts. *)

CallEnds ==
    /\ pc["caller"] = "calling"
    /\ \/ ~up /\ Goes("caller", "interrupted") /\ UNCHANGED raced
       \/ up /\ Goes("caller", "completed") /\ raced' = raced \cup {"completed"}
    /\ UNCHANGED <<driverVars, handles, pieces, up, paused, replied, readings, lanes, op,
                   misbehaved, marks>>

OperationEnds(d) ==
    /\ \/ op[d] = "sent" /\ up /\ op' = [op EXCEPT ![d] = "applied"]
       \/ op[d] = "applied" /\ up /\ op' = [op EXCEPT ![d] = "acked"]
       \/ /\ op[d] \in {"sent", "applied"} /\ \A n \in DOMAIN todo : todo[n] # "stopFitz"
          /\ op' = [op EXCEPT ![d] = IF @ = "sent" THEN "failed" ELSE "ambiguous"]
    /\ UNCHANGED <<driverVars, pc, handles, pieces, up, paused, replied, readings, lanes,
                   history>>
-----------------------------------------------------------------------------
(* The broker. *)

HeldByAnother(c) == state["preparer"]["lease"] = "held" /\ c # First

Admit(c, k) ==
    /\ state[c][k] = "sent" /\ session[c] \in {"up", "gone"}
    /\ state' = [state EXCEPT ![c][k] =
                    IF k = "lease" /\ HeldByAnother(c) THEN "waiting" ELSE "held"]
    /\ UNCHANGED <<driverVars, pc, handles, session, item, extra, applied, cleanups, failures, up,
                   paused, replied, readings, lanes, op, history>>

Notice(r) ==
    /\ session[r] = "gone"
    /\ session' = [session EXCEPT ![r] = "cleaning"]
    /\ UNCHANGED <<driverVars, pc, handles, state, item, extra, applied, cleanups, failures, up,
                   paused, replied, readings, lanes, op, history>>

(* A Lease that ends goes to the client that waits for it, gone or not. *)
Without(r, k, to) ==
    [q \in Roles |-> [j \in Kinds |->
        IF q = r /\ j = k THEN to
        ELSE IF r = "preparer" /\ k = "lease" /\ j = "lease" /\ state[q][j] = "waiting" THEN "held"
        ELSE state[q][j]]]

Remove(r, k) ==
    /\ session[r] = "cleaning" /\ state[r][k] \in {"sent", "waiting", "held"}
    /\ state' = Without(r, k, "absent")
    /\ UNCHANGED <<driverVars, pc, handles, session, item, extra, applied, cleanups, failures, up,
                   paused, replied, readings, lanes, op, history>>

CleanupDone(r) ==
    /\ session[r] = "cleaning" /\ \A k \in Kinds : state[r][k] \in {"absent", "leaked"}
    /\ session' = [session EXCEPT ![r] = "none"]
    /\ cleanups' = cleanups + 1
    /\ UNCHANGED <<driverVars, pc, handles, state, item, extra, applied, failures, up, paused,
                   replied, readings, lanes, op, history>>

(* Somebody will still look whether the queues are empty. *)
QueuesWatched ==
    IF scenario = "replyLoss" THEN pc["verifier"] \in {"none", "probing", "drained"}
    ELSE (scenario = "storm" /\ cycle < Cycles) \/ \E n \in DOMAIN todo : todo[n] = "pressure"

(* A broker at fault: it forgets a piece or ignores a request, applies what was
   not committed, fails to clean up, loses an item, delivers it twice or once
   more, starves a lane, or loses an operation that it had acknowledged. *)
BrokerMisbehaves ==
    /\ Misbehaves
    /\ \/ /\ \/ \E r \in Roles, k \in Kinds :
                  /\ session[r] = "cleaning" /\ state[r][k] \in {"waiting", "held"}
                  /\ state' = [state EXCEPT ![r][k] = "leaked"]
             \/ \E c \in Clients, k \in Kinds :
                  state[c][k] = "sent" /\ state' = [state EXCEPT ![c][k] = "absent"]
          /\ UNCHANGED <<item, extra, lost, late, applied, failures, stalled, op>>
       \/ /\ \E c \in Clients :
               /\ session[c] = "cleaning"
               /\ \/ state[c]["work"] = "held" /\ applied' = applied \cup {c} /\ UNCHANGED failures
                  \/ failures' = failures + 1 /\ UNCHANGED applied
          /\ UNCHANGED <<state, item, extra, lost, late, stalled, op>>
       \/ /\ \E c \in Clients : session[c] = "cleaning" /\ LosesItem(c)
          /\ UNCHANGED <<state, extra, late, applied, failures, stalled, op>>
       \/ /\ \E c \in Clients :
               /\ item[c] = "done" \/ (item[c] = "there" /\ session[c] = "cleaning")
               /\ extra' = extra \cup {<<c, cycle>>}
          /\ late' = ~QueuesWatched
          /\ UNCHANGED <<state, item, lost, applied, failures, stalled, op>>
       \/ /\ pc["saturator"] = "running"
          /\ \E d \in Domains : stalled' = stalled \cup {d}
          /\ UNCHANGED <<state, item, extra, lost, late, applied, failures, op>>
       \/ /\ ~up /\ \E d \in Domains : op[d] = "acked" /\ op' = [op EXCEPT ![d] = "lost"]
          /\ UNCHANGED <<state, item, extra, lost, late, applied, failures, stalled>>
    /\ UNCHANGED <<driverVars, pc, handles, session, cleanups, up, paused, replied, readings,
                   fresh, progressed, raced, armedAtCut, observed, unlifted>>
-----------------------------------------------------------------------------
(* The driver. *)

At(step) == outcome = "none" /\ Head(todo) = step

Proceed ==
    /\ IF Len(todo) = 1 THEN outcome' = "passed" /\ UNCHANGED todo
       ELSE todo' = Tail(todo) /\ UNCHANGED outcome
    /\ UNCHANGED <<scenario, cycle, verdict>>

BeforeTry == {"baselines", "startPreparer", "awaitPreparer", "startVictims", "startSaturator",
              "event"}

(* The finally block is ahead: what goes wrong after it, or where there is none,
   ends the run with nothing to restore. *)
FinallyAhead == \E n \in DOMAIN todo : todo[n] = "finally"
InTry == FinallyAhead /\ Head(todo) \notin BeforeTry

(* Mutant: an error leaves the finally block out. *)
FailAtOnce(why) == outcome' = why /\ UNCHANGED <<scenario, cycle, todo, verdict>>

(* An error runs the finally block first where there is one. *)
Fail(why) ==
    IF InTry
    THEN /\ verdict' = why /\ todo' = <<"finally">>
         /\ UNCHANGED <<scenario, cycle, outcome>>
    ELSE outcome' = why /\ UNCHANGED <<scenario, cycle, todo, verdict>>

Check(accepted) == IF accepted THEN Proceed ELSE Fail("rejected")

(* The artifact event that follows an effect may reject. *)
Onward == Proceed \/ (FinallyAhead /\ Fail("error"))

Start(step, roles, to) ==
    /\ At(step) /\ Onward
    /\ pc' = [r \in Roles |-> IF r \in roles THEN to ELSE pc[r]]
    /\ UNCHANGED <<handles, pieces, up, paused, replied, readings, lanes, op, history>>

(* signalRoleContainers: docker kill is allowed to fail, for some or all. *)
Signal(step, roles, to) ==
    /\ At(step) /\ Proceed
    /\ \E told \in SUBSET roles : pc' = [r \in Roles |-> IF r \in told THEN to ELSE pc[r]]
    /\ UNCHANGED <<handles, pieces, up, paused, replied, readings, lanes, op, history>>

(* A wait that only observes: until it is decided. *)
Observe(step, decided, accepted) ==
    /\ At(step) /\ decided /\ Check(accepted)
    /\ UNCHANGED <<pc, handles, pieces, up, paused, replied, readings, lanes, op, history>>

Ended(roles) == \A r \in roles : pc[r] \in {"done", "failed"}

Finished(roles) == \A r \in roles : pc[r] = "done"
Armed(roles) == \A r \in roles : pc[r] = "armed"

ReadBaselines ==
    /\ At("baselines") /\ Proceed
    /\ baseline' = [baseline EXCEPT !["cleanups"] = cleanups, !["failures"] = failures]
    /\ UNCHANGED <<pc, handles, pieces, up, paused, replied, quiet, snapshot,
                   complaint, lanes, op, history>>

SetFaultProxy ==
    /\ At("pause") /\ Onward /\ paused' = TRUE
    /\ UNCHANGED <<pc, handles, pieces, up, replied, readings, lanes, op, history>>

Others == Clients \ {First}

(* Mutant: one Lease is enough. *)
IsEphemeralStateArmedOneLease ==
    /\ \A c \in Others : \A k \in {"queue", "work", "registration"} : Shown(c, k)
    /\ \E r \in Roles : Shown(r, "lease")

(* isEphemeralStateArmed: the watches of KV and Lease are in no statistic. *)
IsEphemeralStateArmed ==
    /\ \A c \in Others : \A k \in {"queue", "work", "registration"} : Shown(c, k)
    /\ Cardinality({r \in Roles : state[r]["lease"] = "held"}) >= 2
    /\ \E r \in Roles : state[r]["lease"] = "waiting"

(* Nothing that was sent is still on its way. *)
AllAdmitted == \A c \in Clients : \A k \in Kinds : state[c][k] # "sent"

(* killRoleContainers: docker rm fails on a container that the kill has missed. *)
Killed(roles, hit) == IF hit = roles THEN Onward ELSE Fail("error")

KillVictims ==
    /\ At("killVictims")
    /\ \E hit \in SUBSET Clients :
        /\ Killed(Clients, hit)
        /\ pc' = [r \in Roles |-> IF r \in hit
                                  THEN (IF pc[r] = "dispatched" THEN "killed" ELSE "leaky")
                                  ELSE pc[r]]
        /\ session' = [r \in Roles |-> IF r \in hit THEN "gone" ELSE session[r]]
    /\ armedAtCut' = (replied = {} /\ \A c \in Clients : \A k \in Requested(c) \ {"watch"} :
                                                            Shown(c, k))
    /\ UNCHANGED <<handles, state, item, extra, applied, cleanups, failures, up, paused, replied,
                   readings, lanes, op, misbehaved, raced, lost, late, observed, unlifted>>

KillClients(step, roles) ==
    /\ At(step)
    /\ \E hit \in SUBSET roles :
        /\ Killed(roles, hit)
        /\ pc' = [r \in Roles |-> IF r \in hit THEN "killed" ELSE pc[r]]
        /\ session' = [r \in Roles |-> IF r \in hit THEN "gone" ELSE session[r]]
    /\ UNCHANGED <<handles, state, item, extra, applied, cleanups, failures, up, paused, replied,
                   readings, lanes, op, history>>

(* The end of the finally block: on with the run, or the error leaves. *)
Conclude ==
    IF verdict = "none" THEN Proceed
    ELSE outcome' = verdict /\ UNCHANGED <<scenario, cycle, todo, verdict>>

(* The reply loss puts the proxy back; a failure of that call is swallowed. *)
FinallyRestore ==
    /\ At("finally") /\ scenario = "replyLoss" /\ Conclude
    /\ \/ paused' = FALSE /\ UNCHANGED unlifted
       \/ paused /\ unlifted' = unlifted \cup {"proxy"} /\ UNCHANGED paused
    /\ UNCHANGED <<pc, handles, pieces, up, replied, readings, lanes, op, misbehaved, raced,
                   armedAtCut, lost, late, observed>>

(* The saturation signals saturators that it has not stopped; the signal may be
   missed. *)
FinallyStop ==
    /\ At("finally") /\ scenario = "saturation"
    /\ IF pc["saturator"] \in {"starting", "running", "stopping"}
       THEN /\ todo' = <<"finallyFinish">> /\ UNCHANGED <<scenario, cycle, verdict, outcome>>
            /\ \E to \in {"stopping", pc["saturator"]} : Goes("saturator", to)
       ELSE Conclude /\ UNCHANGED pc
    /\ UNCHANGED <<handles, pieces, up, paused, replied, readings, lanes, op, history>>

(* It waits for their end until a deadline, whose error is swallowed. *)
FinallyFinish ==
    /\ At("finallyFinish") /\ Conclude
    /\ unlifted' = unlifted \cup (IF pc["saturator"] = "done" THEN {} ELSE {"saturator"})
    /\ UNCHANGED <<pc, handles, pieces, up, paused, replied, readings, lanes, op, misbehaved,
                   raced, armedAtCut, lost, late, observed>>

(* The domains one after the other, and what of each. *)
QuietKinds == IF scenario = "replyLoss" THEN <<"queue", "work", "registration", "lease">>
              ELSE <<"work", "registration", "lease">>

(* cleanupDelta, or no more failures than before *)
CountersFit == IF scenario = "replyLoss" THEN failures = baseline["failures"]
               ELSE cleanups >= baseline["cleanups"] /\ failures >= baseline["failures"]

NextDomain ==
    IF quiet + 1 = Len(QuietKinds) THEN quiet' = 0 /\ Proceed
    ELSE quiet' = quiet + 1 /\ UNCHANGED driverVars

Quiescent == (\A r \in Roles : ~Shown(r, QuietKinds[quiet + 1])) /\ Pending = 0

(* Mutant: the wait has no deadline. *)
QuiesceUnbounded ==
    /\ At("quiesce") /\ Quiescent /\ CountersFit /\ NextDomain
    /\ UNCHANGED <<pc, handles, pieces, up, paused, replied, baseline, snapshot,
                   complaint, lanes, op, history>>

(* waitForLiveDomainQuiescence and waitForEveryDomainToQuiesce *)
Quiesce ==
    /\ At("quiesce") /\ (Quiescent \/ Settled)
    /\ IF Quiescent /\ CountersFit THEN NextDomain ELSE Fail("rejected") /\ UNCHANGED quiet
    /\ UNCHANGED <<pc, handles, pieces, up, paused, replied, baseline, snapshot,
                   complaint, lanes, op, history>>

(* waitForPressureQuiescence: the queues are empty, of earlier cycles too, and no
   worker is registered. *)
PressureQuiescent ==
    /\ extra = {} /\ \A c \in Clients : item[c] # "there" /\ ~Shown(c, "queue")
    /\ Registrations = 0 /\ Pending = 0

(* roleLogs and currentRegistrationState *)
ProgressBefore ==
    /\ At("progressBefore") /\ Proceed
    /\ progressed' = {}
    /\ baseline' = [baseline EXCEPT !["registrations"] = Registrations]
    /\ UNCHANGED <<pc, handles, pieces, up, paused, replied, quiet, snapshot,
                   complaint, fresh, stalled, op, history>>

(* registrationState: the metrics and the statistics are fetched together and
   answered in any order. *)
ReadSnapshot ==
    /\ At("awaitCleanup")
    /\ \/ /\ snapshot.pending = {}
          /\ snapshot' = [snapshot EXCEPT !.pending = {Pending}]
       \/ /\ snapshot.registrations = {}
          /\ snapshot' = [snapshot EXCEPT !.registrations = {Registrations}]
    /\ UNCHANGED <<driverVars, pc, handles, pieces, up, paused, replied, baseline, quiet,
                   complaint, lanes, op, history>>

(* waitForRegistrationCleanup *)
CompareSnapshot ==
    /\ At("awaitCleanup") /\ snapshot.pending # {} /\ snapshot.registrations # {}
    /\ snapshot' = [pending |-> {}, registrations |-> {}]
    /\ IF snapshot = [pending |-> {0}, registrations |-> {baseline["registrations"]}]
       THEN Proceed /\ raced' = raced \cup (IF Settled THEN {} ELSE {"torn"})
       ELSE /\ IF Settled /\ Registrations # baseline["registrations"]
               THEN Fail("rejected") ELSE UNCHANGED driverVars
            /\ UNCHANGED raced
    /\ UNCHANGED <<pc, handles, pieces, up, paused, replied, baseline, quiet,
                   complaint, lanes, op, misbehaved, marks>>

(* A log has been written since every lane that is served had a success: the
   probes and the canary take longer than an interval. *)
LanesLogged == \A d \in Domains : d \in progressed \/ (d \in stalled /\ d \notin fresh)

(* gracefulRestartFitz: the sessions are drained, the process ends. *)
StopFitz ==
    /\ At("stopFitz") /\ Onward
    /\ up' = FALSE
    /\ session' = [r \in Roles |-> IF session[r] = "up" THEN "cleaning" ELSE session[r]]
    /\ UNCHANGED <<pc, handles, state, item, extra, applied, cleanups, failures, paused, replied,
                   readings, lanes, op, history>>

StartFitz ==
    /\ At("startFitz") /\ Settled /\ Onward
    /\ up' = TRUE /\ cleanups' = 0 /\ failures' = 0
    /\ UNCHANGED <<pc, handles, state, session, item, extra, applied, paused, replied, readings,
                   lanes, op, history>>

(* What the ledger will say of a restart: dropped if a sample was not 200, ready if
   the last one was, inTime if restartElapsedMs is within the budget. *)
Restarted(dropped, ready, inTime) ==
    CASE ready /\ ~dropped -> "neverDropped"
      [] ~ready -> "notReady"
      [] ready /\ dropped -> IF inTime THEN "none" ELSE "slow"

(* observeReadinessDuring.  Nothing makes the 25 ms sampler hit the gap of a
   restart, nor the restart keep to its budget, nor a ready broker answer within
   the second that a sample has: any outcome.  A broker that withdraws its
   readiness again is at fault. *)
ObserveReadiness ==
    /\ At("readiness") /\ Proceed
    /\ \E dropped, ready, inTime \in BOOLEAN :
        LET found == Restarted(dropped, ready, inTime) IN
        /\ complaint' = IF complaint = "none" THEN found ELSE complaint
        /\ observed' = IF found = "none" THEN observed + 1 ELSE observed
        /\ (found = "notReady" /\ Misbehaves) \/ UNCHANGED misbehaved
    /\ UNCHANGED <<pc, handles, pieces, up, paused, replied, baseline, quiet, snapshot, lanes, op,
                   raced, armedAtCut, lost, late, unlifted>>

(* The next cycle has routes of its own. *)
NextCycle ==
    /\ At("ledger") /\ scenario = "storm" /\ cycle < Cycles
    /\ cycle' = cycle + 1 /\ todo' = StormSteps
    /\ handles' = [c \in Clients |-> "open"] /\ item' = [c \in Clients |-> "absent"]
    /\ UNCHANGED <<scenario, verdict, outcome, pc, state, session, extra, applied, cleanups,
                   failures, up, paused, replied, readings, lanes, op, history>>

(* Mutant: the ledger does not look at the restarts. *)
LedgerUnread ==
    /\ At("ledger") /\ scenario = "storm" /\ cycle = Cycles /\ Proceed
    /\ UNCHANGED <<pc, handles, pieces, up, paused, replied, readings, lanes, op, history>>

(* assertShutdownReconnectCleanupStorm, once after the last cycle: what the
   workers and the quiescence have not checked before is in complaint. *)
Ledger ==
    /\ At("ledger") /\ scenario = "storm" /\ cycle = Cycles
    /\ Check(complaint = "none")
    /\ UNCHANGED <<pc, handles, pieces, up, paused, replied, readings, lanes, op, history>>

(* The canary of the saturation, the call after the graceful shutdown. *)
FreshClient(step) ==
    /\ At(step)
    /\ \/ Proceed /\ UNCHANGED misbehaved
       \/ Misbehaves /\ Fail("rejected")
    /\ UNCHANGED <<pc, handles, pieces, up, paused, replied, readings, lanes, op, raced, marks>>

(* durability_operations_dispatched *)
StartCut ==
    /\ At("startCut") /\ Proceed
    /\ op' = [d \in Domains |-> "sent"]
    /\ UNCHANGED <<pc, handles, pieces, up, paused, replied, readings, lanes, history>>

(* A wait for containers or for readiness reaches its deadline. *)
DeadlinePasses ==
    /\ Head(todo) \in {"awaitPreparer", "awaitDispatched", "finishVerifier", "finishWorkers",
                       "awaitSaturating", "finishProbes", "finishSaturator", "startFitz",
                       "finishCall", "finishCut"}
       \/ (Head(todo) = "awaitArmed" /\ scenario # "replyLoss")
    /\ Fail("error")
    /\ UNCHANGED <<pc, handles, pieces, up, paused, replied, readings, lanes, op, history>>

(* Every step up to the finally block makes calls of docker, of the admin API or of
   the artifacts, and each may reject before it has had an effect. *)
CallThrows ==
    /\ FinallyAhead /\ Head(todo) # "finally" /\ Fail("error")
    /\ UNCHANGED <<pc, handles, pieces, up, paused, replied, readings, lanes, op, history>>

ReplyLossDriver ==
    \/ Start("startPreparer", {"preparer"}, "starting")
    \/ Observe("awaitPreparer", pc["preparer"] = "armed", TRUE)
    \/ Start("startVictims", Clients, "ready")
    \/ SetFaultProxy \/ Signal("signal", Clients, "signalled")
    \/ Observe("awaitDispatched", \A c \in Clients : pc[c] \in {"dispatched", "leaky"}, TRUE)
    \/ /\ scenario = "replyLoss"
       /\ Observe("awaitArmed", IsEphemeralStateArmed \/ AllAdmitted, IsEphemeralStateArmed)
    \/ KillVictims \/ KillClients("killPreparer", {"preparer"})
    \/ Observe("checkDispatch", TRUE, \A c \in Clients : pc[c] = "killed")
    \/ Start("startVerifier", {"verifier"}, "probing")
    \/ Observe("finishVerifier", Ended({"verifier"}), Finished({"verifier"}))

SessionDrivers ==
    \/ Start("startWorkers", Targets, "arming")
    \/ /\ scenario # "replyLoss"
       /\ Observe("awaitArmed", \A c \in Targets : pc[c] \in {"armed", "failed"}, Armed(Targets))
    \/ StopFitz \/ StartFitz \/ ObserveReadiness
    \/ Observe("finishWorkers", Ended(Targets), Finished(Targets))
    \/ Observe("pressure", PressureQuiescent \/ Settled, PressureQuiescent)
    \/ NextCycle \/ Ledger
    \/ Start("startSaturator", {"saturator"}, "starting")
    \/ Observe("event", TRUE, TRUE)
    \/ Observe("awaitSaturating", pc["saturator"] = "running" /\ progressed # {}, TRUE)
    \/ ProgressBefore \/ KillClients("killHolders", Targets)
    \/ ReadSnapshot \/ CompareSnapshot
    \/ Start("startProbes", Targets, "probing")
    \/ Observe("finishProbes", Ended(Targets), Finished(Targets))
    \/ Observe("progressAfter", LanesLogged, progressed = Domains)
    \/ Signal("stopSaturator", {"saturator"}, "stopping")
    \/ Observe("finishSaturator", Ended({"saturator"}), Finished({"saturator"}))
    \/ (scenario = "saturation" /\ Observe("ledger", TRUE, TRUE))

GracefulDriver ==
    \/ Start("startCall", {"caller"}, "calling")
    \/ Observe("awaitCall", TRUE, TRUE)
    \/ StartCut \/ Observe("awaitDispatchedCut", TRUE, TRUE)
    \/ Observe("finishCall", pc["caller"] # "calling", pc["caller"] = "interrupted")
    \/ Observe("finishCut", \A d \in Domains : op[d] \notin {"sent", "applied"}, TRUE)
    \/ Observe("verifyLedger", TRUE, \A d \in Domains : op[d] # "lost")
    \/ FreshClient("probeCall") \/ FreshClient("canary")

Driver ==
    \/ ReplyLossDriver \/ SessionDrivers \/ GracefulDriver
    \/ ReadBaselines \/ FinallyRestore \/ FinallyStop \/ FinallyFinish \/ Quiesce

Steppers ==
    \/ PreparerReady \/ SaturatorReady \/ CallEnds
    \/ \E d \in Domains : OperationEnds(d)
    \/ \E c \in Clients :
        \/ Arm(c) \/ VictimSends(c) \/ VictimDispatched(c)
        \/ HandlesClose(c) \/ Reconnect(c) \/ HandlesInvalid(c) \/ Connected(c)
        \/ RejectStaleHandles(c) \/ Unsubscribe(c)
    \/ \E r \in Clients \cup {"verifier"} :
        ProbeQueue(r) \/ ProbeReleased(r) \/ ProbeRpc(r) \/ FailedExits(r)

Broker ==
    \/ \E r \in Roles : Notice(r) \/ CleanupDone(r) \/ \E k \in Kinds : Remove(r, k)
    \/ \E c \in Clients, k \in Kinds : Admit(c, k)

(* An error on its way out leaves only the finally block, and the saturator that
   it stops, to matter. *)
Open == outcome = "none" /\ verdict = "none"

Next ==
    \/ outcome = "none" /\ (Driver \/ SaturatorExits)
    \/ Open /\ (Steppers \/ Broker \/ BrokerMisbehaves \/ DeadlinePasses \/ CallThrows)
    \/ Open /\ \E c \in Clients : ReplyArrives(c) \/ ArmRefused(c)
    \/ Open /\ (LogProgress \/ \E d \in Domains : LaneSucceeds(d))

Spec == Init /\ [][Next]_vars

FairSpec ==
    /\ Spec
    /\ WF_vars(outcome = "none" /\ Driver)
    /\ WF_vars(outcome = "none" /\ SaturatorExits)
    /\ WF_vars(Open /\ Steppers)
    /\ WF_vars(Open /\ Broker)
    /\ WF_vars(Open /\ DeadlinePasses)
    /\ WF_vars(Open /\ LogProgress)
    /\ \A d \in Domains : WF_vars(Open /\ LaneSucceeds(d))
-----------------------------------------------------------------------------
(* No check rejects a correct broker, whenever it notices that a session is gone
   and in whichever order it removes what the session had, but for what the
   checks take for granted (raced): that the client library closes the handles
   together ("handles"), that the parts of a snapshot are of one moment ("torn"),
   that the call had not completed before the shutdown ("completed"), that the
   25 ms sampler hits the gap of a restart, that the restart is within its budget
   and that its last sample is answered within a second (complaint).  Each
   excuses its own scenario only. *)
NoFalseAlarm ==
    outcome = "rejected" =>
        \/ misbehaved
        \/ /\ scenario = "storm"
           /\ "handles" \in raced \/ (complaint # "none" /\ Head(todo) = "ledger")
        \/ scenario = "saturation" /\ "torn" \in raced
        \/ scenario = "graceful" /\ "completed" \in raced

(* A run that passes has left no piece that a statistic or a probe can see, no
   uncommitted work that became durable, and no acknowledged operation that was
   lost.  After a torn snapshot the probe may have looked before the broker
   applied the work. *)
AcceptedIsClean ==
    outcome = "passed" =>
        /\ \A r \in Roles : \A k \in Kinds \ {"watch"} : ~Shown(r, k)
        /\ scenario \in {"storm", "saturation"} => applied = {} \/ "torn" \in raced
        /\ \A d \in Domains : op[d] # "lost"

(* In a run that passes every item that a session had reserved came back and was
   completed once: none was lost, in any cycle, and no second copy was in a queue
   when somebody last looked. *)
ItemsReconciled ==
    outcome = "passed" =>
        /\ lost = {} /\ \A c \in Clients : item[c] # "there"
        /\ extra # {} => late

(* A run of the reply loss that passes has cut the victims while the broker held
   all that it can show, and no reply had escaped. *)
CutWhileArmed == outcome = "passed" /\ scenario = "replyLoss" => armedAtCut

(* A storm that passes has seen the readiness drop in every cycle, over a restart
   within its budget that ended ready. *)
RestartsObserved == outcome = "passed" /\ scenario = "storm" => observed = Cycles

(* What a run that passes says of the broker and of its own cut is true: nothing
   visible is left, every item came back once, the victims were cut while they
   were armed, and every restart was observed. *)
AcceptedIsTrue == AcceptedIsClean /\ ItemsReconciled /\ CutWhileArmed /\ RestartsObserved

(* On every path, the replies are still held back only if the restoring call has
   itself failed, and a saturator is left running only if the stop in the
   finally block has failed or the run threw between their start and the try. *)
FaultsAreLifted ==
    outcome # "none" =>
        /\ paused => "proxy" \in unlifted
        /\ \/ pc["saturator"] \in {"none", "done"}
           \/ "saturator" \in unlifted
           \/ Head(todo) \in {"startSaturator", "event"}

(* Every run ends. *)
RunEnds == <>(outcome # "none")
=============================================================================
