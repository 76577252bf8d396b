-------------------------- MODULE ScheduleScenarios --------------------------
(***************************************************************************)
(* The three Schedule scenarios: schedule-delivery, schedule-outage and    *)
(* schedule-due-storm-isolation (orchestration/schedule-*.ts and           *)
(* workloads/schedule-*.ts).                                               *)
(*                                                                         *)
(* Time is a sequence of instants: now is 0 until ten seconds before the   *)
(* first due minute, 1 until that minute, Due during the time that a       *)
(* delivery may take, 3 after it, Again in the second minute of the outage *)
(* and 5 after its drain.  Time passes on its own, whatever the driver,    *)
(* the workers and the restart of Fitz have got done; a correct broker     *)
(* only fires what is due before it passes.                                *)
(*                                                                         *)
(* The driver is the list of steps, todo, that it still has to take.  A    *)
(* failure inside its try block goes through stopSubscribers.  The broker  *)
(* is external and may misbehave once.                                     *)
(***************************************************************************)
EXTENDS Naturals, Sequences, FiniteSets

CONSTANTS
    Subscribers,
    FiresOf,         \* firesPerMode, operations: definitions of a kind, by scenario
    Lanes,           \* concurrency of a worker
    Scenarios,
    MayMisbehave,
    MaxCounted       \* bound: session cleanups that a process of Fitz counts

ASSUME SubscribersAssumption ==
    /\ IsFiniteSet(Subscribers) /\ Subscribers # {}
    /\ Subscribers \cap {"worker", "canceller"} = {}
ASSUME BoundsAssumption ==
    /\ FiresOf \in [{"delivery", "outage", "storm"} -> Nat \ {0}] /\ Lanes \in Nat \ {0}
    /\ MaxCounted \in Nat
ASSUME ScenariosAssumption == Scenarios \subseteq {"delivery", "outage", "storm"}

VARIABLES
    scenario, todo,
    verdict,       \* of a driver that is in its catch block
    outcome,       \* "none", "passed", "rejected", "margin", "timeout"
    now,
    pc,            \* of every container
    create,        \* create requests: "idle", "sent", "acked", "failed"
    left,          \* definitions that the worker has still to cancel
    cancelled,     \* cancellations that were acknowledged
    seen, duplicates, invalid, missed,  \* what a subscriber has counted
    saturated,     \* a subscriber's client has reported handler_saturated
    canary,        \* of the sibling family: "off", "create", "cancel", "stopped"
    evidence,      \* what the storm window has shown: "none", "clean", "disturbed"
    up, defs, subs,
    made,          \* definitions that were created
    fired,         \* occurrences, <<definition, instant>>, that are over
    pending,       \* notifications on their way: <<subscriber, definition, copy>>
    cleanups,      \* session cleanups that the running process has counted
    baseline,      \* its count when the snapshot for quiesce was taken
    astray,        \* history: subscribers left running by a docker command that failed
    misbehaved,    \* history: the broker has misbehaved
    refused,       \* history: definitions whose cancellation was refused
    overran,       \* history: an instant passed that the driver takes for granted
    tardy,         \* history: a notification was handled late by its own client
    delivered,     \* history: notifications handled, by subscriber and definition
    early,         \* history: definitions of the outage handled before its second minute
    unjudged       \* history: definitions of the storm handled after its evidence was read

driverVars == <<scenario, todo, verdict, outcome>>
workerVars == <<create, left, cancelled, canary, evidence>>
ledgerVars == <<seen, duplicates, invalid, missed, saturated, delivered, early, unjudged>>
brokerVars == <<up, defs, subs, made, fired, pending>>
stackVars == <<cleanups, baseline, astray>>
historyVars == <<misbehaved, refused, overran, tardy>>
vars == <<driverVars, now, pc, workerVars, ledgerVars, brokerVars, stackVars, historyVars>>

Due == 2
Again == 4
LastInstant == 5

Roles == Subscribers \cup {"worker", "canceller"}
AnySubscriber == CHOOSE s \in Subscribers : TRUE
Fires == FiresOf[scenario]
Sequences == 0..(Fires - 1)
OfKind(kinds) == kinds \X Sequences
Kinds == [delivery |-> {"broadcast", "single", "cancelled"},
          outage   |-> {"repeated", "race"},
          storm    |-> {"storm"}]
Definitions == OfKind(Kinds[scenario])
Canary == <<"canary", 0>>
AllDefinitions == Definitions \cup {Canary}

(* deliveryMode *)
Broadcast(d) == d[1] \in {"broadcast", "storm"}

(* scheduleCronAt and consecutiveMinuteCronAt: the minutes that a cron names. *)
WholeMinute == {Due}
ConsecutiveMinutes == {Due, Again}

(* The canary is due a minute after the storm, when it is long gone. *)
FireTimes(d) ==
    CASE d[1] = "repeated" -> ConsecutiveMinutes
      [] d[1] = "race" -> {Again}
      [] d[1] = "canary" -> {}
      [] OTHER -> WholeMinute

(* The drivers. *)
DeliverySteps ==
    <<"startSubscribers", "awaitReady", "awaitRegistered", "create", "finishCreate",
      "awaitCreated", "margin", "stop", "start", "awaitRecovered", "margin", "sleepDrained",
      "signal", "finishSubscribers", "cleanup", "finishCleanup", "quiesce">>
OutageSteps ==
    <<"startSubscribers", "awaitReady", "create", "finishCreate", "margin", "sleepStop", "stop",
      "sleepMissed", "start", "checkMissed", "startCanceller", "sleepDrained", "finishCanceller",
      "signal", "finishSubscribers", "cleanup", "finishCleanup", "quiesce">>
StormSteps == <<"startStorm", "awaitArmed", "sleepDrained", "finishStorm", "quiesce">>

Steps == [delivery |-> DeliverySteps, outage |-> OutageSteps, storm |-> StormSteps]

Init ==
    /\ scenario \in Scenarios /\ todo = Steps[scenario]
    /\ verdict = "none" /\ outcome = "none" /\ now = 0
    /\ pc = [r \in Roles |-> "none"]
    /\ create = [d \in AllDefinitions |-> "idle"] /\ left = {} /\ cancelled = {}
    /\ seen = [s \in Subscribers |-> {}] /\ duplicates = {} /\ invalid = {} /\ missed = {}
    /\ canary = "off" /\ evidence = "none"
    /\ up = TRUE /\ defs = {} /\ subs = {} /\ made = {} /\ fired = {} /\ pending = {}
    /\ misbehaved = FALSE /\ refused = {} /\ overran = FALSE /\ tardy = FALSE
    /\ delivered = [p \in Subscribers \X AllDefinitions |-> 0]
    /\ saturated = FALSE /\ early = {} /\ unjudged = {}
    /\ cleanups = 0 /\ baseline = 0 /\ astray = {}
-----------------------------------------------------------------------------
Goes(r, to) == pc' = [pc EXCEPT ![r] = to]
Misbehaves == MayMisbehave /\ ~misbehaved /\ misbehaved' = TRUE

(* A subscriber, or the storm's own subscription: subscribed, and subscribed
   again by its client after a restart. *)
Subscribe(s) ==
    /\ pc[s] \in {"starting", "ready"} /\ up /\ s \notin subs
    /\ subs' = subs \cup {s} /\ Goes(s, "ready")
    /\ UNCHANGED <<driverVars, now, workerVars, ledgerVars, stackVars, up, defs, made, fired,
                   pending, historyVars>>

Valid(n) == n[3] # "corrupt"

(* The handlers check a notification by its time: schedule-delivery and the
   storm against the due minute, the outage not at all. *)
InTime == scenario = "outage" \/ now = Due

(* The handler of the outage throws into its client. *)
InvalidIsCounted == scenario # "outage"

(* A notification is entered into the ledger of its subscriber. *)
Handle(s, n) ==
    /\ n \in pending /\ n[1] = s /\ pc[s] \in {"ready", "stopping"}
    /\ pending' = pending \ {n}
    /\ IF Valid(n) /\ InTime
       THEN /\ seen' = [seen EXCEPT ![s] = @ \cup {n[2]}]
            /\ duplicates' = IF n[2] \in seen[s] THEN duplicates \cup {s} ELSE duplicates
            /\ missed' = IF scenario = "outage" /\ now < Again /\ n[2] \notin seen[s]
                         THEN missed \cup {s} ELSE missed
            /\ UNCHANGED invalid
       ELSE /\ invalid' = IF InvalidIsCounted THEN invalid \cup {s} ELSE invalid
            /\ UNCHANGED <<seen, duplicates, missed>>
    /\ delivered' = IF Valid(n) THEN [delivered EXCEPT ![<<s, n[2]>>] = @ + 1] ELSE delivered
    /\ early' = IF Valid(n) /\ scenario = "outage" /\ now < Again THEN early \cup {n[2]} ELSE early
    /\ unjudged' = IF Valid(n) /\ pc["worker"] = "closing" THEN unjudged \cup {n[2]} ELSE unjudged
    /\ UNCHANGED <<driverVars, now, pc, workerVars, saturated, up, defs, subs, made, fired,
                   stackVars, historyVars>>

(* The client of a subscriber reports that its handlers are all busy; only
   schedule-delivery reads the report. *)
Saturates(s) ==
    /\ scenario = "delivery" /\ pc[s] \in {"ready", "stopping"}
    /\ \E m, n \in pending : m # n /\ m[1] = s /\ n[1] = s
    /\ ~saturated /\ saturated' = TRUE /\ tardy' = TRUE
    /\ UNCHANGED <<driverVars, now, pc, workerVars, seen, duplicates, invalid, missed, delivered,
                   early, unjudged, brokerVars, stackVars, misbehaved, refused, overran>>

(* waitForHandlers: after SIGTERM the handlers drain, or their worker fails. *)
SubscriberEnds(s) ==
    /\ pc[s] = "stopping"
    /\ \/ {n \in pending : n[1] = s} = {} /\ Goes(s, "done") /\ UNCHANGED tardy
       \/ {n \in pending : n[1] = s} # {} /\ Goes(s, "failed") /\ tardy' = TRUE
    /\ UNCHANGED <<driverVars, now, workerVars, ledgerVars, stackVars, brokerVars, misbehaved,
                   overran, refused>>
-----------------------------------------------------------------------------
(* Workers that create definitions. *)

Unsettled(q) == \E d \in Definitions : d[2] = q /\ create[d] # "acked"

(* runConcurrent: at most Lanes sequences at a time, and a lane that has failed
   takes no further one.  The outage creates its definitions one by one. *)
Sendable(d) ==
    /\ create[d] = "idle"
    /\ IF scenario = "outage"
       THEN /\ \A e \in Definitions : e[2] < d[2] => create[e] = "acked"
            /\ d[1] = "race" => create[<<"repeated", d[2]>>] = "acked"
       ELSE Cardinality({q \in Sequences : q < d[2] /\ Unsettled(q)}) < Lanes

(* The other lanes of the storm go on while its finally block runs. *)
Creating == pc["worker"] = "creating" \/ (scenario = "storm" /\ pc["worker"] = "finally")

SendCreate(d) ==
    /\ Creating /\ Sendable(d)
    /\ scenario = "storm" => AnySubscriber \in subs
    /\ create' = [create EXCEPT ![d] = "sent"]
    /\ UNCHANGED <<driverVars, now, pc, left, cancelled, canary, evidence, ledgerVars, stackVars,
                   brokerVars, historyVars>>

(* A request whose answer does not come in time; it may still be carried out. *)
CreateFails(d) ==
    /\ create[d] = "sent" /\ pc["worker"] = "creating" /\ Misbehaves
    /\ create' = [create EXCEPT ![d] = "failed"]
    /\ Goes("worker", IF scenario = "storm" THEN "finally" ELSE "failed")
    /\ left' = IF scenario = "storm" /\ \E e \in Definitions : create[e] = "acked"
               THEN Definitions ELSE {}
    /\ UNCHANGED <<driverVars, now, cancelled, canary, evidence, ledgerVars, stackVars, brokerVars,
                   overran, tardy, refused>>

AllCreated == \A d \in Definitions : create[d] = "acked"

(* After the creation: schedule-delivery cancels a third of its definitions, the
   storm must be armed before the due minute. *)
CreationDone ==
    /\ pc["worker"] = "creating" /\ AllCreated
    /\ CASE scenario = "delivery" -> Goes("worker", "cancelling") /\ left' = OfKind({"cancelled"})
         [] scenario = "outage" -> Goes("worker", "done") /\ UNCHANGED left
         [] scenario = "storm" -> IF now < Due THEN Goes("worker", "armed") /\ UNCHANGED left
                                  ELSE Goes("worker", "finally") /\ left' = Definitions
    /\ overran' = (overran \/ (scenario = "storm" /\ now >= Due))
    /\ UNCHANGED <<driverVars, now, create, cancelled, canary, evidence, ledgerVars, stackVars,
                   brokerVars, misbehaved, tardy, refused>>

(* One cancellation: acknowledged, or refused because the definition is gone or
   by a broker that misbehaves.  The producers fail with it; the storm counts. *)
Cancel(d) ==
    /\ pc["worker"] \in {"cancelling", "cleaning", "cancelStorm", "finally"} /\ d \in left
    /\ left' = left \ {d}
    /\ \/ /\ d \in defs /\ defs' = defs \ {d} /\ cancelled' = cancelled \cup {d}
          /\ UNCHANGED <<pc, misbehaved, refused>>
       \/ /\ \/ d \notin defs /\ UNCHANGED <<misbehaved, refused>>
             \/ d \in defs /\ Misbehaves /\ refused' = refused \cup {d}
          /\ IF scenario = "storm" THEN UNCHANGED pc ELSE Goes("worker", "failed")
          /\ UNCHANGED <<defs, cancelled>>
    /\ UNCHANGED <<driverVars, now, create, canary, evidence, ledgerVars, stackVars, up, subs, made,
                   fired, pending, overran, tardy>>

(* verifyDefinitions, with the count that the worker expects. *)
VerifyDefinitions ==
    /\ scenario = "delivery" /\ pc["worker"] \in {"cancelling", "cleaning"} /\ left = {}
    /\ LET expected == IF pc["worker"] = "cancelling" THEN OfKind({"broadcast", "single"}) ELSE {}
       IN Goes("worker", IF defs = expected THEN "done" ELSE "failed")
    /\ UNCHANGED <<driverVars, now, workerVars, ledgerVars, stackVars, brokerVars, historyVars>>

(* The cleanup of the outage cancels what it has listed and verifies nothing. *)
CleanupDone ==
    /\ scenario = "outage" /\ pc["worker"] = "cleaning" /\ left = {}
    /\ Goes("worker", "done")
    /\ UNCHANGED <<driverVars, now, workerVars, ledgerVars, stackVars, brokerVars, historyVars>>

(* The canceller of the outage: one after the other, from the second minute on;
   both outcomes are recorded. *)
RaceCancel(d) ==
    /\ pc["canceller"] = "running" /\ now >= Again
    /\ d \in OfKind({"race"}) \cap left
    /\ \A e \in OfKind({"race"}) \cap left : d[2] <= e[2]
    /\ left' = left \ {d}
    /\ \/ /\ d \in defs /\ defs' = defs \ {d} /\ cancelled' = cancelled \cup {d}
          /\ UNCHANGED misbehaved
       \/ d \notin defs /\ UNCHANGED <<defs, cancelled, misbehaved>>
       \/ d \in defs /\ Misbehaves /\ UNCHANGED <<defs, cancelled>>
    /\ UNCHANGED <<driverVars, now, pc, create, canary, evidence, ledgerVars, stackVars, up, subs,
                   made, fired, pending, overran, tardy, refused>>

RaceCancelDone ==
    /\ pc["canceller"] = "running" /\ now >= Again /\ left = {}
    /\ Goes("canceller", "done")
    /\ UNCHANGED <<driverVars, now, workerVars, ledgerVars, stackVars, brokerVars, historyVars>>
-----------------------------------------------------------------------------
(* The worker of the storm from the second before the due minute on.  Canaries,
   readiness and deliveries are observed side by side. *)

OpenWindow ==
    /\ pc["worker"] = "armed" /\ now >= 1
    /\ Goes("worker", "window")
    /\ canary' = IF now <= Due THEN "create" ELSE "stopped"
    /\ evidence' = IF now <= Due THEN "clean" ELSE "disturbed"
    /\ overran' = (overran \/ now > Due)
    /\ UNCHANGED <<driverVars, now, create, left, cancelled, ledgerVars, stackVars, brokerVars,
                   misbehaved, tardy, refused>>

(* runSiblingCanaries: it goes on after the window has failed, until the
   sibling is closed. *)
CanaryCreates ==
    /\ canary = "create"
    /\ IF now <= Due THEN canary' = "cancel" /\ defs' = defs \cup {Canary}
                     ELSE canary' = "stopped" /\ UNCHANGED defs
    /\ UNCHANGED <<driverVars, now, pc, create, left, cancelled, evidence, ledgerVars, stackVars,
                   up, subs, made, fired, pending, historyVars>>

CanaryCancels ==
    /\ canary = "cancel"
    /\ canary' = "create" /\ defs' = defs \ {Canary}
    /\ UNCHANGED <<driverVars, now, pc, create, left, cancelled, evidence, ledgerVars, stackVars,
                   up, subs, made, fired, pending, historyVars>>

(* A canary or a readiness check fails: the storm has reached its sibling. *)
SiblingDisturbed ==
    /\ pc["worker"] \in {"window", "post"} /\ Misbehaves
    /\ IF pc["worker"] = "window" THEN evidence' = "disturbed" /\ UNCHANGED <<pc, left>>
                                  ELSE Goes("worker", "finally") /\ left' = Definitions
                                       /\ UNCHANGED evidence
    /\ UNCHANGED <<driverVars, now, create, cancelled, canary, ledgerVars, stackVars, brokerVars,
                   overran, tardy, refused>>

AllSeen == seen[AnySubscriber] = Definitions

(* Mutant: the wait for the deliveries has no deadline. *)
WindowClosesUnbounded ==
    /\ pc["worker"] = "window" /\ now > Due /\ AllSeen /\ canary = "stopped"
    /\ Goes("worker", "post") /\ UNCHANGED left
    /\ UNCHANGED <<driverVars, now, create, cancelled, canary, evidence, ledgerVars, stackVars,
                   brokerVars, historyVars>>

(* Promise.all of the three; withDeadline rejects it while the canaries run. *)
WindowCloses ==
    /\ pc["worker"] = "window" /\ now > Due
    /\ \/ AllSeen /\ canary = "stopped" /\ Goes("worker", "post") /\ UNCHANGED left
       \/ ~AllSeen /\ Goes("worker", "finally") /\ left' = Definitions
    /\ UNCHANGED <<driverVars, now, create, cancelled, canary, evidence, ledgerVars, stackVars,
                   brokerVars, historyVars>>

PostStormCanary ==
    /\ pc["worker"] = "post"
    /\ Goes("worker", "cancelStorm") /\ left' = Definitions
    /\ UNCHANGED <<driverVars, now, create, cancelled, canary, evidence, ledgerVars, stackVars,
                   brokerVars, historyVars>>

(* assertScheduleDueStormEvidence *)
StormEvidence ==
    /\ cancelled = Definitions /\ defs = {} /\ AllSeen
    /\ duplicates = {} /\ invalid = {} /\ evidence = "clean"

StormVerdict ==
    /\ pc["worker"] = "cancelStorm" /\ left = {}
    /\ Goes("worker", IF StormEvidence THEN "closing" ELSE "finally")
    /\ left' = IF cancelled = Definitions THEN {} ELSE Definitions
    /\ UNCHANGED <<driverVars, now, create, cancelled, canary, evidence, ledgerVars, stackVars,
                   brokerVars, historyVars>>

(* Mutant: a run that has failed leaves its definitions to the server. *)
StormFinallySkipped ==
    /\ pc["worker"] \in {"finally", "closing"}
    /\ pc' = [pc EXCEPT !["worker"] = IF @ = "closing" THEN "done" ELSE "failed",
                        ![AnySubscriber] = "done"]
    /\ defs' = defs \ {Canary} /\ subs' = {} /\ canary' = "stopped"
    /\ pc["worker"] = "closing" => left = {}
    /\ UNCHANGED <<driverVars, now, create, left, cancelled, evidence, ledgerVars, stackVars, up,
                   made, fired, pending, historyVars>>

(* The finally block after its cancellations: the canary is cancelled, the
   subscription and the sibling are closed.  A canary that is created in
   between remains. *)
StormFinally ==
    /\ pc["worker"] \in {"finally", "closing"} /\ left = {}
    /\ pc' = [pc EXCEPT !["worker"] = IF @ = "closing" THEN "done" ELSE "failed",
                        ![AnySubscriber] = "done"]
    /\ \/ defs' = defs \ {Canary}
       \/ canary = "create" /\ defs' = defs \cup {Canary}
    /\ subs' = {} /\ canary' = "stopped"
    /\ UNCHANGED <<driverVars, now, create, left, cancelled, evidence, ledgerVars, stackVars, up,
                   made, fired, pending, historyVars>>
-----------------------------------------------------------------------------
(* External: the broker. *)

(* A definition is created and acknowledged, or created after its request has
   been given up. *)
BrokerCreates(d) ==
    /\ create[d] \in {"sent", "failed"} /\ d \notin made /\ up
    /\ made' = made \cup {d} /\ defs' = defs \cup {d}
    /\ create' = [create EXCEPT ![d] = IF @ = "sent" THEN "acked" ELSE @]
    /\ UNCHANGED <<driverVars, now, pc, left, cancelled, canary, evidence, ledgerVars, stackVars,
                   up, subs, fired, pending, historyVars>>

IsDue(d) == up /\ d \in defs /\ now \in FireTimes(d) /\ <<d, now>> \notin fired

(* To every subscriber or to one of them; to nobody if there is none. *)
Fire(d) ==
    /\ IsDue(d)
    /\ fired' = fired \cup {<<d, now>>}
    /\ \E to \in SUBSET subs :
        /\ IF Broadcast(d) \/ subs = {} THEN to = subs ELSE Cardinality(to) = 1
        /\ pending' = pending \cup {<<s, d, "once">> : s \in to}
    /\ UNCHANGED <<driverVars, now, pc, workerVars, ledgerVars, stackVars, up, defs, subs, made,
                   historyVars>>

(* Sessions of containers that have ended are cleaned up and counted, at the
   latest moment that tells: before a restart or a snapshot. *)
CountsCleanup ==
    /\ up /\ cleanups < MaxCounted
    /\ Head(todo) \in {"margin", "quiesce"}
    /\ \E r \in Roles : pc[r] \in {"done", "failed"}
    /\ cleanups' = cleanups + 1
    /\ UNCHANGED <<driverVars, now, pc, workerVars, ledgerVars, baseline, astray, brokerVars,
                   historyVars>>

(* An occurrence is lost, or has a wrong payload; a definition is lost; a
   notification is delivered early, late, again or after a cancellation. *)
BrokerMisbehaves ==
    /\ Misbehaves /\ up /\ verdict = "none"
    /\ \E d \in made :
        \/ IsDue(d) /\ fired' = fired \cup {<<d, now>>} /\ UNCHANGED <<defs, pending>>
        \/ d \in defs /\ defs' = defs \ {d} /\ UNCHANGED <<fired, pending>>
        \/ /\ IsDue(d) /\ fired' = fired \cup {<<d, now>>} /\ UNCHANGED defs
           /\ \E s \in subs : pending' = pending \cup {<<s, d, "corrupt">>}
        \/ \E s \in subs : pending' = pending \cup {<<s, d, "again">>} /\ UNCHANGED <<fired, defs>>
    /\ UNCHANGED <<driverVars, now, pc, workerVars, ledgerVars, stackVars, up, subs, made, overran,
                   tardy, refused>>

MarginAhead == \E n \in DOMAIN todo : todo[n] = "margin"

(* What the outage takes for granted at an instant: that Fitz is down in the
   first minute, and is back with every subscription in the second. *)
Overruns(t) ==
    /\ scenario = "outage" /\ ~MarginAhead
    /\ \/ t = Due /\ up
       \/ t = Again /\ subs # Subscribers

(* A margin that is missed at instant 1 is missed at every later one; once the
   verdict is in, time no longer matters. *)
Tick ==
    /\ now < (IF scenario = "outage" THEN LastInstant ELSE Due + 1) /\ verdict = "none"
    /\ MarginAhead => now = 0
    /\ \A d \in defs : ~IsDue(d)
    /\ now' = now + 1
    /\ overran' = (overran \/ Overruns(now'))
    /\ tardy' = (tardy \/ (pending # {} /\ scenario # "outage"))
    /\ UNCHANGED <<driverVars, pc, workerVars, ledgerVars, stackVars, brokerVars, misbehaved,
                   refused>>
-----------------------------------------------------------------------------
(* The driver. *)

At(step) == outcome = "none" /\ Head(todo) = step
Proceed == todo' = Tail(todo) /\ UNCHANGED <<scenario, verdict, outcome>>

(* Mutant: an error leaves at once. *)
FailAtOnce(why) == outcome' = why /\ UNCHANGED <<scenario, todo, verdict>>

(* The catch block, while the subscribers have been started and not finished. *)
Fail(why) ==
    IF \E n \in DOMAIN todo : todo[n] = "finishSubscribers"
    THEN /\ verdict' = why /\ todo' = <<"stopSubscribers", "awaitStopped">>
         /\ UNCHANGED <<scenario, outcome>>
    ELSE outcome' = why /\ UNCHANGED <<scenario, todo, verdict>>

Check(accepted, why) == IF accepted THEN Proceed ELSE Fail(why)
Ended(roles) == \A r \in roles : pc[r] \in {"done", "failed"}
Finished(roles) == \A r \in roles : pc[r] = "done"

Start(step, roles, state, work) ==
    /\ At(step) /\ Proceed
    /\ pc' = [r \in Roles |-> IF r \in roles THEN state[r] ELSE pc[r]]
    /\ left' = work
    /\ UNCHANGED <<now, create, cancelled, canary, evidence, ledgerVars, stackVars, brokerVars,
                   historyVars>>

(* A wait that only observes. *)
Observe(step, condition, accepted) ==
    /\ At(step) /\ condition /\ Check(accepted, "rejected")
    /\ UNCHANGED <<now, pc, workerVars, ledgerVars, stackVars, brokerVars, historyVars>>

(* Mutant: only the definitions are waited for. *)
WaitForSchedulesOnly(step, expected) ==
    /\ At(step)
    /\ Check(Cardinality(defs) = expected, "timeout")
    /\ UNCHANGED <<now, pc, workerVars, ledgerVars, stackVars, brokerVars, historyVars>>

(* waitForScheduleCounts: both counts at once, or its deadline. *)
WaitForScheduleCounts(step, expected) ==
    /\ At(step)
    /\ Check(Cardinality(defs) = expected /\ subs = Subscribers, "timeout")
    /\ UNCHANGED <<now, pc, workerVars, ledgerVars, stackVars, brokerVars, historyVars>>

(* assertRestartMargin, and in schedule-delivery the snapshot that follows its
   last one; the ten seconds before the stop of the outage. *)
Margin ==
    /\ At("margin") /\ Check(now = 0, "margin")
    /\ baseline' = IF scenario = "delivery" /\ ~MarginAhead' THEN cleanups ELSE baseline
    /\ UNCHANGED <<now, pc, workerVars, ledgerVars, cleanups, astray, brokerVars, historyVars>>

(* stopFitz: the sessions end, the definitions stay. *)
StopFitz ==
    /\ At("stop") /\ Proceed
    /\ up' = FALSE /\ subs' = {}
    /\ UNCHANGED <<now, pc, workerVars, ledgerVars, stackVars, defs, made, fired, pending,
                   historyVars>>

(* restartFitz: a new process, whose counters start from zero. *)
RestartFitz ==
    /\ At("start") /\ Proceed
    /\ up' = TRUE /\ cleanups' = 0
    /\ UNCHANGED <<now, pc, workerVars, ledgerVars, baseline, astray, defs, subs, made, fired,
                   pending, historyVars>>

Told(s) == pc[s] \notin {"starting", "ready"}

(* signalRoleContainers: the subscribers unsubscribe. *)
SignalSubscribers(step) ==
    /\ At(step) /\ Proceed
    /\ pc' = [r \in Roles |-> IF r \in Subscribers /\ pc[r] \in {"starting", "ready"}
                              THEN "stopping" ELSE pc[r]]
    /\ subs' = {}
    /\ UNCHANGED <<now, workerVars, ledgerVars, stackVars, up, defs, made, fired, pending,
                   historyVars>>

(* docker kill fails for some of them, which is ignored.  Where the fleet was to
   be judged, its finish can then only reach the deadline: one step here. *)
SignalMisses(step) ==
    /\ At(step)
    /\ \E reached \in SUBSET Subscribers :
        /\ reached # Subscribers
        /\ pc' = [r \in Roles |-> IF r \in reached /\ pc[r] \in {"starting", "ready"}
                                  THEN "stopping" ELSE pc[r]]
        /\ subs' = subs \ reached /\ astray' = Subscribers \ reached
    /\ IF step = "signal" THEN Fail("timeout") ELSE Proceed
    /\ UNCHANGED <<now, workerVars, ledgerVars, cleanups, baseline, up, defs, made, fired, pending,
                   historyVars>>

(* startRoleContainers, before the try block, fails after some of the containers. *)
StartFails ==
    /\ At("startSubscribers")
    /\ \E started \in SUBSET Subscribers :
        /\ pc' = [r \in Roles |-> IF r \in started THEN "starting" ELSE pc[r]]
        /\ astray' = started
    /\ outcome' = "timeout"
    /\ UNCHANGED <<scenario, todo, verdict, now, workerVars, ledgerVars, cleanups, baseline,
                   brokerVars, historyVars>>

(* Mutant: a Single delivery is looked for at each subscriber alone. *)
DeliveryAcceptedPerSubscriber ==
    /\ duplicates = {} /\ invalid = {} /\ ~saturated
    /\ \A s \in Subscribers : seen[s] \ OfKind({"single"}) = OfKind({"broadcast"})
    /\ \A d \in OfKind({"single"}) : \E s \in Subscribers : d \in seen[s]

(* How many subscribers of the fleet have logged d. *)
FleetCount(d) == Cardinality({s \in Subscribers : d \in seen[s]})

(* assertScheduleDelivery *)
DeliveryAccepted ==
    /\ duplicates = {} /\ invalid = {} /\ ~saturated
    /\ \A s \in Subscribers : seen[s] \ OfKind({"single"}) = OfKind({"broadcast"})
    /\ \A d \in OfKind({"single"}) : FleetCount(d) = 1

(* analyzeScheduleOutage and assertScheduleOutage *)
OutageAccepted ==
    /\ missed = {} /\ duplicates = {}
    /\ \A d \in OfKind({"repeated"}) : FleetCount(d) = 1
    /\ \A d \in OfKind({"race"}) : FleetCount(d) <= 1

Accepted == IF scenario = "delivery" THEN DeliveryAccepted ELSE OutageAccepted

(* isLiveDomainQuiescent, and cleanupDelta against the snapshot of the scenario. *)
Quiescent == defs = {} /\ subs = {}
NoneLost == cleanups >= baseline

(* waitForLiveDomainQuiescence, the last step.  A broker that has misbehaved may
   have counted that as a failure: assertNoDomainFailures. *)
Quiesce ==
    /\ At("quiesce")
    /\ \/ Quiescent /\ NoneLost /\ outcome' = "passed"
       \/ (~Quiescent \/ ~NoneLost \/ misbehaved) /\ outcome' = "rejected"
    /\ UNCHANGED <<scenario, todo, verdict, now, pc, workerVars, ledgerVars, stackVars, brokerVars,
                   historyVars>>

(* The end of the catch block: the finish of the subscribers has ended, by its
   deadline or by a failure too, which is swallowed. *)
Rethrow ==
    /\ At("awaitStopped")
    /\ outcome' = verdict
    /\ UNCHANGED <<scenario, todo, verdict, now, pc, workerVars, ledgerVars, stackVars, brokerVars,
                   historyVars>>

(* A wait for containers reaches its deadline for no fault of the broker. *)
DeadlinePasses ==
    /\ outcome = "none"
    /\ Head(todo) \in {"awaitReady", "finishCreate", "finishCanceller", "finishSubscribers",
                       "finishCleanup", "awaitArmed", "finishStorm"}
    /\ Fail("timeout")
    /\ UNCHANGED <<now, pc, workerVars, ledgerVars, stackVars, brokerVars, historyVars>>

(* schedule_due_storm_armed has been logged. *)
Armed == pc["worker"] = "armed" \/ evidence # "none"

Starting(roles) == [r \in roles |-> "starting"]
Worker(state) == [r \in {"worker"} |-> state]

Driver ==
    \/ Start("startSubscribers", Subscribers, Starting(Subscribers), {})
    \/ Observe("awaitReady", \A s \in Subscribers : pc[s] = "ready", TRUE)
    \/ WaitForScheduleCounts("awaitRegistered", 0)
    \/ Start("create", {"worker"}, Worker("creating"), {})
    \/ Observe("finishCreate", Ended({"worker"}), Finished({"worker"}))
    \/ WaitForScheduleCounts("awaitCreated", 2 * Fires)
    \/ Margin \/ StopFitz \/ RestartFitz
    \/ WaitForScheduleCounts("awaitRecovered", 2 * Fires)
    \/ Observe("sleepStop", now >= 1, TRUE)
    \/ Observe("sleepMissed", now > Due, TRUE)
    \/ Observe("checkMissed", TRUE, missed = {})
    \/ Start("startCanceller", {"canceller"}, [r \in {"canceller"} |-> "running"], OfKind({"race"}))
    \/ Observe("sleepDrained", now >= IF scenario = "outage" THEN LastInstant ELSE Due + 1, TRUE)
    \/ Observe("finishCanceller", Ended({"canceller"}), TRUE)
    \/ SignalSubscribers("signal") \/ SignalSubscribers("stopSubscribers")
    \/ Observe("finishSubscribers", Ended(Subscribers), Finished(Subscribers) /\ Accepted)
    \/ Start("cleanup", {"worker"}, Worker("cleaning"),
             IF scenario = "delivery" THEN OfKind({"broadcast", "single"}) ELSE defs)
    \/ Observe("finishCleanup", Ended({"worker"}), Finished({"worker"}))
    \/ Start("startStorm", {"worker", AnySubscriber},
             [r \in {"worker", AnySubscriber} |-> IF r = "worker" THEN "creating" ELSE "ready"], {})
    \/ Observe("awaitArmed", Armed \/ Ended({"worker"}), Armed)
    \/ Observe("finishStorm", Ended({"worker"}), Finished({"worker"}))
    \/ Quiesce \/ Rethrow

Clients ==
    \/ \E s \in Subscribers : Subscribe(s) \/ SubscriberEnds(s) \/ \E n \in pending : Handle(s, n)
    \/ \E d \in Definitions : SendCreate(d) \/ Cancel(d) \/ RaceCancel(d)
    \/ CreationDone \/ VerifyDefinitions \/ CleanupDone \/ RaceCancelDone
    \/ OpenWindow \/ CanaryCreates \/ CanaryCancels \/ WindowCloses \/ PostStormCanary
    \/ StormVerdict \/ StormFinally

Broker == \E d \in Definitions : BrokerCreates(d) \/ Fire(d)

Next ==
    /\ outcome = "none"
    /\ \/ Driver \/ Clients \/ Broker \/ Tick \/ DeadlinePasses
       \/ BrokerMisbehaves \/ SiblingDisturbed \/ \E d \in Definitions : CreateFails(d)
       \/ CountsCleanup \/ \E s \in Subscribers : Saturates(s)
       \/ StartFails \/ SignalMisses("signal") \/ SignalMisses("stopSubscribers")

Spec == Init /\ [][Next]_vars

FairSpec ==
    /\ Spec
    /\ WF_vars(outcome = "none" /\ Driver)
    /\ WF_vars(outcome = "none" /\ Clients)
    /\ WF_vars(outcome = "none" /\ Broker)
    /\ WF_vars(outcome = "none" /\ Tick)
-----------------------------------------------------------------------------
(* No correct broker is rejected: a restart with all its waits, the creation of
   definitions side by side and the race of a cancellation with its fire are
   never taken for a fault, nor are the counters of a new process compared with
   those of the one before.  The exceptions are instants that the driver takes
   for granted (overran) and clients that are late or saturated by themselves
   (tardy).  schedule-delivery takes no instant for granted: its margins and its
   waits for both counts leave it with every subscription in place at the due
   minute. *)
NoFalseAlarm == outcome = "rejected" => misbehaved \/ overran \/ tardy

(* The notifications of d that were handled in the fleet were exactly one. *)
OnceInTheFleet(d) ==
    \E s \in Subscribers : \A t \in Subscribers :
        delivered[<<t, d>>] = IF t = s THEN 1 ELSE 0

(* What a run that passes has delivered, whatever the broker did.
   schedule-delivery: Broadcast to every subscriber once, Single to one, nothing
   that was cancelled before.  schedule-outage: the repeated occurrence once, the
   raced one at most once, and nothing before the second minute: the missed one
   never.  The storm: every definition exactly once, except one that was
   delivered again after the evidence was read and before the worker
   unsubscribed (unjudged): no check counts that, although the README says that
   every due definition must fire exactly once. *)
AcceptedIsExact ==
    outcome = "passed" =>
        CASE scenario = "delivery" ->
                /\ \A s \in Subscribers, d \in OfKind({"broadcast"}) : delivered[<<s, d>>] = 1
                /\ \A s \in Subscribers, d \in OfKind({"cancelled"}) : delivered[<<s, d>>] = 0
                /\ \A d \in OfKind({"single"}) : OnceInTheFleet(d)
          [] scenario = "outage" ->
                /\ \A d \in OfKind({"repeated"}) : OnceInTheFleet(d)
                /\ \A d \in OfKind({"race"}), s, t \in Subscribers :
                    delivered[<<s, d>>] + (IF s = t THEN 0 ELSE delivered[<<t, d>>]) <= 1
                /\ early = {}
          [] scenario = "storm" ->
                \A d \in Definitions : delivered[<<AnySubscriber, d>>] = 1 \/ d \in unjudged

(* However a run ends, by a verdict, a deadline or a failing command, every
   subscriber that was started has been told to stop, except one that a docker
   command has failed to start properly or to signal. *)
SubscribersAreTold ==
    outcome # "none" /\ scenario # "storm" => \A s \in Subscribers : Told(s) \/ s \in astray

(* A storm worker that has ended has taken its definitions back, also when its
   deliveries were incomplete, unless a request failed: a create that was
   carried out after the finally block, or a cancellation. *)
StormCleansUp ==
    scenario = "storm" /\ Ended({"worker"}) =>
        \/ defs \cap Definitions = {}
        \/ \E d \in Definitions : create[d] = "failed" \/ d \in refused

(* However a run ends, its subscribers have been told to stop and the definitions
   of a storm taken back, except where the very call for it has failed. *)
NothingIsLeft == SubscribersAreTold /\ StormCleansUp

(* Every run ends, also one whose occurrences never come. *)
RunEnds == <>(outcome # "none")
=============================================================================
