--------------------------- MODULE QueueScenarios ---------------------------
(***************************************************************************)
(* The four Queue scenarios: queue-overload-recovery, queue-redelivery,    *)
(* queue-lifecycle and queue-dead-letter-fencing (orchestration/queue-*.ts *)
(* and workloads/queue-*.ts).                                              *)
(*                                                                         *)
(* The driver is the list of steps, todo, that it still has to take.       *)
(* Producers, the client that is killed or goes away with a reservation    *)
(* (the victim) and the drainers are containers with a program counter     *)
(* each.  The broker is external: it admits, leases, redelivers and        *)
(* settles items, and may misbehave once.  A request that timed out may    *)
(* still be admitted at any later time.  Leases are "short" (1 s, which    *)
(* the clients outwait) or long enough never to expire in a run.           *)
(***************************************************************************)
EXTENDS Naturals, Sequences, FiniteSets

CONSTANTS
    Producers,
    Drainers,        \* drainers, or consumers of the lifecycle
    Operations,      \* items of a producer
    Wave,            \* items of a producer of the overload, and of its probe
    Partial,         \* the first batch of the lifecycle (4 in the code)
    Scenarios,
    MayMisbehave

ASSUME ProducersAssumption ==
    IsFiniteSet(Producers) /\ Producers # {} /\ Producers \cap {"probe", "victim", "none"} = {}
ASSUME DrainersAssumption ==
    /\ IsFiniteSet(Drainers) /\ Drainers # {}
    /\ Drainers \cap (Producers \cup {"probe", "victim", "none"}) = {}
ASSUME BoundsAssumption ==
    /\ Operations \in Nat /\ Partial \in Nat /\ 2 <= Partial /\ Partial < Operations
    /\ Wave \in 1..Operations
ASSUME ScenariosAssumption == Scenarios \subseteq {"overload", "redelivery", "lifecycle", "fencing"}

VARIABLES
    scenario, todo,
    outcome,       \* "none", "passed", "rejected", "timeout"
    pc,            \* of every client
    op,            \* enqueues: "idle", "sent", "acked", "failed"
    batch,         \* reservations of a client: pairs of an item and its token
    polls,         \* emptyPolls
    visiting,      \* queues that a drainer has still to empty
    item,          \* "absent", "ready", "leased", "done", "lost"
    holder, token, \* of the last reservation of an item
    short,         \* items whose lease lasts one second
    partitioned,   \* the storage path is cut
    misbehaved,    \* history: the broker has misbehaved
    retained,      \* the broker never notices that the victim is gone
    settled,       \* who completed an item, in order: the reports of the clients
    stale,         \* history: a token that had expired was honoured
    hasty          \* history: a time limit of a client was shorter than a correct broker took

driverVars == <<scenario, todo, outcome>>
clientVars == <<pc, op, batch, polls, visiting>>
brokerVars == <<item, holder, token, short, partitioned, misbehaved, retained, settled, stale,
                hasty>>
vars == <<driverVars, clientVars, brokerVars>>

Queues == Producers \cup {"probe"}
Items == Queues \X (0..(Operations - 1))
Participants == Queues \cup Drainers \cup {"victim"}
Size == IF scenario = "overload" THEN Wave ELSE Operations
ItemsOf(p) == {i \in Items : i[1] = p /\ i[2] < Size}
First == CHOOSE p \in Producers : TRUE

(* The drivers. *)
OverloadSteps ==
    <<"startProducers", "partition", "signal", "awaitFailure", "healthy", "finishProducers",
      "startDrain", "finishDrain", "startProbe", "finishProbe", "startProbeDrain",
      "finishProbeDrain">>
RedeliverySteps ==
    <<"startProducer", "finishProducer", "startVictim", "awaitReserved", "killVictim",
      "startDrainers", "finishDrainers">>
LifecycleSteps ==
    <<"startProducer", "finishProducer", "startVictim", "finishVictim", "startDrainers",
      "finishConsumers", "quiesce">>
FencingSteps == <<"startProducer", "finishProducer", "listDeadLetters", "mutations">>

Steps == [overload |-> OverloadSteps, redelivery |-> RedeliverySteps,
          lifecycle |-> LifecycleSteps, fencing |-> FencingSteps]

Init ==
    /\ scenario \in Scenarios /\ todo = Steps[scenario] /\ outcome = "none"
    /\ pc = [p \in Participants |-> "none"]
    /\ op = [i \in Items |-> "idle"]
    /\ batch = [p \in Participants |-> {}]
    /\ polls = [p \in Participants |-> 0] /\ visiting = [p \in Participants |-> {}]
    /\ item = [i \in Items |-> "absent"] /\ holder = [i \in Items |-> "none"]
    /\ token = [i \in Items |-> 0] /\ short = {} /\ partitioned = FALSE
    /\ misbehaved = FALSE /\ retained = FALSE
    /\ settled = [i \in Items |-> <<>>] /\ stale = FALSE /\ hasty = FALSE
-----------------------------------------------------------------------------
(* What the broker does with a reservation and with a completion. *)

Ready(queues) == {i \in Items : i[1] \in queues /\ item[i] = "ready"}

(* reserve: a full batch of up to size items, in any order. *)
Reserve(p, queues, size, lease, chosen) ==
    /\ chosen \subseteq Ready(queues)
    /\ Cardinality(chosen) = IF Cardinality(Ready(queues)) < size
                             THEN Cardinality(Ready(queues)) ELSE size
    /\ item' = [i \in Items |-> IF i \in chosen THEN "leased" ELSE item[i]]
    /\ holder' = [i \in Items |-> IF i \in chosen THEN p ELSE holder[i]]
    /\ token' = [i \in Items |-> IF i \in chosen THEN token[i] + 1 ELSE token[i]]
    /\ short' = IF lease = "short" THEN short \cup chosen ELSE short \ chosen
    /\ batch' = [batch EXCEPT ![p] = @ \cup {<<i, token[i] + 1>> : i \in chosen}]

(* A completion is honoured for the token of the running lease. *)
Current(r) == item[r[1]] = "leased" /\ token[r[1]] = r[2]

Settle(p, r) ==
    /\ item' = [item EXCEPT ![r[1]] = "done"]
    /\ settled' = [settled EXCEPT ![r[1]] = Append(@, p)]
    /\ batch' = [batch EXCEPT ![p] = @ \ {r}]

(* The sequences that a client has put into its report. *)
Seen(p) == {i \in Items : \E n \in DOMAIN settled[i] : settled[i][n] = p}

Goes(p, to) == pc' = [pc EXCEPT ![p] = to]
Misbehaves == MayMisbehave /\ ~misbehaved /\ misbehaved' = TRUE
-----------------------------------------------------------------------------
(* Producers. *)

(* What a producer may send now: concurrently, or one after the other in the
   lifecycle, where the backlog follows the first batch. *)
Sendable(p) ==
    IF scenario = "lifecycle"
    THEN {i \in ItemsOf(p) :
            /\ \A j \in ItemsOf(p) : op[j] # "sent"
            /\ pc[p] = "tail" \/ (pc[p] = "running" /\ i[2] < Partial)}
    ELSE {i \in ItemsOf(p) : pc[p] = "running" /\ scenario # "fencing"}

Enqueue(p) ==
    \E i \in Sendable(p) :
        /\ op[i] = "idle" /\ \A j \in Sendable(p) : op[j] = "idle" => i[2] <= j[2]
        /\ op' = [op EXCEPT ![i] = "sent"]
        /\ UNCHANGED <<driverVars, pc, batch, polls, visiting, brokerVars>>

EnqueueAcked(i) ==
    /\ op[i] = "sent" /\ item[i] # "absent"
    /\ op' = [op EXCEPT ![i] = "acked"]
    /\ UNCHANGED <<driverVars, pc, batch, polls, visiting, brokerVars>>

(* Mutant: a request that times out is not reported. *)
EnqueueFailsSilently(i) ==
    /\ op[i] = "sent" /\ scenario = "overload" /\ i[1] # "probe"
    /\ UNCHANGED vars

(* The operation signal of 1 s, while the storage is cut or just after. *)
EnqueueFails(i) ==
    /\ op[i] = "sent" /\ scenario = "overload" /\ i[1] # "probe"
    /\ op' = [op EXCEPT ![i] = "failed"]
    /\ UNCHANGED <<driverVars, pc, batch, polls, visiting, brokerVars>>

ProducerDone(p) ==
    /\ pc[p] \in (IF scenario = "lifecycle" THEN {"tail"} ELSE {"running"}) /\ p \in Queues
    /\ \A i \in ItemsOf(p) : op[i] \in {"acked", "failed"}
    /\ Goes(p, "done")
    /\ UNCHANGED <<driverVars, op, batch, polls, visiting, brokerVars>>
-----------------------------------------------------------------------------
(* The producer of the lifecycle between its first batch and the backlog. *)

ReserveFirst(p) ==
    /\ scenario = "lifecycle" /\ pc[p] = "running"
    /\ \A i \in ItemsOf(p) : i[2] < Partial => op[i] = "acked"
    /\ \E chosen \in SUBSET Ready({p}) :
        /\ Reserve(p, {p}, Partial, "short", chosen)
        /\ Goes(p, IF Cardinality(chosen) = Partial THEN "half" ELSE "failed")
    /\ UNCHANGED <<driverVars, op, polls, visiting, partitioned, misbehaved, retained,
                   settled, stale, hasty>>

(* Half of the batch is completed in time, or the run has failed. *)
CompleteHalf(p) ==
    /\ pc[p] = "half"
    /\ \E r \in batch[p] :
        \/ /\ Current(r) /\ Settle(p, r)
           /\ Goes(p, IF Cardinality(Seen(p)) + 1 = Partial \div 2 THEN "sleep" ELSE "half")
           /\ UNCHANGED hasty
        \/ /\ ~Current(r) /\ Goes(p, "failed") /\ hasty' = TRUE
           /\ UNCHANGED <<item, settled, batch>>
    /\ UNCHANGED <<driverVars, op, polls, visiting, holder, token, short, partitioned, misbehaved,
                   retained, stale>>

(* After 1250 ms the leases of the rest have expired; exactly the rest comes
   back. *)
ReserveAgain(p) ==
    /\ pc[p] = "sleep" /\ \A r \in batch[p] : ~Current(r)
    /\ \E chosen \in SUBSET Ready({p}) :
        /\ Reserve(p, {p}, Partial, "long", chosen)
        /\ Goes(p, IF chosen = {r[1] : r \in batch[p]} THEN "rest" ELSE "failed")
    /\ UNCHANGED <<driverVars, op, polls, visiting, partitioned, misbehaved, retained,
                   settled, stale, hasty>>

CompleteRest(p) ==
    /\ pc[p] = "rest"
    /\ \/ \E r \in batch[p] :
            /\ Current(r) /\ Settle(p, r)
            /\ UNCHANGED pc
       \/ /\ \A r \in batch[p] : ~Current(r)
          /\ Goes(p, "tail")
          /\ UNCHANGED <<item, settled, batch>>
    /\ UNCHANGED <<driverVars, op, polls, visiting, holder, token, short, partitioned, misbehaved,
                   retained, stale, hasty>>
-----------------------------------------------------------------------------
(* The victim: it is killed with its reservations, or goes away. *)

VictimReserves ==
    /\ pc["victim"] = "running"
    /\ \E chosen \in SUBSET Ready(Producers) :
        LET requested == IF scenario = "redelivery" THEN (Operations + 1) \div 2 ELSE 1 IN
        /\ Reserve("victim", Producers, requested, "long", chosen)
        /\ Goes("victim", IF Cardinality(chosen) = requested THEN "reserved" ELSE "failed")
    /\ UNCHANGED <<driverVars, op, polls, visiting, partitioned, misbehaved, retained,
                   settled, stale, hasty>>

AbandonerExits ==
    /\ scenario = "lifecycle" /\ pc["victim"] = "reserved"
    /\ Goes("victim", "done")
    /\ UNCHANGED <<driverVars, op, batch, polls, visiting, brokerVars>>

Taken == {r[1] : r \in batch["victim"]}
-----------------------------------------------------------------------------
(* Drainers and consumers. *)

BatchSize == IF scenario = "lifecycle" THEN 1 ELSE Cardinality(Items)

(* A drainer takes its queues one at a time. *)
Visited(d) == {CHOOSE q \in visiting[d] : TRUE}

DrainerReserves(d) ==
    /\ pc[d] = "draining" /\ batch[d] = {} /\ Ready(Visited(d)) # {}
    /\ \E chosen \in SUBSET Ready(Visited(d)) :
        Reserve(d, Visited(d), BatchSize, "long", chosen)
    /\ polls' = [polls EXCEPT ![d] = 0]
    /\ UNCHANGED <<driverVars, pc, op, visiting, partitioned, misbehaved, retained, settled,
                   stale, hasty>>

(* A drainer that sees a sequence twice throws; a consumer reports both. *)
ThrowsOnDuplicate(d, i) == scenario # "lifecycle" /\ i \in Seen(d)

DrainerCompletes(d) ==
    /\ pc[d] = "draining"
    /\ \E r \in batch[d] :
        IF ~ThrowsOnDuplicate(d, r[1]) /\ Current(r)
        THEN Settle(d, r) /\ UNCHANGED pc
        ELSE Goes(d, "failed") /\ UNCHANGED <<item, settled, batch>>
    /\ UNCHANGED <<driverVars, op, polls, visiting, holder, token, short, partitioned, misbehaved,
                   retained, stale, hasty>>

MaxPolls == IF scenario = "lifecycle" THEN 2 ELSE 3

VictimNoticed == retained \/ \A i \in Items : ~(item[i] = "leased" /\ holder[i] = "victim")

(* Mutant: a drainer of the redelivery gives up like one of the overload. *)
IdleEnoughSoon == TRUE

(* The 20 s without an item of the redelivery are more than it takes to notice
   that the victim was killed. *)
IdleEnough == scenario = "redelivery" => VictimNoticed

PollEmpty(d) ==
    /\ pc[d] = "draining" /\ batch[d] = {} /\ Ready(Visited(d)) = {}
    /\ IdleEnough
    /\ polls' = [polls EXCEPT ![d] = (@ + 1) % MaxPolls]
    /\ IF polls[d] + 1 < MaxPolls THEN UNCHANGED <<pc, visiting, hasty>>
       ELSE /\ visiting' = [visiting EXCEPT ![d] = @ \ Visited(d)]
            /\ pc' = IF visiting'[d] = {} THEN [pc EXCEPT ![d] = "done"] ELSE pc
            /\ hasty' = (hasty \/ (scenario = "lifecycle" /\ ~VictimNoticed))
    /\ UNCHANGED <<driverVars, op, batch, item, holder, token, short, partitioned, misbehaved,
                   retained, settled, stale>>
-----------------------------------------------------------------------------
(* The client of the fencing scenario: a body that is too large, then one item
   that is reserved, expires, is reserved again and completed with both
   tokens.  Every error of the first enqueue and of the stale completion is
   taken for the refusal. *)

Probe == <<First, 0>>

FenceOversized ==
    /\ scenario = "fencing" /\ pc[First] = "running"
    /\ \/ Goes(First, "admitted") /\ UNCHANGED misbehaved
       \/ Goes(First, "failed") /\ Misbehaves
    /\ UNCHANGED <<driverVars, op, batch, polls, visiting, item, holder, token, short,
                   partitioned, retained, settled, stale, hasty>>

FenceEnqueue ==
    /\ pc[First] = "admitted"
    /\ Goes(First, "enqueued")
    /\ op' = [op EXCEPT ![Probe] = "acked"] /\ item' = [item EXCEPT ![Probe] = "ready"]
    /\ UNCHANGED <<driverVars, batch, polls, visiting, holder, token, short, partitioned,
                   misbehaved, retained, settled, stale, hasty>>

(* The two reservations; the second one is repeated until the lease of the
   first has expired. *)
FenceReserve ==
    /\ pc[First] \in {"enqueued", "held"}
    /\ \/ /\ item[Probe] = "ready"
          /\ Reserve(First, {First}, 1, IF pc[First] = "enqueued" THEN "short" ELSE "long", {Probe})
          /\ Goes(First, IF pc[First] = "enqueued" THEN "held" ELSE "twice")
       \/ /\ item[Probe] = "lost"
          /\ Goes(First, "failed")
          /\ UNCHANGED <<item, holder, token, short, batch>>
    /\ UNCHANGED <<driverVars, op, polls, visiting, partitioned, misbehaved, retained, settled,
                   stale, hasty>>

(* Refused; or honoured, and the answer tells so or is lost. *)
FenceStale ==
    /\ pc[First] = "twice"
    /\ \/ /\ Goes(First, "fenced")
          /\ UNCHANGED <<item, settled, batch, misbehaved, stale>>
       \/ /\ Misbehaves /\ stale' = TRUE
          /\ Settle(First, <<Probe, 1>>)
          /\ Goes(First, "failed") \/ Goes(First, "fenced")
    /\ UNCHANGED <<driverVars, op, polls, visiting, holder, token, short, partitioned, retained,
                   hasty>>

FenceCurrent ==
    /\ pc[First] = "fenced"
    /\ IF Current(<<Probe, 2>>) THEN Settle(First, <<Probe, 2>>) /\ Goes(First, "done")
       ELSE Goes(First, "failed") /\ UNCHANGED <<item, settled, batch>>
    /\ UNCHANGED <<driverVars, op, polls, visiting, holder, token, short, partitioned, misbehaved,
                   retained, stale, hasty>>
-----------------------------------------------------------------------------
(* External: the broker. *)

BrokerAdmits(i) ==
    /\ op[i] \in {"sent", "failed"} /\ item[i] = "absent" /\ ~partitioned
    /\ item' = [item EXCEPT ![i] = "ready"]
    /\ UNCHANGED <<driverVars, clientVars, holder, token, short, partitioned, misbehaved, retained,
                   settled, stale, hasty>>

LeaseExpires(i) ==
    /\ i \in short /\ item[i] = "leased"
    /\ item' = [item EXCEPT ![i] = "ready"] /\ short' = short \ {i}
    /\ UNCHANGED <<driverVars, clientVars, holder, token, partitioned, misbehaved, retained,
                   settled, stale, hasty>>

(* The session of a client that was killed or has left is noticed. *)
BrokerNotices(p) ==
    /\ pc[p] \in {"killed", "done"} /\ ~retained
    /\ \E i \in Items : item[i] = "leased" /\ holder[i] = p
    /\ item' = [i \in Items |-> IF item[i] = "leased" /\ holder[i] = p THEN "ready" ELSE item[i]]
    /\ UNCHANGED <<driverVars, clientVars, holder, token, short, partitioned, misbehaved, retained,
                   settled, stale, hasty>>

(* An item is lost, or is there again after it was completed; what the victim
   had is kept for good. *)
BrokerMisbehaves ==
    /\ Misbehaves
    /\ \/ \E i \in Items :
            /\ \/ item[i] = "ready" /\ item' = [item EXCEPT ![i] = "lost"]
               \/ item[i] = "done" /\ item' = [item EXCEPT ![i] = "ready"]
            /\ UNCHANGED retained
       \/ pc["victim"] = "reserved" /\ retained' = TRUE /\ UNCHANGED item
    /\ UNCHANGED <<driverVars, clientVars, holder, token, short, partitioned, settled, stale,
                   hasty>>
-----------------------------------------------------------------------------
(* The driver. *)

At(step) == outcome = "none" /\ Head(todo) = step
Done == todo' = Tail(todo)
Verdict(accepted) == outcome' = IF accepted THEN "none" ELSE "rejected"
Last(accepted) == outcome' = IF accepted THEN "passed" ELSE "rejected"
Ended(roles) == \A p \in roles : pc[p] \in {"done", "failed"}
Finished(roles) == \A p \in roles : pc[p] = "done"

Start(step, roles, state, queues) ==
    /\ At(step) /\ Done
    /\ pc' = [p \in Participants |-> IF p \in roles THEN state ELSE pc[p]]
    /\ visiting' = [p \in Participants |-> IF p \in roles THEN queues ELSE visiting[p]]
    /\ UNCHANGED <<scenario, outcome, op, batch, polls, brokerVars>>

SetFaultProxy(step, cut) ==
    /\ At(step) /\ Done
    /\ partitioned' = cut
    /\ UNCHANGED <<scenario, outcome, clientVars, item, holder, token, short, misbehaved, retained,
                   settled, stale, hasty>>

FailureObserved == {p \in Producers : \E i \in ItemsOf(p) : op[i] = "failed"}
VictimReserved == {p \in {"victim"} : pc[p] = "reserved"}

(* A wait for an event that all of the roles have to log. *)
Await(step, roles, logged) ==
    /\ At(step) /\ \A p \in roles \ logged : pc[p] = "failed"
    /\ Done /\ Verdict(roles \subseteq logged)
    /\ UNCHANGED <<scenario, clientVars, brokerVars>>

KillVictim ==
    /\ At("killVictim") /\ Done
    /\ Goes("victim", "killed")
    /\ UNCHANGED <<scenario, outcome, op, batch, polls, visiting, brokerVars>>

(* finishRoleContainers, with what the driver then asks of the reports. *)
Finish(step, roles, accepted) ==
    /\ At(step) /\ Ended(roles) /\ Done
    /\ Verdict(Finished(roles) /\ accepted)
    /\ UNCHANGED <<scenario, clientVars, brokerVars>>

FinishLast(step, roles, accepted) ==
    /\ At(step) /\ Ended(roles)
    /\ Last(Finished(roles) /\ accepted)
    /\ UNCHANGED <<scenario, todo, clientVars, brokerVars>>

(* Mutant: what was acknowledged need not come back. *)
OverloadReconciledUnstarted(producers, observed) ==
    \A i \in observed : i[2] < Size

(* assertQueueOverloadReconciled *)
OverloadReconciled(producers, observed) ==
    /\ \A p \in producers : \A i \in ItemsOf(p) : op[i] = "acked" => i \in observed
    /\ \A i \in observed : i[1] \in producers /\ i[2] < Size

(* assertQueueRedelivery: no duplicate among the drainers, nothing lost. *)
RedeliveryAccepted ==
    /\ \A d, e \in Drainers : d # e => Seen(d) \cap Seen(e) = {}
    /\ UNION {Seen(d) : d \in Drainers} = ItemsOf(First)
    /\ Taken \subseteq UNION {Seen(d) : d \in Drainers}

(* assertQueueLifecycle: every sequence once, the abandoned one by a consumer,
   and no consumer without one. *)
LifecycleReconciled ==
    /\ \A i \in ItemsOf(First) : Len(settled[i]) = 1
    /\ Taken \subseteq UNION {Seen(d) : d \in Drainers}

LifecycleAccepted == LifecycleReconciled /\ \A d \in Drainers : Seen(d) # {}

DeadLetters(step, last) ==
    /\ At(step)
    /\ \/ /\ UNCHANGED misbehaved
          /\ IF last THEN Last(TRUE) /\ UNCHANGED todo ELSE Done /\ UNCHANGED outcome
       \/ Misbehaves /\ outcome' = "rejected" /\ UNCHANGED todo
    /\ UNCHANGED <<scenario, clientVars, item, holder, token, short, partitioned, retained,
                   settled, stale, hasty>>

(* waitForPressureQuiescence, once it has returned or given up *)
Quiescent == \A i \in Items : item[i] \notin {"ready", "leased"}

OneDrainer == {CHOOSE d \in Drainers : TRUE}
AnyFailed == \E i \in Items : op[i] = "failed"
AllProbesAcked == \A i \in ItemsOf("probe") : op[i] = "acked"
SeenByOne == UNION {Seen(d) : d \in OneDrainer}

(* A wait reaches its deadline for no fault of the broker. *)
DeadlinePasses ==
    /\ outcome = "none"
    /\ Head(todo) \in {"awaitFailure", "finishProducers", "finishDrain", "finishProbe",
                       "finishProbeDrain", "finishProducer", "awaitReserved", "finishVictim",
                       "finishDrainers", "finishConsumers"}
    /\ outcome' = "timeout"
    /\ UNCHANGED <<scenario, todo, clientVars, brokerVars>>

OverloadDriver ==
    \/ Start("startProducers", Producers, "ready", {})
    \/ SetFaultProxy("partition", TRUE) \/ SetFaultProxy("healthy", FALSE)
    \/ Start("signal", Producers, "running", {})
    \/ Await("awaitFailure", Producers, FailureObserved)
    \/ Finish("finishProducers", Producers, AnyFailed)
    \/ Start("startDrain", OneDrainer, "draining", Producers)
    \/ Finish("finishDrain", OneDrainer, OverloadReconciled(Producers, SeenByOne))
    \/ Start("startProbe", {"probe"}, "running", {})
    \/ Finish("finishProbe", {"probe"}, AllProbesAcked)
    \/ Start("startProbeDrain", OneDrainer, "draining", {"probe"})
    \/ FinishLast("finishProbeDrain", OneDrainer,
                  OverloadReconciled({"probe"}, SeenByOne \cap ItemsOf("probe")))

OtherDrivers ==
    \/ Start("startProducer", {First}, "running", {})
    \/ Finish("finishProducer", {First}, TRUE)
    \/ Start("startVictim", {"victim"}, "running", {})
    \/ Await("awaitReserved", {"victim"}, VictimReserved)
    \/ KillVictim \/ Finish("finishVictim", {"victim"}, TRUE)
    \/ Start("startDrainers", Drainers, "draining", {First})
    \/ FinishLast("finishDrainers", Drainers, RedeliveryAccepted)
    \/ Finish("finishConsumers", Drainers, LifecycleAccepted)
    \/ FinishLast("quiesce", {}, Quiescent)
    \/ DeadLetters("listDeadLetters", FALSE) \/ DeadLetters("mutations", TRUE)

Clients ==
    \/ \E p \in Queues :
        \/ Enqueue(p) \/ ProducerDone(p)
        \/ ReserveFirst(p) \/ CompleteHalf(p) \/ ReserveAgain(p) \/ CompleteRest(p)
    \/ \E i \in Items : EnqueueAcked(i) \/ EnqueueFails(i)
    \/ VictimReserves \/ AbandonerExits
    \/ \E d \in Drainers : DrainerReserves(d) \/ DrainerCompletes(d) \/ PollEmpty(d)
    \/ FenceOversized \/ FenceEnqueue \/ FenceReserve \/ FenceStale \/ FenceCurrent

Broker ==
    \/ \E i \in Items : BrokerAdmits(i) \/ LeaseExpires(i)
    \/ \E p \in Participants : BrokerNotices(p)

Driver == OverloadDriver \/ OtherDrivers
Next == outcome = "none" /\ (Driver \/ Clients \/ Broker \/ BrokerMisbehaves \/ DeadlinePasses)

Spec == Init /\ [][Next]_vars

FairSpec ==
    /\ Spec
    /\ WF_vars(outcome = "none" /\ Driver)
    /\ WF_vars(outcome = "none" /\ Clients)
    /\ WF_vars(outcome = "none" /\ Broker)
-----------------------------------------------------------------------------
(* The one demand of assertQueueLifecycle that no broker can promise is what
   rejected the run: the consumers have ended well, everything else that is
   asked of their reports is so, and one of them came too late for an item. *)
OneGotNothing ==
    /\ scenario = "lifecycle" /\ todo = <<"quiesce">>
    /\ Finished(Drainers) /\ LifecycleReconciled
    /\ \E d \in Drainers : Seen(d) = {}

(* No correct broker is rejected, whenever it admits a request that had timed
   out and however late it notices that a client is gone.  The exceptions are
   time limits of the lifecycle (hasty: the 1 s lease ran out before half of
   the batch was completed, or the consumers gave up after two empty polls
   before the abandoner was noticed) and its demand that every consumer gets
   an item, where nothing else was wrong. *)
NoFalseAlarm == outcome = "rejected" => misbehaved \/ hasty \/ OneGotNothing

(* A run that passes has completed every acknowledged item exactly once, and no
   expired token was honoured, whatever the broker did. *)
AcceptedIsExact ==
    outcome = "passed" =>
        /\ \A i \in Items : op[i] = "acked" => Len(settled[i]) = 1
        /\ ~stale

(* "requires the killed client's entire reservation set to reappear exactly
   once" (README.md): in a run that passes another client has completed it. *)
VictimsItemsReappear ==
    outcome = "passed" /\ scenario \in {"redelivery", "lifecycle"} =>
        /\ Taken # {}
        /\ \A i \in Taken : \E d \in Drainers : settled[i] = <<d>>

(* A run that the ledgers of the drivers let pass has completed every
   acknowledged item once, those of the killed or departed client by another,
   and no stale token was honoured, whatever the broker did. *)
AcceptedIsTrue == AcceptedIsExact /\ VictimsItemsReappear

(* The storage path is restored before anything is asked of the broker again,
   and every run ends: an enqueue during the outage, a drain and a wait for a
   redelivery are bounded. *)
RunEnds == <>(outcome # "none")
=============================================================================
