--------------------------- MODULE DurabilityCuts ---------------------------
(***************************************************************************)
(* The durability-crash-cuts and storage-faults scenarios                  *)
(* (orchestration/durability-crash-cuts.ts, orchestration/storage-faults.ts*)
(* and workloads/durability-crash-cuts.ts).  The driver acknowledges a     *)
(* baseline, then in every iteration lets a writer start one operation per *)
(* domain, cuts the broker or its storage path at the place the identity   *)
(* of the iteration names, lifts the fault and collects the writer's log.  *)
(* In the end a verifier reads everything back, and the ledger of logs is  *)
(* judged: an acknowledged operation must be there, once; an interrupted   *)
(* one may be.                                                             *)
(*                                                                         *)
(* The broker (Fitz) and its storage (Sqrzl) are external.  A correct      *)
(* broker acknowledges an operation after its storage has it; a storage    *)
(* write that was on its way when the broker died may land at any later    *)
(* time, or never.  Misbehaviours adds what the ledger is there to detect. *)
(* A client library that makes one attempt per operation is assumed.       *)
(***************************************************************************)
EXTENDS Naturals, Sequences, FiniteSets

CONSTANT Campaigns   \* the configurations that a run starts from

(* domains: of Queue, KV, Stream, Schedule; iterations and seed: of the
   configuration; misbehaviours: what the broker does wrong; harnessMayFail:
   docker commands, artifact writes and time-outs may throw. *)
ASSUME CampaignsAssumption ==
    \A c \in Campaigns :
        /\ c.scenario \in {"crash-cuts", "storage-faults"}
        /\ c.iterations \in Nat /\ c.seed \in Nat
        /\ c.misbehaviours \subseteq {"early-ack", "lose", "duplicate"}
        /\ c.harnessMayFail \in BOOLEAN

VARIABLES
    \* the driver
    campaign,      \* the configuration
    iter,          \* the current iteration, which is also its sequence number
    todo,          \* steps left of the current iteration
    sqrzlPaused,   \* the flag of runCrashCutIteration
    started,       \* ledger: operations that the logs say were started
    acknowledged,  \* ledger: operations that the logs say were acknowledged
    observed,      \* how often the verifier saw each operation
    outcome,       \* "none", "passed", "rejected" (by the ledger), "threw"
    \* the writer
    writer,        \* "none", "connecting", "ready", "running", "exited"
    gated,         \* started with DESTROYER_WAIT_FOR_START_SIGNAL
    released,      \* SIGUSR1 has resolved the start gate
    op,            \* the operation of each domain
    \* the broker and its storage (external)
    broker,        \* "up", "down"
    provider,      \* Sqrzl: "running", "paused"; "stuck": paused, and a docker
                   \* compose unpause of it has failed
    link,          \* the fault of the storage proxy
    memory,        \* requests the broker holds
    inflight,      \* storage writes sent and not yet applied
    stored,        \* what the storage has
    visible,       \* what the broker serves
    doubled,       \* what the broker serves twice
    replied        \* operations whose acknowledgement reached a client

driverVars == <<campaign, iter, todo, sqrzlPaused, started, acknowledged, observed, outcome>>
writerVars == <<writer, gated, released, op>>
brokerVars == <<broker, provider, link, memory, inflight, stored, visible, doubled, replied>>
vars == <<driverVars, writerVars, brokerVars>>

Domains == campaign.domains
Iterations == campaign.iterations
Scenario == campaign.scenario
Misbehaviours == campaign.misbehaviours

SequenceNumbers == 0..Iterations
Ops == Domains \X SequenceNumbers
-----------------------------------------------------------------------------
CrashCutIdentities == <<"request-dispatch", "blocked-provider-access", "provider-recovery",
                        "broker-kill", "acknowledgement", "restart-with-storage-inflight">>
StorageFaultIdentities == <<"bounded-latency", "connection-reset", "provider-partition",
                            "restored-provider", "fitz-crash-inflight">>

(* crashCutPlan and storageFaultPlan.  The storage fault "provider-recovery"
   is called restored-provider here to tell it from the crash cut. *)
CrashCutPlan(index) == CrashCutIdentities[((campaign.seed + index) % Len(CrashCutIdentities)) + 1]
StorageFaultPlan(index) == StorageFaultIdentities[(index % Len(StorageFaultIdentities)) + 1]
IdentityOf(n) == IF Scenario = "crash-cuts" THEN CrashCutPlan(n - 1) ELSE StorageFaultPlan(n - 1)
Identity == IdentityOf(iter)

When(condition, steps) == IF condition THEN steps ELSE <<>>

PausesProvider(cut) ==
    cut \in {"blocked-provider-access", "provider-recovery", "restart-with-storage-inflight"}

(* Mutant: the provider is unpaused after the broker's restart. *)
CrashCutStepsUnpauseLast(cut) ==
    When(PausesProvider(cut), <<"pauseSqrzl">>)
    \o <<"startGated", "awaitReady", "signal">>
    \o When(cut # "request-dispatch", <<"awaitDispatched">>)
    \o When(cut = "provider-recovery", <<"unpauseSqrzl">>)
    \o When(cut = "acknowledgement", <<"awaitAcknowledged">>)
    \o <<"killFitz", "restartFitz">>
    \o When(PausesProvider(cut) /\ cut # "provider-recovery", <<"unpauseSqrzl">>)
    \o <<"finishWriter">>

(* runCrashCutIteration, in the order of its awaits. *)
CrashCutSteps(cut) ==
    When(PausesProvider(cut), <<"pauseSqrzl">>)
    \o <<"startGated", "awaitReady", "signal">>
    \o When(cut # "request-dispatch", <<"awaitDispatched">>)
    \o When(cut = "provider-recovery", <<"unpauseSqrzl">>)
    \o When(cut = "acknowledgement", <<"awaitAcknowledged">>)
    \o <<"killFitz">>
    \o When(PausesProvider(cut) /\ cut # "provider-recovery", <<"unpauseSqrzl">>)
    \o <<"restartFitz", "finishWriter">>

WaitForGate(fault) == fault \notin {"bounded-latency", "restored-provider"}

(* Mutant: the fault is set after the writer is signalled. *)
StorageFaultStepsSignalFirst(fault) ==
    <<"healthy">>
    \o When(fault = "bounded-latency", <<"latency">>)
    \o When(~WaitForGate(fault), <<"startUngated">>)
    \o When(WaitForGate(fault),
            <<"startGated", "awaitReady", "signal",
              IF fault = "connection-reset" THEN "reset" ELSE "partition",
              "awaitDispatched">>)
    \o When(fault \in {"connection-reset", "provider-partition"}, <<"healthy">>)
    \o When(fault = "fitz-crash-inflight", <<"killFitz", "healthy", "restartFitz">>)
    \o <<"finishWriter", "healthy", "ensureReady">>

(* runStorageFaultIteration, in the order of its awaits. *)
StorageFaultSteps(fault) ==
    <<"healthy">>
    \o When(fault = "bounded-latency", <<"latency">>)
    \o When(~WaitForGate(fault), <<"startUngated">>)
    \o When(WaitForGate(fault),
            <<"startGated", "awaitReady",
              IF fault = "connection-reset" THEN "reset" ELSE "partition",
              "signal", "awaitDispatched">>)
    \o When(fault \in {"connection-reset", "provider-partition"}, <<"healthy">>)
    \o When(fault = "fitz-crash-inflight", <<"killFitz", "healthy", "restartFitz">>)
    \o <<"finishWriter", "healthy", "ensureReady">>

IterationSteps(identity) ==
    IF Scenario = "crash-cuts" THEN CrashCutSteps(identity) ELSE StorageFaultSteps(identity)

BaselineSteps == When(Scenario = "storage-faults", <<"healthy">>) \o <<"startUngated", "finishWriter">>

VerifySteps == When(Scenario = "storage-faults", <<"healthy", "ensureReady">>) \o <<"verify", "judge">>

Init ==
    /\ campaign \in Campaigns
    /\ iter = 0
    /\ todo = BaselineSteps
    /\ sqrzlPaused = FALSE
    /\ started = {} /\ acknowledged = {}
    /\ observed = [x \in Ops |-> 0]
    /\ outcome = "none"
    /\ writer = "none" /\ gated = FALSE /\ released = FALSE
    /\ op = [d \in Domains |-> "idle"]
    /\ broker = "up" /\ provider = "running" /\ link = "healthy"
    /\ memory = {} /\ inflight = {} /\ stored = {} /\ visible = {} /\ doubled = {}
    /\ replied = {}
-----------------------------------------------------------------------------
(* The writer: worker.ts and runDurabilityCrashCut. *)

(* All operations are started, and the dispatch is logged, in one turn of the
   event loop. *)
StartOperations ==
    /\ writer' = "running"
    /\ op' = [d \in Domains |-> "started"]

(* connectWhenReady succeeds once the broker is up. *)
WriterConnects ==
    /\ writer = "connecting"
    /\ broker = "up"
    /\ \/ gated /\ writer' = "ready" /\ UNCHANGED op
       \/ ~gated /\ StartOperations
    /\ UNCHANGED <<driverVars, gated, released, brokerVars>>

WriterReleased ==
    /\ writer = "ready"
    /\ released
    /\ StartOperations
    /\ UNCHANGED <<driverVars, gated, released, brokerVars>>

(* An operation fails: its signal aborts it, or its connection is lost.  It
   may still take effect. *)
OperationFails(d) ==
    /\ op[d] \in {"started", "sent"}
    /\ op' = [op EXCEPT ![d] = "failed"]
    /\ UNCHANGED <<driverVars, writer, gated, released, brokerVars>>

(* Promise.all has every outcome. *)
WriterExits ==
    /\ writer = "running"
    /\ \A d \in Domains : op[d] \in {"acked", "failed"}
    /\ writer' = "exited"
    /\ UNCHANGED <<driverVars, gated, released, op, brokerVars>>
-----------------------------------------------------------------------------
(* External: the broker and its storage. *)

Request(d) == <<d, iter>>

BrokerReceives(d) ==
    /\ op[d] = "started"
    /\ broker = "up"
    /\ op' = [op EXCEPT ![d] = "sent"]
    /\ memory' = memory \cup {Request(d)}
    /\ UNCHANGED <<driverVars, writer, gated, released, broker, provider, link, inflight,
                   stored, visible, doubled, replied>>

BrokerPersists(x) ==
    /\ x \in memory \ (inflight \cup stored)
    /\ link \notin {"reset", "partition"}
    /\ inflight' = inflight \cup {x}
    /\ UNCHANGED <<driverVars, writerVars, broker, provider, link, memory, stored, visible,
                   doubled, replied>>

(* A write lands; the broker that sent it, if it still lives, serves it. *)
StorageApplies(x) ==
    /\ x \in inflight
    /\ provider = "running"
    /\ inflight' = inflight \ {x}
    /\ stored' = stored \cup {x}
    /\ visible' = IF x \in memory THEN visible \cup {x} ELSE visible
    /\ UNCHANGED <<driverVars, writerVars, broker, provider, link, memory, doubled, replied>>

StorageWriteLost(x) ==
    /\ x \in inflight
    /\ broker = "down" \/ link \in {"reset", "partition"}
    /\ inflight' = inflight \ {x}
    /\ UNCHANGED <<driverVars, writerVars, broker, provider, link, memory, stored, visible,
                   doubled, replied>>

BrokerAcknowledges(d) ==
    /\ op[d] = "sent"
    /\ Request(d) \in memory
    /\ Request(d) \in visible \/ "early-ack" \in Misbehaviours
    /\ op' = [op EXCEPT ![d] = "acked"]
    /\ replied' = replied \cup {Request(d)}
    /\ UNCHANGED <<driverVars, writer, gated, released, broker, provider, link, memory,
                   inflight, stored, visible, doubled>>

(* The broker hydrates from the storage. *)
BrokerRecovers ==
    /\ broker' = "up"
    /\ \E lost \in IF "lose" \in Misbehaviours THEN SUBSET stored ELSE {{}} :
          /\ stored' = stored \ lost
          /\ visible' = stored \ lost
    /\ \E twice \in IF "duplicate" \in Misbehaviours THEN SUBSET visible' ELSE {{}} :
          doubled' = twice
-----------------------------------------------------------------------------
(* The driver. *)

At(step) == outcome = "none" /\ todo # <<>> /\ Head(todo) = step
Done == todo' = Tail(todo)

(* Mutant: no finally clause. *)
ThrowWithoutFinally ==
    /\ outcome' = "threw"
    /\ UNCHANGED <<campaign, iter, todo, sqrzlPaused, started, acknowledged, observed, writerVars,
                   brokerVars>>

(* What unpauseSqrzl leaves: its docker command is allowed to fail, and a
   failure looks like success to the caller. *)
Unpaused == IF campaign.harnessMayFail THEN {"running", "stuck"} ELSE {"running"}

(* An await throws; the finally clause of runCrashCutIteration unpauses Sqrzl
   when its flag says so, and swallows what goes wrong with that.  A pause may
   have taken effect before it threw.  (A throw after the effect of another
   step looks like a throw of the step behind it.) *)
Throw ==
    /\ outcome' = "threw"
    /\ provider' \in IF sqrzlPaused THEN Unpaused
                     ELSE IF Head(todo) = "pauseSqrzl" THEN {"running", "paused"}
                     ELSE {provider}
    /\ UNCHANGED <<campaign, iter, todo, sqrzlPaused, started, acknowledged, observed, writerVars,
                   broker, link, memory, inflight, stored, visible, doubled, replied>>

StepThrows ==
    /\ campaign.harnessMayFail
    /\ outcome = "none" /\ todo # <<>>
    /\ Throw

(* The loop over the plan, and what follows it. *)
NextIteration ==
    /\ outcome = "none" /\ todo = <<>>
    /\ \/ /\ iter < Iterations
          /\ iter' = iter + 1
          /\ todo' = IterationSteps(IdentityOf(iter + 1))
       \/ /\ iter = Iterations
          /\ todo' = VerifySteps
          /\ UNCHANGED iter
    /\ UNCHANGED <<campaign, sqrzlPaused, started, acknowledged, observed, outcome, writerVars,
                   brokerVars>>

PauseSqrzl ==
    /\ At("pauseSqrzl")
    /\ provider' = "paused"
    /\ sqrzlPaused' = TRUE
    /\ Done
    /\ UNCHANGED <<campaign, iter, started, acknowledged, observed, outcome, writerVars, broker,
                   link, memory, inflight, stored, visible, doubled, replied>>

UnpauseSqrzl ==
    /\ At("unpauseSqrzl")
    /\ provider' \in Unpaused
    /\ sqrzlPaused' = FALSE
    /\ Done
    /\ UNCHANGED <<campaign, iter, started, acknowledged, observed, outcome, writerVars, broker,
                   link, memory, inflight, stored, visible, doubled, replied>>

(* stack.setFaultProxy("storage-proxy", ...) *)
SetFaultProxy ==
    /\ \E mode \in {"healthy", "latency", "reset", "partition"} : At(mode) /\ link' = mode
    /\ Done
    /\ UNCHANGED <<campaign, iter, sqrzlPaused, started, acknowledged, observed, outcome,
                   writerVars, broker, provider, memory, inflight, stored, visible, doubled,
                   replied>>

StartWriter ==
    /\ At("startGated") \/ At("startUngated")
    /\ writer' = "connecting"
    /\ gated' = At("startGated")
    /\ released' = FALSE
    /\ op' = [d \in Domains |-> "idle"]
    /\ Done
    /\ UNCHANGED <<campaign, iter, sqrzlPaused, started, acknowledged, observed, outcome, brokerVars>>

Dispatched == \A d \in Domains : op[d] # "idle"
SomeAcked == \E d \in Domains : op[d] = "acked"

(* What waitForRoleEvent waits for is in the log. *)
Logged(step) ==
    \/ step = "awaitReady" /\ writer \in {"ready", "running", "exited"}
    \/ step = "awaitDispatched" /\ Dispatched
    \/ step = "awaitAcknowledged" /\ SomeAcked

(* waitForRoleEvent: the event is logged, or the writer has exited without. *)
AwaitEvent(step) ==
    /\ At(step)
    /\ \/ /\ Logged(step)
          /\ Done
          /\ UNCHANGED <<campaign, iter, sqrzlPaused, started, acknowledged, observed, outcome,
                         writerVars, brokerVars>>
       \/ /\ ~Logged(step) /\ writer = "exited"
          /\ Throw

(* signalRoleContainers(cut, "SIGUSR1") *)
Signal ==
    /\ At("signal")
    /\ released' = TRUE
    /\ Done
    /\ UNCHANGED <<campaign, iter, sqrzlPaused, started, acknowledged, observed, outcome, writer,
                   gated, op, brokerVars>>

KillFitz ==
    /\ At("killFitz")
    /\ broker' = "down"
    /\ memory' = {}
    /\ Done
    /\ UNCHANGED <<campaign, iter, sqrzlPaused, started, acknowledged, observed, outcome, writerVars,
                   provider, link, inflight, stored, visible, doubled, replied>>

(* restartFitz waits until the broker is ready, for which it needs its storage. *)
RestartFitz ==
    /\ At("restartFitz")
    /\ provider = "running" /\ link \in {"healthy", "latency"}
    /\ BrokerRecovers
    /\ Done
    /\ UNCHANGED <<campaign, iter, sqrzlPaused, started, acknowledged, observed, outcome, writerVars,
                   provider, link, memory, inflight, replied>>

(* waitReady: behind an unpause that failed, the broker is not ready by the
   deadline. *)
RestartTimesOut ==
    /\ At("restartFitz")
    /\ provider = "stuck"
    /\ Throw

EnsureReady ==
    /\ At("ensureReady")
    /\ broker = "up"
    /\ Done
    /\ UNCHANGED <<campaign, iter, sqrzlPaused, started, acknowledged, observed, outcome, writerVars,
                   brokerVars>>

(* finishRoleContainers: the writer exits with an error when a baseline was
   not acknowledged; otherwise its whole log goes into the ledger. *)
FinishWriter ==
    /\ At("finishWriter")
    /\ writer = "exited"
    /\ \/ /\ iter = 0 /\ \E d \in Domains : op[d] # "acked"
          /\ Throw
       \/ /\ iter > 0 \/ \A d \in Domains : op[d] = "acked"
          /\ started' = started \cup {Request(d) : d \in {e \in Domains : op[e] # "idle"}}
          /\ acknowledged' = acknowledged \cup {Request(d) : d \in {e \in Domains : op[e] = "acked"}}
          /\ writer' = "none"
          /\ Done
          /\ UNCHANGED <<campaign, iter, sqrzlPaused, observed, outcome, gated, released, op, brokerVars>>

(* The verifier reads every domain back.  Writes of an earlier broker that
   landed after the restart may or may not be seen. *)
Verify ==
    /\ At("verify")
    /\ broker = "up"
    /\ \E late \in SUBSET (stored \ visible) :
          observed' = [x \in Ops |-> IF x \in doubled THEN 2
                                     ELSE IF x \in visible \cup late THEN 1 ELSE 0]
    /\ Done
    /\ UNCHANGED <<campaign, iter, sqrzlPaused, started, acknowledged, outcome, writerVars, brokerVars>>

(* analyzeDurabilityLedger *)
NoDuplicates == \A x \in Ops : observed[x] <= 1

(* Mutant: the ledger takes the operations of the baseline for granted. *)
LedgerAcceptsSkippingBaseline ==
    /\ NoDuplicates
    /\ Ops \subseteq started
    /\ \A x \in acknowledged : x[2] > 0 => observed[x] > 0
    /\ \A x \in Ops : observed[x] > 0 => x \in started

(* Mutant: an operation that was started must be there. *)
LedgerAcceptsStartedOnly ==
    /\ NoDuplicates
    /\ Ops \subseteq started
    /\ \A x \in started : observed[x] > 0

(* analyzeDurabilityLedger and assertDurabilityLedger. *)
LedgerAccepts ==
    /\ NoDuplicates
    /\ Ops \subseteq started
    /\ \A d \in Domains : <<d, 0>> \in acknowledged
    /\ \A x \in acknowledged : observed[x] > 0
    /\ \A x \in Ops : observed[x] > 0 => x \in started

Judge ==
    /\ At("judge")
    /\ outcome' = IF LedgerAccepts THEN "passed" ELSE "rejected"
    /\ Done
    /\ UNCHANGED <<campaign, iter, sqrzlPaused, started, acknowledged, observed, writerVars, brokerVars>>

Driver ==
    \/ NextIteration
    \/ PauseSqrzl \/ UnpauseSqrzl \/ SetFaultProxy
    \/ StartWriter \/ Signal \/ FinishWriter
    \/ \E step \in {"awaitReady", "awaitDispatched", "awaitAcknowledged"} : AwaitEvent(step)
    \/ KillFitz \/ RestartFitz \/ RestartTimesOut \/ EnsureReady
    \/ Verify \/ Judge

Writer ==
    \/ WriterConnects \/ WriterReleased \/ WriterExits
    \/ \E d \in Domains : OperationFails(d)

Broker ==
    \/ \E d \in Domains : BrokerReceives(d) \/ BrokerAcknowledges(d)
    \/ \E x \in Ops : BrokerPersists(x) \/ StorageApplies(x) \/ StorageWriteLost(x)

Next == Driver \/ StepThrows \/ Writer \/ Broker

Spec == Init /\ [][Next]_vars

(* The driver goes on when it can; a writer connects when it can, and every
   operation of it ends, at the latest when its abort signal fires. *)
FairSpec == Spec /\ WF_vars(Driver) /\ WF_vars(Writer)
-----------------------------------------------------------------------------
(* The ledger never rejects a correct broker, whatever the cut interrupts and
   whenever interrupted storage writes land. *)
NoFalseAlarm == Misbehaviours = {} => outcome # "rejected"

(* A run passes only when every acknowledgement that ever reached a writer is
   in the storage that the last broker recovered from, and served once. *)
AcceptedIsDurable ==
    outcome = "passed" => replied \subseteq stored /\ replied \cap doubled = {}

(* The fault that an identity names is in force. *)
InForce(identity) ==
    /\ PausesProvider(identity) => provider = "paused"
    /\ identity = "bounded-latency" => link = "latency"
    /\ identity = "connection-reset" => link = "reset"
    /\ identity \in {"provider-partition", "fitz-crash-inflight"} => link = "partition"

(* The cuts hit what they are named after: operations start under the fault,
   the acknowledgement cut kills the broker after an acknowledgement, and a
   kill with the provider blocked comes before any. *)
CutsMeetOperations ==
    [][/\ iter > 0 /\ outcome = "none" /\ ~Dispatched /\ Dispatched' => InForce(Identity)
       /\ broker = "up" /\ broker' = "down" /\ Misbehaviours = {} =>
            /\ Identity = "acknowledgement" => SomeAcked
            /\ InForce(Identity) /\ provider = "paused" => ~SomeAcked]_vars

(* The verdict is about the restored system: every fault is lifted when the
   verifier reads, also when a docker compose unpause has failed unnoticed (the
   run does not get that far).  A run that throws has tried to unpause Sqrzl,
   unless the pause itself is what threw. *)
FaultsAreLifted ==
    /\ At("verify") => provider = "running" /\ link = "healthy" /\ broker = "up"
    /\ outcome = "threw" /\ provider = "paused" => Head(todo) = "pauseSqrzl"

(* No step waits for something that only a later step brings about: with a
   harness that does not fail, every run ends. *)
RunEnds == <>(outcome # "none")
=============================================================================
