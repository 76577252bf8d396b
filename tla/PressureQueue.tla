---------------------------- MODULE PressureQueue ----------------------------
(***************************************************************************)
(* The Queue part of domain-pressure and soak: the loop of one bombarding  *)
(* client (worker.ts, bombard and domainLoop), the reconciler that drains  *)
(* its queue afterwards (workloads/pressure.ts), and the reconciliation of *)
(* the two ledgers (pressure.ts, reconcileQueueOutcomes).                  *)
(*                                                                         *)
(* Every request of the client may have an unknown outcome: a time-out, a  *)
(* lost connection or the abort at shutdown.  Such a request may take      *)
(* effect at any later moment until the client's session is closed, or     *)
(* never.  The broker is external: a queue whose items are leased for      *)
(* LeaseSeconds.  It may also misbehave, once per item: lose an item that  *)
(* is ready, deliver a completed one again, or keep one it refused.        *)
(***************************************************************************)
EXTENDS Naturals, FiniteSets

CONSTANTS
    MaxOps,        \* bound: operations of the client before it is stopped
    LeaseSeconds,  \* the lease of the client's reservations
    EmptyPolls     \* empty polls after which the reconciler stops

ASSUME MaxOpsAssumption == MaxOps \in Nat
ASSUME LeaseAssumption == LeaseSeconds \in Nat \ {0} /\ EmptyPolls \in Nat \ {0}
(* A reservation of the client (leaseSeconds: 2) ends within the empty polls of
   the reconciler (three, with waitSeconds: 1). *)
ASSUME DrainAssumption == LeaseSeconds <= EmptyPolls

SequenceNumbers == 0..(MaxOps - 1)
None == MaxOps

VARIABLES
    \* the client
    counter,        \* of domainLoop: the next sequence
    at,             \* the await the client is at
    item,           \* the sequence it has reserved
    held,           \* the lease of that reservation has not expired
    stopping,       \* shutdown.signal has aborted
    acknowledged, ambiguousEnqueues, failedEnqueues,
    completed, ambiguousCompletions,   \* how often each sequence was pushed
    stageFailed,    \* some stage has counted a definite failure
    \* the reconciler and the driver
    emptyPolls,     \* of the reconciler
    batch,          \* items it has reserved and not yet completed
    observed,
    outcome,        \* "none", "passed", "errors", "rejected"
    \* the broker
    ready,          \* items that can be reserved
    lease,          \* seconds left of the lease of each item
    inflight,       \* requests of unknown outcome: <<operation, sequence>>
    settled,        \* history: sequences whose completion was acknowledged
    lost, revived,  \* history: what the broker did wrong
    redelivered     \* history: revived items that were delivered

ledger == <<acknowledged, ambiguousEnqueues, failedEnqueues, completed, ambiguousCompletions,
            stageFailed>>
clientVars == <<counter, at, item, held, stopping, ledger>>
reconcilerVars == <<emptyPolls, batch, observed, outcome>>
brokerVars == <<ready, lease, inflight, settled, lost, revived, redelivered>>
vars == <<clientVars, reconcilerVars, brokerVars>>

Init ==
    /\ counter = 0 /\ at = "next" /\ item = None /\ held = FALSE /\ stopping = FALSE
    /\ acknowledged = {} /\ ambiguousEnqueues = {} /\ failedEnqueues = {}
    /\ completed = [s \in SequenceNumbers |-> 0]
    /\ ambiguousCompletions = [s \in SequenceNumbers |-> 0]
    /\ stageFailed = FALSE
    /\ emptyPolls = 0 /\ batch = {} /\ observed = {} /\ outcome = "none"
    /\ ready = {} /\ lease = [s \in SequenceNumbers |-> 0] /\ inflight = {} /\ settled = {}
    /\ lost = {} /\ revived = {} /\ redelivered = {}
-----------------------------------------------------------------------------
(* domainLoop *)

(* The loop ends when the signal has aborted; otherwise the next operation
   starts with its counter. *)
LoopHead ==
    /\ at = "next"
    /\ \/ stopping /\ at' = "stopped"
       \/ ~stopping /\ counter < MaxOps /\ at' = "enqueue"
    /\ UNCHANGED <<counter, item, held, stopping, ledger, reconcilerVars, brokerVars>>

(* The operation has returned or thrown. *)
OperationEnds ==
    /\ at' = "next"
    /\ counter' = counter + 1
    /\ item' = None /\ held' = FALSE

Shutdown ==
    /\ ~stopping
    /\ stopping' = TRUE
    /\ UNCHANGED <<counter, at, item, held, ledger, reconcilerVars, brokerVars>>

(* Mutant: the signal is not passed to the operation. *)
BackpressureForever(stage, backoff) ==
    /\ at = stage
    /\ at' = backoff
    /\ UNCHANGED <<counter, item, held, stopping, ledger, reconcilerVars, brokerVars>>

(* retryQueueBackpressure: 4005 is retried after a delay, with no end of its
   own; the attempt after an abort throws. *)
Backpressure(stage, backoff) ==
    /\ at = stage /\ ~stopping
    /\ at' = backoff
    /\ UNCHANGED <<counter, item, held, stopping, ledger, reconcilerVars, brokerVars>>

Retry(stage, backoff) ==
    /\ at = backoff
    /\ at' = stage
    /\ UNCHANGED <<counter, item, held, stopping, ledger, reconcilerVars, brokerVars>>
-----------------------------------------------------------------------------
(* The enqueue stage. *)

EnqueueAcknowledged ==
    /\ at = "enqueue" /\ ~stopping
    /\ at' = "reserve"
    /\ acknowledged' = acknowledged \cup {counter}
    /\ ready' = ready \cup {counter}
    /\ UNCHANGED <<counter, item, held, stopping, ambiguousEnqueues, failedEnqueues, completed,
                   ambiguousCompletions, stageFailed, reconcilerVars, lease, inflight, settled,
                   lost, revived, redelivered>>

(* Mutant: an error of unknown outcome is recorded as a failure. *)
EnqueueAmbiguousAsFailed ==
    /\ at = "enqueue"
    /\ OperationEnds
    /\ failedEnqueues' = failedEnqueues \cup {counter}
    /\ inflight' = inflight \cup {<<"enqueue", counter>>}
    /\ UNCHANGED <<stopping, acknowledged, ambiguousEnqueues, completed, ambiguousCompletions,
                   stageFailed, reconcilerVars, ready, lease, settled, lost, revived, redelivered>>

EnqueueAmbiguous ==
    /\ at = "enqueue"
    /\ OperationEnds
    /\ ambiguousEnqueues' = ambiguousEnqueues \cup {counter}
    /\ inflight' = inflight \cup {<<"enqueue", counter>>}
    /\ UNCHANGED <<stopping, acknowledged, failedEnqueues, completed, ambiguousCompletions,
                   stageFailed, reconcilerVars, ready, lease, settled, lost, revived, redelivered>>

EnqueueFails ==
    /\ at = "enqueue" /\ ~stopping
    /\ OperationEnds
    /\ failedEnqueues' = failedEnqueues \cup {counter}
    /\ stageFailed' = TRUE
    /\ UNCHANGED <<stopping, acknowledged, ambiguousEnqueues, completed, ambiguousCompletions,
                   reconcilerVars, brokerVars>>
-----------------------------------------------------------------------------
(* The reserve stage, with a batch of one. *)

Reserved ==
    /\ at = "reserve" /\ ~stopping
    /\ \E s \in ready :
          /\ ready' = ready \ {s}
          /\ lease' = [lease EXCEPT ![s] = LeaseSeconds]
          /\ item' = s
          /\ redelivered' = redelivered \cup ({s} \cap revived)
    /\ held' = TRUE
    /\ at' = "complete"
    /\ UNCHANGED <<counter, stopping, ledger, reconcilerVars, inflight, settled, lost, revived>>

NothingToReserve ==
    /\ at = "reserve" /\ ~stopping
    /\ ready = {}
    /\ OperationEnds
    /\ UNCHANGED <<stopping, ledger, reconcilerVars, brokerVars>>

ReserveAmbiguous ==
    /\ at = "reserve"
    /\ OperationEnds
    /\ inflight' = inflight \cup {<<"reserve", counter>>}
    /\ UNCHANGED <<stopping, ledger, reconcilerVars, ready, lease, settled, lost, revived,
                   redelivered>>

ReserveFails ==
    /\ at = "reserve" /\ ~stopping
    /\ OperationEnds
    /\ stageFailed' = TRUE
    /\ UNCHANGED <<stopping, acknowledged, ambiguousEnqueues, failedEnqueues, completed,
                   ambiguousCompletions, reconcilerVars, brokerVars>>
-----------------------------------------------------------------------------
(* The complete stage. *)

CompleteAcknowledged ==
    /\ at = "complete" /\ ~stopping /\ held
    /\ OperationEnds
    /\ completed' = [completed EXCEPT ![item] = @ + 1]
    /\ lease' = [lease EXCEPT ![item] = 0]
    /\ settled' = settled \cup {item}
    /\ UNCHANGED <<stopping, acknowledged, ambiguousEnqueues, failedEnqueues,
                   ambiguousCompletions, stageFailed, reconcilerVars, ready, inflight, lost,
                   revived, redelivered>>

CompleteAmbiguous ==
    /\ at = "complete"
    /\ OperationEnds
    /\ ambiguousCompletions' = [ambiguousCompletions EXCEPT ![item] = @ + 1]
    /\ inflight' = IF held THEN inflight \cup {<<"complete", item>>} ELSE inflight
    /\ UNCHANGED <<stopping, acknowledged, ambiguousEnqueues, failedEnqueues, completed,
                   stageFailed, reconcilerVars, ready, lease, settled, lost, revived, redelivered>>

(* A definite failure, for example because the lease has expired: it is not
   recorded in the ledger, only counted by the stage. *)
CompleteFails ==
    /\ at = "complete" /\ ~stopping
    /\ OperationEnds
    /\ stageFailed' = TRUE
    /\ UNCHANGED <<stopping, acknowledged, ambiguousEnqueues, failedEnqueues, completed,
                   ambiguousCompletions, reconcilerVars, brokerVars>>
-----------------------------------------------------------------------------
(* External: the broker and the clock. *)

(* A second passes: leases that run out make their items ready again, and the
   handles and late completions of those leases void. *)
SecondPasses ==
    LET expired == {s \in SequenceNumbers : lease[s] = 1} IN
    /\ lease' = [s \in SequenceNumbers |-> IF lease[s] = 0 THEN 0 ELSE lease[s] - 1]
    /\ ready' = ready \cup expired
    /\ held' = (held /\ item \notin expired)
    /\ inflight' = inflight \ {<<"complete", s>> : s \in expired}

Tick ==
    /\ \E s \in SequenceNumbers : lease[s] > 0
    /\ SecondPasses
    /\ UNCHANGED <<counter, at, item, stopping, ledger, reconcilerVars, settled, lost, revived,
                   redelivered>>

(* A request of unknown outcome takes effect, while the session lives. *)
LandEnqueue(s) ==
    /\ <<"enqueue", s>> \in inflight /\ at # "stopped"
    /\ inflight' = inflight \ {<<"enqueue", s>>}
    /\ ready' = ready \cup {s}
    /\ UNCHANGED <<clientVars, reconcilerVars, lease, settled, lost, revived, redelivered>>

LandReserve(i, s) ==
    /\ <<"reserve", i>> \in inflight /\ at # "stopped"
    /\ s \in ready
    /\ inflight' = inflight \ {<<"reserve", i>>}
    /\ ready' = ready \ {s}
    /\ lease' = [lease EXCEPT ![s] = LeaseSeconds]
    /\ UNCHANGED <<clientVars, reconcilerVars, settled, lost, revived, redelivered>>

LandComplete(s) ==
    /\ <<"complete", s>> \in inflight /\ at # "stopped"
    /\ inflight' = inflight \ {<<"complete", s>>}
    /\ lease' = [lease EXCEPT ![s] = 0]
    /\ UNCHANGED <<clientVars, reconcilerVars, ready, settled, lost, revived, redelivered>>

BrokerLoses(s) ==
    /\ s \in ready /\ s \notin revived
    /\ ready' = ready \ {s}
    /\ lost' = lost \cup {s}
    /\ UNCHANGED <<clientVars, reconcilerVars, lease, inflight, settled, revived,
                   redelivered>>

(* A completed item, or one whose enqueue was refused, shows up. *)
BrokerRevives(s) ==
    /\ s \in settled \cup failedEnqueues
    /\ s \notin ready \cup revived \cup batch /\ lease[s] = 0
    /\ ready' = ready \cup {s}
    /\ revived' = revived \cup {s}
    /\ UNCHANGED <<clientVars, reconcilerVars, lease, inflight, settled, lost,
                   redelivered>>
-----------------------------------------------------------------------------
(* runPressureQueueReconciler, after the client has stopped. *)

Reconciling == at = "stopped" /\ outcome = "none" /\ batch = {} /\ emptyPolls < EmptyPolls

(* A poll that finds items. *)
PollItems ==
    /\ Reconciling
    /\ \E items \in SUBSET ready \ {{}} :
          /\ batch' = items
          /\ ready' = ready \ items
          /\ redelivered' = redelivered \cup (items \cap revived)
    /\ emptyPolls' = 0
    /\ UNCHANGED <<clientVars, observed, outcome, lease, inflight, settled, lost, revived>>

(* A poll that finds none waits a second (waitSeconds: 1), and returns what
   has become ready by then. *)
PollWaits ==
    /\ Reconciling
    /\ ready = {}
    /\ SecondPasses
    /\ emptyPolls' = IF ready' = {} THEN emptyPolls + 1 ELSE emptyPolls
    /\ UNCHANGED <<counter, at, item, stopping, ledger, batch, observed, outcome, settled, lost,
                   revived, redelivered>>

(* An item of the batch: seen before, or recorded and completed. *)
ReconcileItem(s) ==
    /\ s \in batch /\ outcome = "none"
    /\ \/ /\ s \in observed
          /\ outcome' = "rejected"
          /\ UNCHANGED <<batch, observed, settled>>
       \/ /\ s \notin observed
          /\ observed' = observed \cup {s}
          /\ batch' = batch \ {s}
          /\ settled' = settled \cup {s}
          /\ UNCHANGED outcome
    /\ UNCHANGED <<clientVars, emptyPolls, ready, lease, inflight, lost, revived,
                   redelivered>>

(* A request of the reconciler fails. *)
ReconcilerFails ==
    /\ at = "stopped" /\ outcome = "none"
    /\ outcome' = "errors"
    /\ UNCHANGED <<clientVars, emptyPolls, batch, observed, brokerVars>>

Resolved(s) == completed[s] + Cardinality(observed \cap {s})

(* Mutant: a missing item is not noticed. *)
ReconciledAtMostOnce ==
    /\ \A s \in SequenceNumbers : completed[s] <= 1 /\ ambiguousCompletions[s] <= 1
    /\ \A s \in SequenceNumbers :
          Resolved(s) + ambiguousCompletions[s] > 0 => s \in acknowledged \cup ambiguousEnqueues
    /\ \A s \in acknowledged \cup ambiguousEnqueues : Resolved(s) <= 1

(* reconcileQueueOutcomes.  A sequence is in the lists of enqueues at most once,
   by the counter; in those of completions it may be more often. *)
Reconciled ==
    /\ \A s \in SequenceNumbers : completed[s] <= 1 /\ ambiguousCompletions[s] <= 1
    /\ \A s \in SequenceNumbers :
          Resolved(s) + ambiguousCompletions[s] > 0 => s \in acknowledged \cup ambiguousEnqueues
    /\ \A s \in acknowledged :
          Resolved(s) <= 1 /\ (ambiguousCompletions[s] = 0 => Resolved(s) = 1)
    /\ \A s \in ambiguousEnqueues : Resolved(s) <= 1

(* The verdict: reconciled, and no stage with a definite failure
   (pressureUnexpectedErrors). *)
Judge ==
    /\ outcome = "none" /\ emptyPolls = EmptyPolls
    /\ outcome' = IF ~Reconciled THEN "rejected" ELSE IF stageFailed THEN "errors" ELSE "passed"
    /\ UNCHANGED <<clientVars, emptyPolls, batch, observed, brokerVars>>

Client ==
    \/ LoopHead
    \/ Backpressure("enqueue", "enqueueBackoff") \/ Retry("enqueue", "enqueueBackoff")
    \/ Backpressure("reserve", "reserveBackoff") \/ Retry("reserve", "reserveBackoff")
    \/ EnqueueAcknowledged \/ EnqueueAmbiguous \/ EnqueueFails
    \/ Reserved \/ NothingToReserve \/ ReserveAmbiguous \/ ReserveFails
    \/ CompleteAcknowledged \/ CompleteAmbiguous \/ CompleteFails

Broker ==
    \/ Tick
    \/ \E s \in SequenceNumbers :
          \/ LandEnqueue(s) \/ LandComplete(s) \/ \E i \in SequenceNumbers : LandReserve(i, s)
          \/ BrokerLoses(s) \/ BrokerRevives(s)

Reconciler ==
    \/ PollItems \/ PollWaits \/ \E s \in SequenceNumbers : ReconcileItem(s)
    \/ ReconcilerFails \/ Judge

Next == Client \/ Shutdown \/ Broker \/ Reconciler

Spec == Init /\ [][Next]_vars

(* The event loops of the client and of the reconciler run: an aborted
   request is rejected, and polls return. *)
FairSpec == Spec /\ WF_vars(Client) /\ WF_vars(Reconciler)
-----------------------------------------------------------------------------
(* The reconciliation rejects no broker that served every item correctly,
   whatever requests time out, wherever the client is stopped and with leases
   that are still running when the reconciler starts.  The one exception is an
   item whose completion was ambiguous twice: its second entry in
   ambiguousCompletions is taken for a duplicate. *)
NoFalseAlarm ==
    outcome = "rejected" =>
        \/ lost # {} \/ revived # {}
        \/ \E s \in SequenceNumbers : ambiguousCompletions[s] > 1

(* A run passes only when no acknowledged item was lost and no completed one
   was delivered again, except where a completion of unknown outcome hides it. *)
AcceptedIsExact ==
    outcome = "passed" =>
        \A s \in (lost \cap acknowledged) \cup redelivered : ambiguousCompletions[s] > 0

(* The items of a run that passed are all accounted for: nothing is left in
   the queue but what was enqueued after a time-out or came back by itself. *)
AcceptedIsDrained ==
    outcome = "passed" =>
        \A s \in acknowledged \ revived : s \notin ready /\ lease[s] = 0

(* A run that reconcileQueueOutcomes lets pass is exact and drained: no
   acknowledged item was lost or delivered again, and none is left. *)
AcceptedIsTrue == AcceptedIsExact /\ AcceptedIsDrained

(* A client that is stopped while its queue is full, a request hangs or an item
   is leased still ends, and so does the run. *)
StopEnds == stopping ~> (outcome # "none")
=============================================================================
