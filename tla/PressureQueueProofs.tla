------------------------ MODULE PressureQueueProofs ------------------------
(* Proofs about PressureQueue: the reconciliation of the Queue ledgers tells
   the truth for every number of operations, and every lease that is no longer
   than the reconciler's empty polls. *)
EXTENDS PressureQueue, FiniteSetTheorems, TLAPS

AtOperation == {"enqueue", "enqueueBackoff", "reserve", "reserveBackoff", "complete"}
AtEnqueued == {"reserve", "reserveBackoff", "complete"}
Requests == {"enqueue", "reserve", "complete"}

(* Every variable has its type. *)
TypeOK ==
    /\ counter \in 0..MaxOps
    /\ at \in AtOperation \cup {"next", "stopped"}
    /\ at \in AtOperation => counter < MaxOps
    /\ item \in 0..MaxOps
    /\ at = "complete" => item \in SequenceNumbers
    /\ held \in BOOLEAN /\ stopping \in BOOLEAN /\ stageFailed \in BOOLEAN
    /\ acknowledged \in SUBSET SequenceNumbers
    /\ ambiguousEnqueues \in SUBSET SequenceNumbers
    /\ failedEnqueues \in SUBSET SequenceNumbers
    /\ completed \in [SequenceNumbers -> Nat]
    /\ ambiguousCompletions \in [SequenceNumbers -> Nat]
    /\ emptyPolls \in 0..EmptyPolls
    /\ batch \in SUBSET SequenceNumbers /\ observed \in SUBSET SequenceNumbers
    /\ outcome \in {"none", "passed", "errors", "rejected"}
    /\ ready \in SUBSET SequenceNumbers
    /\ lease \in [SequenceNumbers -> 0..LeaseSeconds]
    /\ inflight \in SUBSET (Requests \X SequenceNumbers)
    /\ settled \in SUBSET SequenceNumbers
    /\ lost \in SUBSET SequenceNumbers /\ revived \in SUBSET SequenceNumbers
    /\ redelivered \in SUBSET SequenceNumbers

InQueue(s) == s \in ready \/ lease[s] > 0 \/ s \in batch
Sent == acknowledged \cup ambiguousEnqueues
Recorded == Sent \cup failedEnqueues

(* The client enqueues each sequence once, and records it once. *)
EnqueueInv ==
    /\ \A s \in Recorded : s < counter \/ (s = counter /\ at \in AtEnqueued)
    /\ acknowledged \cap ambiguousEnqueues = {} /\ Sent \cap failedEnqueues = {}
    /\ failedEnqueues # {} => stageFailed
    /\ settled \cup lost \cup revived \subseteq Recorded
    /\ \A s \in SequenceNumbers : InQueue(s) => s \in Recorded
    /\ \A s \in SequenceNumbers : <<"enqueue", s>> \in inflight =>
          s \in ambiguousEnqueues /\ ~InQueue(s) /\ s \notin settled \cup lost

(* An item is in one place, and a completion has a running lease. *)
PlaceInv ==
    /\ \A s \in SequenceNumbers :
          /\ s \in ready => lease[s] = 0 /\ s \notin batch
          /\ s \in batch => lease[s] = 0
    /\ \A s \in SequenceNumbers : <<"complete", s>> \in inflight =>
          lease[s] > 0 /\ ambiguousCompletions[s] > 0
    /\ held => at = "complete" /\ lease[item] > 0 /\ <<"complete", item>> \notin inflight

(* What a correct broker has of an item, and what the ledgers say of it. *)
LedgerInv ==
    /\ \A s \in SequenceNumbers : s \in settled <=> completed[s] > 0 \/ s \in observed
    /\ \A s \in SequenceNumbers : InQueue(s) /\ s \notin revived => s \in Sent \ settled
    /\ \A s \in SequenceNumbers \ revived :
          /\ Resolved(s) <= 1
          /\ s \in settled \/ ambiguousCompletions[s] > 0 => s \in Sent
    /\ at = "complete" /\ item \notin revived => item \in Sent
    /\ \A s \in acknowledged \ lost :
          ambiguousCompletions[s] = 0 => InQueue(s) \/ s \in settled

(* What a broker that went wrong leaves behind: a lost item is nowhere, and an
   item that was delivered again is on its way to be noticed. *)
WrongInv ==
    /\ lost \subseteq Sent /\ lost \cap (settled \cup revived) = {}
    /\ \A s \in lost : ~InQueue(s)
    /\ revived \subseteq settled \cup failedEnqueues /\ redelivered \subseteq revived
    /\ \A s \in redelivered :
          \/ stageFailed \/ ambiguousCompletions[s] > 0
          \/ Resolved(s) > 1
          \/ s \in batch /\ s \in settled
          \/ at = "complete" /\ item = s /\ completed[s] > 0

(* A lease runs out before the reconciler has polled in vain often enough. *)
DrainInv ==
    /\ at # "stopped" => observed = {} /\ batch = {} /\ emptyPolls = 0 /\ outcome = "none"
    /\ emptyPolls > 0 => batch = {}
    /\ \A s \in SequenceNumbers : lease[s] > 0 => lease[s] + emptyPolls <= LeaseSeconds
    /\ emptyPolls = EmptyPolls => ready \subseteq revived

Verdict == NoFalseAlarm /\ AcceptedIsExact /\ AcceptedIsDrained

(* The inductive invariant. *)
IInv == TypeOK /\ EnqueueInv /\ PlaceInv /\ LedgerInv /\ WrongInv /\ DrainInv /\ Verdict
-----------------------------------------------------------------------------
(* What the proofs use of the constants. *)
LEMMA Numbers ==
    /\ MaxOps \in Nat /\ None = MaxOps
    /\ \A s : s \in SequenceNumbers <=> s \in Nat /\ s < MaxOps
    /\ LeaseSeconds \in Nat \ {0} /\ EmptyPolls \in Nat \ {0} /\ LeaseSeconds <= EmptyPolls
BY MaxOpsAssumption, LeaseAssumption, DrainAssumption DEF SequenceNumbers, None

(* How often the ledgers have an item: completed by the client, or observed by
   the reconciler. *)
LEMMA ResolvedIs ==
    ASSUME NEW s
    PROVE  Resolved(s) = completed[s] + (IF s \in observed THEN 1 ELSE 0)
<1>1. CASE s \in observed
  <2>1. observed \cap {s} = {s}
    BY <1>1
  <2> QED
    BY <1>1, <2>1, FS_Singleton DEF Resolved
<1>2. CASE s \notin observed
  <2>1. observed \cap {s} = {}
    BY <1>2
  <2> QED
    BY <1>2, <2>1, FS_EmptySet DEF Resolved
<1> QED
  BY <1>1, <1>2

(* The same in the next state. *)
LEMMA ResolvedIsNext ==
    ASSUME NEW s
    PROVE  Resolved(s)' = completed'[s] + (IF s \in observed' THEN 1 ELSE 0)
<1>1. CASE s \in observed'
  <2>1. observed' \cap {s} = {s}
    BY <1>1
  <2> QED
    BY <1>1, <2>1, FS_Singleton DEF Resolved
<1>2. CASE s \notin observed'
  <2>1. observed' \cap {s} = {}
    BY <1>2
  <2> QED
    BY <1>2, <2>1, FS_EmptySet DEF Resolved
<1> QED
  BY <1>1, <1>2

(* What a second does to leases, reservations and late completions. *)
LEMMA Second ==
    ASSUME TypeOK, SecondPasses
    PROVE  /\ lease' \in [SequenceNumbers -> 0..LeaseSeconds]
           /\ \A s \in SequenceNumbers : lease'[s] = IF lease[s] = 0 THEN 0 ELSE lease[s] - 1
           /\ \A s : s \in ready' <=> s \in ready \/ (s \in SequenceNumbers /\ lease[s] = 1)
           /\ held' \in BOOLEAN
           /\ held' => held /\ ~(item \in SequenceNumbers /\ lease[item] = 1)
           /\ inflight' \subseteq inflight
           /\ \A s \in SequenceNumbers : <<"complete", s>> \in inflight' => lease[s] # 1
<1>1. lease' \in [SequenceNumbers -> 0..LeaseSeconds]
  BY Numbers DEF SecondPasses, TypeOK
<1> QED
  BY <1>1 DEF SecondPasses, TypeOK

(* An operation of the client has ended. *)
LEMMA OperationOver ==
    ASSUME TypeOK, at \in AtOperation, OperationEnds
    PROVE  /\ counter \in SequenceNumbers /\ counter' \in 0..MaxOps /\ counter < counter'
           /\ counter' = counter + 1
           /\ at' = "next" /\ at # "stopped" /\ item' \in 0..MaxOps /\ ~held' /\ held' \in BOOLEAN
<1>1. at # "stopped" /\ counter \in Nat /\ counter < MaxOps
  BY Numbers DEF TypeOK, AtOperation
<1>2. at' = "next" /\ counter' = counter + 1 /\ item' = None /\ held' = FALSE
  BY DEF OperationEnds
<1>3. counter \in SequenceNumbers
  BY <1>1, Numbers
<1>4. counter + 1 \in 0..MaxOps /\ counter < counter + 1 /\ None \in 0..MaxOps
  BY <1>1, Numbers
<1> QED
  BY <1>1, <1>2, <1>3, <1>4

(* Every step keeps the types. *)
LEMMA NextTypeOK == IInv /\ [Next]_vars => TypeOK'
<1> SUFFICES ASSUME IInv, [Next]_vars PROVE TypeOK'
  OBVIOUS
<1> USE Numbers DEF ledger, clientVars, reconcilerVars, brokerVars
<1>0. TypeOK
  BY DEF IInv
<1>1. CASE LoopHead
  BY <1>0, <1>1 DEF LoopHead, TypeOK, AtOperation, Requests
<1>2. CASE Backpressure("enqueue", "enqueueBackoff") \/ Retry("enqueue", "enqueueBackoff")
  BY <1>0, <1>2 DEF Backpressure, Retry, TypeOK, AtOperation, Requests
<1>3. CASE Backpressure("reserve", "reserveBackoff") \/ Retry("reserve", "reserveBackoff")
  BY <1>0, <1>3 DEF Backpressure, Retry, TypeOK, AtOperation, Requests
<1>4. CASE EnqueueAcknowledged
  BY <1>0, <1>4 DEF EnqueueAcknowledged, TypeOK, AtOperation, Requests
<1>5. CASE EnqueueAmbiguous
  BY <1>0, <1>5, OperationOver DEF EnqueueAmbiguous, AtOperation, TypeOK, Requests
<1>6. CASE EnqueueFails
  BY <1>0, <1>6, OperationOver DEF EnqueueFails, AtOperation, TypeOK, Requests
<1>7. CASE Reserved
  BY <1>0, <1>7 DEF Reserved, TypeOK, AtOperation, Requests
<1>8. CASE NothingToReserve
  BY <1>0, <1>8, OperationOver DEF NothingToReserve, AtOperation, TypeOK, Requests
<1>9. CASE ReserveAmbiguous
  BY <1>0, <1>9, OperationOver DEF ReserveAmbiguous, AtOperation, TypeOK, Requests
<1>10. CASE ReserveFails
  BY <1>0, <1>10, OperationOver DEF ReserveFails, AtOperation, TypeOK, Requests
<1>11. CASE CompleteAcknowledged
  BY <1>0, <1>11, OperationOver DEF CompleteAcknowledged, AtOperation, TypeOK, Requests
<1>12. CASE CompleteAmbiguous
  BY <1>0, <1>12, OperationOver DEF CompleteAmbiguous, AtOperation, TypeOK, Requests
<1>13. CASE CompleteFails
  BY <1>0, <1>13, OperationOver DEF CompleteFails, AtOperation, TypeOK, Requests
<1>14. CASE Shutdown
  BY <1>0, <1>14 DEF Shutdown, TypeOK, AtOperation, Requests
<1>15. CASE Tick
  BY <1>0, <1>15, Second DEF Tick, TypeOK, AtOperation, Requests
<1>16. ASSUME NEW s \in SequenceNumbers, LandEnqueue(s) PROVE TypeOK'
  BY <1>0, <1>16 DEF LandEnqueue, TypeOK, AtOperation, Requests
<1>17. ASSUME NEW s \in SequenceNumbers, LandComplete(s) PROVE TypeOK'
  BY <1>0, <1>17 DEF LandComplete, TypeOK, AtOperation, Requests
<1>18. ASSUME NEW i \in SequenceNumbers, NEW s \in SequenceNumbers, LandReserve(i, s)
       PROVE  TypeOK'
  BY <1>0, <1>18 DEF LandReserve, TypeOK, AtOperation, Requests
<1>19. ASSUME NEW s \in SequenceNumbers, BrokerLoses(s) PROVE TypeOK'
  BY <1>0, <1>19 DEF BrokerLoses, TypeOK, AtOperation, Requests
<1>20. ASSUME NEW s \in SequenceNumbers, BrokerRevives(s) PROVE TypeOK'
  BY <1>0, <1>20 DEF BrokerRevives, TypeOK, AtOperation, Requests
<1>21. CASE PollItems
  BY <1>0, <1>21 DEF PollItems, Reconciling, TypeOK, AtOperation, Requests
<1>22. CASE PollWaits
  BY <1>0, <1>22, Second DEF PollWaits, Reconciling, TypeOK, AtOperation, Requests
<1>23. ASSUME NEW s \in SequenceNumbers, ReconcileItem(s) PROVE TypeOK'
  BY <1>0, <1>23 DEF ReconcileItem, TypeOK, AtOperation, Requests
<1>24. CASE ReconcilerFails
  BY <1>0, <1>24 DEF ReconcilerFails, TypeOK, AtOperation, Requests
<1>25. CASE Judge
  BY <1>0, <1>25 DEF Judge, TypeOK, AtOperation, Requests
<1>26. CASE UNCHANGED vars
  BY <1>0, <1>26 DEF vars, TypeOK, AtOperation, Requests
<1> QED
  BY <1>1, <1>2, <1>3, <1>4, <1>5, <1>6, <1>7, <1>8, <1>9, <1>10, <1>11, <1>12, <1>13, <1>14,
     <1>15, <1>16, <1>17, <1>18, <1>19, <1>20, <1>21, <1>22, <1>23, <1>24, <1>25, <1>26
     DEF Next, Client, Broker, Reconciler

(* What is enqueued next is nowhere yet. *)
LEMMA CounterIsNew ==
    ASSUME TypeOK, EnqueueInv, at = "enqueue"
    PROVE  /\ counter \in SequenceNumbers /\ counter \notin Recorded
           /\ ~InQueue(counter) /\ counter \notin settled \cup lost \cup revived
           /\ <<"enqueue", counter>> \notin inflight
<1>1. counter \in SequenceNumbers
  BY Numbers DEF TypeOK, AtOperation
<1>2. counter \notin Recorded
  BY <1>1, Numbers DEF EnqueueInv, AtEnqueued
<1> QED
  BY <1>1, <1>2 DEF EnqueueInv, Recorded, Sent

(* The client completes an item that is leased. *)
LEMMA HeldIsLeased ==
    ASSUME TypeOK, PlaceInv, EnqueueInv, held
    PROVE  item \in SequenceNumbers /\ lease[item] > 0 /\ InQueue(item) /\ item \in Recorded
BY DEF TypeOK, PlaceInv, EnqueueInv, InQueue

(* The client enqueues and records each sequence once. *)
LEMMA NextEnqueueInv == IInv /\ [Next]_vars => EnqueueInv'
<1> SUFFICES ASSUME IInv, [Next]_vars PROVE EnqueueInv'
  OBVIOUS
<1> USE Numbers DEF ledger, clientVars, reconcilerVars, brokerVars
<1>0. TypeOK /\ EnqueueInv /\ PlaceInv
  BY DEF IInv
<1>1. CASE LoopHead
  BY <1>0, <1>1 DEF LoopHead, TypeOK, EnqueueInv, InQueue, Sent, Recorded, AtOperation, AtEnqueued
<1>2. CASE Backpressure("enqueue", "enqueueBackoff") \/ Retry("enqueue", "enqueueBackoff")
  BY <1>0, <1>2
     DEF Backpressure, Retry, TypeOK, EnqueueInv, InQueue, Sent, Recorded, AtOperation, AtEnqueued
<1>3. CASE Backpressure("reserve", "reserveBackoff") \/ Retry("reserve", "reserveBackoff")
  BY <1>0, <1>3
     DEF Backpressure, Retry, TypeOK, EnqueueInv, InQueue, Sent, Recorded, AtOperation, AtEnqueued
<1>4. CASE EnqueueAcknowledged
  BY <1>0, <1>4
     DEF EnqueueAcknowledged, TypeOK, EnqueueInv, InQueue, Sent, Recorded, AtOperation, AtEnqueued
<1>5. CASE EnqueueAmbiguous
  BY <1>0, <1>5, OperationOver
     DEF EnqueueAmbiguous, AtOperation, TypeOK, EnqueueInv, InQueue, Sent, Recorded, AtEnqueued
<1>6. CASE EnqueueFails
  BY <1>0, <1>6, OperationOver
     DEF EnqueueFails, AtOperation, TypeOK, EnqueueInv, InQueue, Sent, Recorded, AtEnqueued
<1>7. CASE Reserved
  BY <1>0, <1>7 DEF Reserved, TypeOK, EnqueueInv, InQueue, Sent, Recorded, AtOperation, AtEnqueued
<1>8. CASE NothingToReserve
  BY <1>0, <1>8, OperationOver
     DEF NothingToReserve, AtOperation, TypeOK, EnqueueInv, InQueue, Sent, Recorded, AtEnqueued
<1>9. CASE ReserveAmbiguous
  BY <1>0, <1>9, OperationOver
     DEF ReserveAmbiguous, AtOperation, TypeOK, EnqueueInv, InQueue, Sent, Recorded, AtEnqueued
<1>10. CASE ReserveFails
  BY <1>0, <1>10, OperationOver
     DEF ReserveFails, AtOperation, TypeOK, EnqueueInv, InQueue, Sent, Recorded, AtEnqueued
<1>11. CASE CompleteAcknowledged
  <2>1. at' = "next" /\ counter \in Nat /\ counter' = counter + 1
    BY <1>0, <1>11, OperationOver DEF CompleteAcknowledged, AtOperation
  <2>2. /\ item \in SequenceNumbers /\ item \in Recorded /\ lease[item] > 0
        /\ <<"enqueue", item>> \notin inflight
    BY <1>0, <1>11, HeldIsLeased DEF CompleteAcknowledged, EnqueueInv
  <2>3. \A s \in SequenceNumbers : lease'[s] > 0 => lease[s] > 0
    BY <1>0, <1>11 DEF CompleteAcknowledged, TypeOK
  <2>4. \A s \in Recorded : s < counter'
    BY <1>0, <2>1 DEF EnqueueInv, TypeOK, Recorded, Sent
  <2> QED
    BY <1>0, <1>11, <2>1, <2>2, <2>3, <2>4
       DEF CompleteAcknowledged, EnqueueInv, InQueue, Sent, Recorded
<1>12. CASE CompleteAmbiguous
  BY <1>0, <1>12, OperationOver
     DEF CompleteAmbiguous, AtOperation, TypeOK, EnqueueInv, InQueue, Sent, Recorded, AtEnqueued
<1>13. CASE CompleteFails
  BY <1>0, <1>13, OperationOver
     DEF CompleteFails, AtOperation, TypeOK, EnqueueInv, InQueue, Sent, Recorded, AtEnqueued
<1>14. CASE Shutdown
  BY <1>0, <1>14
     DEF Shutdown, TypeOK, EnqueueInv, InQueue, Sent, Recorded, AtOperation, AtEnqueued
<1>15. CASE Tick
  BY <1>0, <1>15, Second
     DEF Tick, TypeOK, EnqueueInv, InQueue, Sent, Recorded, AtOperation, AtEnqueued
<1>16. ASSUME NEW s \in SequenceNumbers, LandEnqueue(s) PROVE EnqueueInv'
  BY <1>0, <1>16
     DEF LandEnqueue, TypeOK, EnqueueInv, InQueue, Sent, Recorded, AtOperation, AtEnqueued
<1>17. ASSUME NEW s \in SequenceNumbers, LandComplete(s) PROVE EnqueueInv'
  BY <1>0, <1>17
     DEF LandComplete, TypeOK, EnqueueInv, InQueue, Sent, Recorded, AtOperation, AtEnqueued
<1>18. ASSUME NEW i \in SequenceNumbers, NEW s \in SequenceNumbers, LandReserve(i, s)
       PROVE  EnqueueInv'
  BY <1>0, <1>18
     DEF LandReserve, TypeOK, EnqueueInv, InQueue, Sent, Recorded, AtOperation, AtEnqueued
<1>19. ASSUME NEW s \in SequenceNumbers, BrokerLoses(s) PROVE EnqueueInv'
  BY <1>0, <1>19
     DEF BrokerLoses, TypeOK, EnqueueInv, InQueue, Sent, Recorded, AtOperation, AtEnqueued
<1>20. ASSUME NEW s \in SequenceNumbers, BrokerRevives(s) PROVE EnqueueInv'
  BY <1>0, <1>20
     DEF BrokerRevives, TypeOK, EnqueueInv, InQueue, Sent, Recorded, AtOperation, AtEnqueued
<1>21. CASE PollItems
  BY <1>0, <1>21
     DEF PollItems, Reconciling, TypeOK, EnqueueInv, InQueue, Sent, Recorded, AtOperation,
         AtEnqueued
<1>22. CASE PollWaits
  BY <1>0, <1>22, Second
     DEF PollWaits, Reconciling, TypeOK, EnqueueInv, InQueue, Sent, Recorded, AtOperation,
         AtEnqueued
<1>23. ASSUME NEW s \in SequenceNumbers, ReconcileItem(s) PROVE EnqueueInv'
  BY <1>0, <1>23
     DEF ReconcileItem, TypeOK, EnqueueInv, InQueue, Sent, Recorded, AtOperation, AtEnqueued
<1>24. CASE ReconcilerFails
  BY <1>0, <1>24
     DEF ReconcilerFails, TypeOK, EnqueueInv, InQueue, Sent, Recorded, AtOperation, AtEnqueued
<1>25. CASE Judge
  BY <1>0, <1>25 DEF Judge, TypeOK, EnqueueInv, InQueue, Sent, Recorded, AtOperation, AtEnqueued
<1>26. CASE UNCHANGED vars
  BY <1>0, <1>26 DEF vars, TypeOK, EnqueueInv, InQueue, Sent, Recorded, AtOperation, AtEnqueued
<1> QED
  BY <1>1, <1>2, <1>3, <1>4, <1>5, <1>6, <1>7, <1>8, <1>9, <1>10, <1>11, <1>12, <1>13, <1>14,
     <1>15, <1>16, <1>17, <1>18, <1>19, <1>20, <1>21, <1>22, <1>23, <1>24, <1>25, <1>26
     DEF Next, Client, Broker, Reconciler

(* An item is in one place. *)
LEMMA NextPlaceInv == IInv /\ [Next]_vars => PlaceInv'
<1> SUFFICES ASSUME IInv, [Next]_vars PROVE PlaceInv'
  OBVIOUS
<1> USE Numbers DEF ledger, clientVars, reconcilerVars, brokerVars
<1>0. TypeOK /\ EnqueueInv /\ PlaceInv
  BY DEF IInv
<1>1. CASE LoopHead
  BY <1>0, <1>1 DEF LoopHead, TypeOK, PlaceInv
<1>2. CASE Backpressure("enqueue", "enqueueBackoff") \/ Retry("enqueue", "enqueueBackoff")
  BY <1>0, <1>2 DEF Backpressure, Retry, TypeOK, PlaceInv
<1>3. CASE Backpressure("reserve", "reserveBackoff") \/ Retry("reserve", "reserveBackoff")
  BY <1>0, <1>3 DEF Backpressure, Retry, TypeOK, PlaceInv
<1>4. CASE EnqueueAcknowledged
  BY <1>0, <1>4, CounterIsNew DEF EnqueueAcknowledged, TypeOK, PlaceInv, InQueue
<1>5. CASE EnqueueAmbiguous
  BY <1>0, <1>5, OperationOver DEF EnqueueAmbiguous, AtOperation, TypeOK, PlaceInv
<1>6. CASE EnqueueFails
  BY <1>0, <1>6, OperationOver DEF EnqueueFails, AtOperation, TypeOK, PlaceInv
<1>7. CASE Reserved
  BY <1>0, <1>7 DEF Reserved, TypeOK, PlaceInv
<1>8. CASE NothingToReserve
  BY <1>0, <1>8, OperationOver DEF NothingToReserve, AtOperation, TypeOK, PlaceInv
<1>9. CASE ReserveAmbiguous
  BY <1>0, <1>9, OperationOver DEF ReserveAmbiguous, AtOperation, TypeOK, PlaceInv
<1>10. CASE ReserveFails
  BY <1>0, <1>10, OperationOver DEF ReserveFails, AtOperation, TypeOK, PlaceInv
<1>11. CASE CompleteAcknowledged
  BY <1>0, <1>11, OperationOver DEF CompleteAcknowledged, AtOperation, TypeOK, PlaceInv
<1>12. CASE CompleteAmbiguous
  BY <1>0, <1>12, OperationOver DEF CompleteAmbiguous, AtOperation, TypeOK, PlaceInv
<1>13. CASE CompleteFails
  BY <1>0, <1>13, OperationOver DEF CompleteFails, AtOperation, TypeOK, PlaceInv
<1>14. CASE Shutdown
  BY <1>0, <1>14 DEF Shutdown, TypeOK, PlaceInv
<1>15. CASE Tick
  BY <1>0, <1>15, Second DEF Tick, TypeOK, PlaceInv
<1>16. ASSUME NEW s \in SequenceNumbers, LandEnqueue(s) PROVE PlaceInv'
  <2>1. ~InQueue(s)
    BY <1>0, <1>16 DEF LandEnqueue, EnqueueInv
  <2> QED
    BY <1>0, <1>16, <2>1 DEF LandEnqueue, TypeOK, PlaceInv, InQueue
<1>17. ASSUME NEW s \in SequenceNumbers, LandComplete(s) PROVE PlaceInv'
  BY <1>0, <1>17 DEF LandComplete, TypeOK, PlaceInv
<1>18. ASSUME NEW i \in SequenceNumbers, NEW s \in SequenceNumbers, LandReserve(i, s)
       PROVE  PlaceInv'
  BY <1>0, <1>18 DEF LandReserve, TypeOK, PlaceInv
<1>19. ASSUME NEW s \in SequenceNumbers, BrokerLoses(s) PROVE PlaceInv'
  BY <1>0, <1>19 DEF BrokerLoses, TypeOK, PlaceInv
<1>20. ASSUME NEW s \in SequenceNumbers, BrokerRevives(s) PROVE PlaceInv'
  BY <1>0, <1>20 DEF BrokerRevives, TypeOK, PlaceInv
<1>21. CASE PollItems
  BY <1>0, <1>21 DEF PollItems, Reconciling, TypeOK, PlaceInv
<1>22. CASE PollWaits
  BY <1>0, <1>22, Second DEF PollWaits, Reconciling, TypeOK, PlaceInv
<1>23. ASSUME NEW s \in SequenceNumbers, ReconcileItem(s) PROVE PlaceInv'
  BY <1>0, <1>23 DEF ReconcileItem, TypeOK, PlaceInv
<1>24. CASE ReconcilerFails
  BY <1>0, <1>24 DEF ReconcilerFails, TypeOK, PlaceInv
<1>25. CASE Judge
  BY <1>0, <1>25 DEF Judge, TypeOK, PlaceInv
<1>26. CASE UNCHANGED vars
  BY <1>0, <1>26 DEF vars, TypeOK, PlaceInv
<1> QED
  BY <1>1, <1>2, <1>3, <1>4, <1>5, <1>6, <1>7, <1>8, <1>9, <1>10, <1>11, <1>12, <1>13, <1>14,
     <1>15, <1>16, <1>17, <1>18, <1>19, <1>20, <1>21, <1>22, <1>23, <1>24, <1>25, <1>26
     DEF Next, Client, Broker, Reconciler

(* Leases run out while the reconciler polls. *)
LEMMA NextDrainInv == IInv /\ [Next]_vars => DrainInv'
<1> SUFFICES ASSUME IInv, [Next]_vars PROVE DrainInv'
  OBVIOUS
<1> USE Numbers DEF ledger, clientVars, reconcilerVars, brokerVars
<1>0. TypeOK /\ DrainInv
  BY DEF IInv
<1>1. CASE LoopHead
  BY <1>0, <1>1 DEF LoopHead, TypeOK, DrainInv
<1>2. CASE Backpressure("enqueue", "enqueueBackoff") \/ Retry("enqueue", "enqueueBackoff")
  BY <1>0, <1>2 DEF Backpressure, Retry, TypeOK, DrainInv
<1>3. CASE Backpressure("reserve", "reserveBackoff") \/ Retry("reserve", "reserveBackoff")
  BY <1>0, <1>3 DEF Backpressure, Retry, TypeOK, DrainInv
<1>4. CASE EnqueueAcknowledged
  BY <1>0, <1>4 DEF EnqueueAcknowledged, TypeOK, DrainInv
<1>5. CASE EnqueueAmbiguous
  BY <1>0, <1>5, OperationOver DEF EnqueueAmbiguous, AtOperation, TypeOK, DrainInv
<1>6. CASE EnqueueFails
  BY <1>0, <1>6, OperationOver DEF EnqueueFails, AtOperation, TypeOK, DrainInv
<1>7. CASE Reserved
  BY <1>0, <1>7 DEF Reserved, TypeOK, DrainInv
<1>8. CASE NothingToReserve
  BY <1>0, <1>8, OperationOver DEF NothingToReserve, AtOperation, TypeOK, DrainInv
<1>9. CASE ReserveAmbiguous
  BY <1>0, <1>9, OperationOver DEF ReserveAmbiguous, AtOperation, TypeOK, DrainInv
<1>10. CASE ReserveFails
  BY <1>0, <1>10, OperationOver DEF ReserveFails, AtOperation, TypeOK, DrainInv
<1>11. CASE CompleteAcknowledged
  BY <1>0, <1>11, OperationOver DEF CompleteAcknowledged, AtOperation, TypeOK, DrainInv
<1>12. CASE CompleteAmbiguous
  BY <1>0, <1>12, OperationOver DEF CompleteAmbiguous, AtOperation, TypeOK, DrainInv
<1>13. CASE CompleteFails
  BY <1>0, <1>13, OperationOver DEF CompleteFails, AtOperation, TypeOK, DrainInv
<1>14. CASE Shutdown
  BY <1>0, <1>14 DEF Shutdown, TypeOK, DrainInv
<1>15. CASE Tick
  BY <1>0, <1>15, Second DEF Tick, TypeOK, DrainInv
<1>16. ASSUME NEW s \in SequenceNumbers, LandEnqueue(s) PROVE DrainInv'
  BY <1>0, <1>16 DEF LandEnqueue, TypeOK, DrainInv
<1>17. ASSUME NEW s \in SequenceNumbers, LandComplete(s) PROVE DrainInv'
  BY <1>0, <1>17 DEF LandComplete, TypeOK, DrainInv
<1>18. ASSUME NEW i \in SequenceNumbers, NEW s \in SequenceNumbers, LandReserve(i, s)
       PROVE  DrainInv'
  BY <1>0, <1>18 DEF LandReserve, TypeOK, DrainInv
<1>19. ASSUME NEW s \in SequenceNumbers, BrokerLoses(s) PROVE DrainInv'
  BY <1>0, <1>19 DEF BrokerLoses, TypeOK, DrainInv
<1>20. ASSUME NEW s \in SequenceNumbers, BrokerRevives(s) PROVE DrainInv'
  BY <1>0, <1>20 DEF BrokerRevives, TypeOK, DrainInv
<1>21. CASE PollItems
  BY <1>0, <1>21 DEF PollItems, Reconciling, TypeOK, DrainInv
<1>22. CASE PollWaits
  BY <1>0, <1>22, Second DEF PollWaits, Reconciling, TypeOK, DrainInv
<1>23. ASSUME NEW s \in SequenceNumbers, ReconcileItem(s) PROVE DrainInv'
  BY <1>0, <1>23 DEF ReconcileItem, TypeOK, DrainInv
<1>24. CASE ReconcilerFails
  BY <1>0, <1>24 DEF ReconcilerFails, TypeOK, DrainInv
<1>25. CASE Judge
  BY <1>0, <1>25 DEF Judge, TypeOK, DrainInv
<1>26. CASE UNCHANGED vars
  BY <1>0, <1>26 DEF vars, TypeOK, DrainInv
<1> QED
  BY <1>1, <1>2, <1>3, <1>4, <1>5, <1>6, <1>7, <1>8, <1>9, <1>10, <1>11, <1>12, <1>13, <1>14,
     <1>15, <1>16, <1>17, <1>18, <1>19, <1>20, <1>21, <1>22, <1>23, <1>24, <1>25, <1>26
     DEF Next, Client, Broker, Reconciler

(* The ledgers say what has become of an item. *)
LEMMA NextLedgerInv == IInv /\ [Next]_vars => LedgerInv'
<1> SUFFICES ASSUME IInv, [Next]_vars PROVE LedgerInv'
  OBVIOUS
<1> USE Numbers DEF ledger, clientVars, reconcilerVars, brokerVars
<1>0. TypeOK /\ EnqueueInv /\ PlaceInv /\ LedgerInv /\ DrainInv /\ WrongInv
  BY DEF IInv
<1>1. CASE LoopHead
  BY <1>0, <1>1, ResolvedIs, ResolvedIsNext DEF LoopHead, TypeOK, LedgerInv, InQueue, Sent
<1>2. CASE Backpressure("enqueue", "enqueueBackoff") \/ Retry("enqueue", "enqueueBackoff")
  BY <1>0, <1>2, ResolvedIs, ResolvedIsNext
     DEF Backpressure, Retry, TypeOK, LedgerInv, InQueue, Sent
<1>3. CASE Backpressure("reserve", "reserveBackoff") \/ Retry("reserve", "reserveBackoff")
  BY <1>0, <1>3, ResolvedIs, ResolvedIsNext
     DEF Backpressure, Retry, TypeOK, LedgerInv, InQueue, Sent
<1>4. CASE EnqueueAcknowledged
  BY <1>0, <1>4, CounterIsNew, ResolvedIs, ResolvedIsNext
     DEF EnqueueAcknowledged, TypeOK, LedgerInv, InQueue, Sent
<1>5. CASE EnqueueAmbiguous
  BY <1>0, <1>5, ResolvedIs, ResolvedIsNext, OperationOver
     DEF EnqueueAmbiguous, AtOperation, TypeOK, LedgerInv, InQueue, Sent
<1>6. CASE EnqueueFails
  BY <1>0, <1>6, ResolvedIs, ResolvedIsNext, OperationOver
     DEF EnqueueFails, AtOperation, TypeOK, LedgerInv, InQueue, Sent
<1>7. CASE Reserved
  BY <1>0, <1>7, ResolvedIs, ResolvedIsNext DEF Reserved, TypeOK, LedgerInv, InQueue, Sent
<1>8. CASE NothingToReserve
  BY <1>0, <1>8, ResolvedIs, ResolvedIsNext, OperationOver
     DEF NothingToReserve, AtOperation, TypeOK, LedgerInv, InQueue, Sent
<1>9. CASE ReserveAmbiguous
  BY <1>0, <1>9, ResolvedIs, ResolvedIsNext, OperationOver
     DEF ReserveAmbiguous, AtOperation, TypeOK, LedgerInv, InQueue, Sent
<1>10. CASE ReserveFails
  BY <1>0, <1>10, ResolvedIs, ResolvedIsNext, OperationOver
     DEF ReserveFails, AtOperation, TypeOK, LedgerInv, InQueue, Sent
<1>11. CASE CompleteAcknowledged
  <2>1. /\ item \in SequenceNumbers /\ InQueue(item) /\ lease[item] > 0
        /\ item \notin ready \cup batch
    BY <1>0, <1>11, HeldIsLeased DEF CompleteAcknowledged, PlaceInv
  <2>2. /\ lease' = [lease EXCEPT ![item] = 0] /\ completed' = [completed EXCEPT ![item] = @ + 1]
        /\ settled' = settled \cup {item} /\ at' = "next"
        /\ UNCHANGED <<ready, batch, observed, revived, lost, acknowledged, ambiguousEnqueues,
                       ambiguousCompletions>>
    BY <1>11 DEF CompleteAcknowledged, OperationEnds
  <2>3. \A s \in SequenceNumbers : InQueue(s)' <=> InQueue(s) /\ s # item
    BY <1>0, <2>1, <2>2 DEF InQueue, TypeOK
  <2>4. item \notin revived => item \in Sent \ settled /\ completed[item] = 0 /\ item \notin observed
    BY <1>0, <2>1 DEF LedgerInv, TypeOK
  <2>5. \A s \in SequenceNumbers :
          completed'[s] \in Nat /\ completed'[s] = IF s = item THEN completed[s] + 1 ELSE completed[s]
    BY <1>0, <2>1, <2>2 DEF TypeOK
  <2>6. \A s \in SequenceNumbers \ revived : Resolved(s)' <= 1
    BY <1>0, <2>1, <2>2, <2>4, <2>5, ResolvedIs, ResolvedIsNext DEF LedgerInv, TypeOK
  <2>7. \A s \in SequenceNumbers : s \in settled' <=> completed'[s] > 0 \/ s \in observed'
    BY <1>0, <2>1, <2>2, <2>5 DEF LedgerInv, TypeOK
  <2>8. acknowledged \subseteq SequenceNumbers
    BY <1>0 DEF TypeOK
  <2> QED
    BY <1>0, <2>1, <2>2, <2>3, <2>4, <2>6, <2>7, <2>8 DEF LedgerInv, Sent
<1>12. CASE CompleteAmbiguous
  BY <1>0, <1>12, ResolvedIs, ResolvedIsNext, OperationOver
     DEF CompleteAmbiguous, AtOperation, TypeOK, LedgerInv, InQueue, Sent
<1>13. CASE CompleteFails
  BY <1>0, <1>13, ResolvedIs, ResolvedIsNext, OperationOver
     DEF CompleteFails, AtOperation, TypeOK, LedgerInv, InQueue, Sent
<1>14. CASE Shutdown
  BY <1>0, <1>14, ResolvedIs, ResolvedIsNext DEF Shutdown, TypeOK, LedgerInv, InQueue, Sent
<1>15. CASE Tick
  BY <1>0, <1>15, ResolvedIs, ResolvedIsNext, Second DEF Tick, TypeOK, LedgerInv, InQueue, Sent
<1>16. ASSUME NEW s \in SequenceNumbers, LandEnqueue(s) PROVE LedgerInv'
  BY <1>0, <1>16, ResolvedIs, ResolvedIsNext
     DEF LandEnqueue, TypeOK, EnqueueInv, LedgerInv, InQueue, Sent
<1>17. ASSUME NEW s \in SequenceNumbers, LandComplete(s) PROVE LedgerInv'
  BY <1>0, <1>17, ResolvedIs, ResolvedIsNext
     DEF LandComplete, TypeOK, PlaceInv, LedgerInv, InQueue, Sent
<1>18. ASSUME NEW i \in SequenceNumbers, NEW s \in SequenceNumbers, LandReserve(i, s)
       PROVE  LedgerInv'
  BY <1>0, <1>18, ResolvedIs, ResolvedIsNext DEF LandReserve, TypeOK, LedgerInv, InQueue, Sent
<1>19. ASSUME NEW s \in SequenceNumbers, BrokerLoses(s) PROVE LedgerInv'
  BY <1>0, <1>19, ResolvedIs, ResolvedIsNext DEF BrokerLoses, TypeOK, LedgerInv, InQueue, Sent
<1>20. ASSUME NEW s \in SequenceNumbers, BrokerRevives(s) PROVE LedgerInv'
  BY <1>0, <1>20, ResolvedIs, ResolvedIsNext DEF BrokerRevives, TypeOK, LedgerInv, InQueue, Sent
<1>21. CASE PollItems
  BY <1>0, <1>21, ResolvedIs, ResolvedIsNext
     DEF PollItems, Reconciling, TypeOK, LedgerInv, InQueue, Sent
<1>22. CASE PollWaits
  BY <1>0, <1>22, ResolvedIs, ResolvedIsNext, Second
     DEF PollWaits, Reconciling, TypeOK, LedgerInv, InQueue, Sent
<1>23. ASSUME NEW s \in SequenceNumbers, ReconcileItem(s) PROVE LedgerInv'
  <2>1. CASE s \in observed
    BY <1>0, <1>23, <2>1, ResolvedIs, ResolvedIsNext DEF ReconcileItem, LedgerInv, InQueue, Sent
  <2>2. CASE s \notin observed
    <3>1. /\ observed' = observed \cup {s} /\ batch' = batch \ {s} /\ settled' = settled \cup {s}
          /\ s \in batch /\ s \notin ready /\ lease[s] = 0 /\ InQueue(s)
          /\ UNCHANGED <<clientVars, ready, lease, lost, revived>>
      BY <1>0, <1>23, <2>2 DEF ReconcileItem, PlaceInv, InQueue
    <3>2. \A x \in SequenceNumbers : InQueue(x)' <=> InQueue(x) /\ x # s
      BY <1>0, <3>1 DEF InQueue, TypeOK
    <3>3. s \notin revived => s \in Sent \ settled /\ completed[s] = 0
      BY <1>0, <3>1 DEF LedgerInv, TypeOK
    <3>4. \A x \in SequenceNumbers \ revived : Resolved(x)' <= 1
      BY <1>0, <2>2, <3>1, <3>3, ResolvedIs, ResolvedIsNext DEF LedgerInv, TypeOK
    <3>5. acknowledged \subseteq SequenceNumbers
      BY <1>0 DEF TypeOK
    <3> QED
      BY <1>0, <3>1, <3>2, <3>3, <3>4, <3>5 DEF LedgerInv, Sent
  <2> QED
    BY <2>1, <2>2
<1>24. CASE ReconcilerFails
  BY <1>0, <1>24, ResolvedIs, ResolvedIsNext DEF ReconcilerFails, TypeOK, LedgerInv, InQueue, Sent
<1>25. CASE Judge
  BY <1>0, <1>25, ResolvedIs, ResolvedIsNext DEF Judge, TypeOK, LedgerInv, InQueue, Sent
<1>26. CASE UNCHANGED vars
  BY <1>0, <1>26, ResolvedIs, ResolvedIsNext DEF vars, LedgerInv, InQueue, Sent
<1> QED
  BY <1>1, <1>2, <1>3, <1>4, <1>5, <1>6, <1>7, <1>8, <1>9, <1>10, <1>11, <1>12, <1>13, <1>14,
     <1>15, <1>16, <1>17, <1>18, <1>19, <1>20, <1>21, <1>22, <1>23, <1>24, <1>25, <1>26
     DEF Next, Client, Broker, Reconciler

(* A lost item is nowhere, and one that comes back is noticed. *)
LEMMA NextWrongInv == IInv /\ [Next]_vars => WrongInv'
<1> SUFFICES ASSUME IInv, [Next]_vars PROVE WrongInv'
  OBVIOUS
<1> USE Numbers DEF ledger, clientVars, reconcilerVars, brokerVars
<1>0. TypeOK /\ EnqueueInv /\ PlaceInv /\ LedgerInv /\ DrainInv /\ WrongInv
  BY DEF IInv
(* An item that came back has an entry in the ledgers, or its stage failed. *)
<1>a. \A s \in revived : stageFailed \/ (s \in settled /\ (completed[s] > 0 \/ s \in observed))
  BY <1>0 DEF TypeOK, WrongInv, EnqueueInv, LedgerInv
<1>1. CASE LoopHead
  BY <1>0, <1>1, ResolvedIs, ResolvedIsNext DEF LoopHead, TypeOK, WrongInv, InQueue, Sent
<1>2. CASE Backpressure("enqueue", "enqueueBackoff") \/ Retry("enqueue", "enqueueBackoff")
  BY <1>0, <1>2, ResolvedIs, ResolvedIsNext
     DEF Backpressure, Retry, TypeOK, WrongInv, InQueue, Sent
<1>3. CASE Backpressure("reserve", "reserveBackoff") \/ Retry("reserve", "reserveBackoff")
  BY <1>0, <1>3, ResolvedIs, ResolvedIsNext
     DEF Backpressure, Retry, TypeOK, WrongInv, InQueue, Sent
<1>4. CASE EnqueueAcknowledged
  BY <1>0, <1>4, CounterIsNew, ResolvedIs, ResolvedIsNext
     DEF EnqueueAcknowledged, TypeOK, WrongInv, InQueue, Sent
<1>5. CASE EnqueueAmbiguous
  BY <1>0, <1>5, ResolvedIs, ResolvedIsNext, OperationOver
     DEF EnqueueAmbiguous, AtOperation, TypeOK, WrongInv, InQueue, Sent
<1>6. CASE EnqueueFails
  BY <1>0, <1>6, ResolvedIs, ResolvedIsNext, OperationOver
     DEF EnqueueFails, AtOperation, TypeOK, WrongInv, InQueue, Sent
<1>7. CASE Reserved
  <2>1. PICK s \in ready : /\ ready' = ready \ {s} /\ lease' = [lease EXCEPT ![s] = LeaseSeconds]
                           /\ item' = s /\ redelivered' = redelivered \cup ({s} \cap revived)
    BY <1>7 DEF Reserved
  <2>2. /\ at' = "complete" /\ at = "reserve" /\ observed = {}
        /\ UNCHANGED <<settled, lost, revived, batch, observed, acknowledged, ambiguousEnqueues,
                       failedEnqueues, completed, ambiguousCompletions, stageFailed>>
    BY <1>0, <1>7 DEF Reserved, DrainInv
  <2>3. \A x \in lost : ~InQueue(x)'
    BY <1>0, <2>1, <2>2 DEF WrongInv, InQueue, TypeOK
  <2>4. s \in revived => stageFailed \/ completed[s] > 0
    BY <1>a, <2>2
  <2>5. \A x : Resolved(x)' = Resolved(x)
    BY <2>2 DEF Resolved
  <2> QED
    BY <1>0, <2>1, <2>2, <2>3, <2>4, <2>5 DEF WrongInv, Sent
<1>8. CASE NothingToReserve
  BY <1>0, <1>8, ResolvedIs, ResolvedIsNext, OperationOver
     DEF NothingToReserve, AtOperation, TypeOK, WrongInv, InQueue, Sent
<1>9. CASE ReserveAmbiguous
  BY <1>0, <1>9, ResolvedIs, ResolvedIsNext, OperationOver
     DEF ReserveAmbiguous, AtOperation, TypeOK, WrongInv, InQueue, Sent
<1>10. CASE ReserveFails
  BY <1>0, <1>10, ResolvedIs, ResolvedIsNext, OperationOver
     DEF ReserveFails, AtOperation, TypeOK, WrongInv, InQueue, Sent
<1>11. CASE CompleteAcknowledged
  <2>1. /\ item \in SequenceNumbers /\ InQueue(item) /\ item \notin lost
        /\ completed[item] \in Nat
    BY <1>0, <1>11, HeldIsLeased DEF CompleteAcknowledged, WrongInv, TypeOK
  <2>2. /\ lease' = [lease EXCEPT ![item] = 0] /\ completed' = [completed EXCEPT ![item] = @ + 1]
        /\ settled' = settled \cup {item}
        /\ UNCHANGED <<ready, batch, observed, revived, lost, redelivered, acknowledged,
                       ambiguousEnqueues, failedEnqueues, ambiguousCompletions, stageFailed>>
    BY <1>11 DEF CompleteAcknowledged
  <2>3. \A s \in lost : ~InQueue(s)'
    BY <1>0, <2>1, <2>2 DEF WrongInv, InQueue, TypeOK
  <2>4. \A s \in SequenceNumbers :
          completed'[s] = IF s = item THEN completed[s] + 1 ELSE completed[s]
    BY <1>0, <2>1, <2>2 DEF TypeOK
  <2>5. \A s \in SequenceNumbers : Resolved(s) > 1 => Resolved(s)' > 1
    BY <1>0, <2>2, <2>4, ResolvedIs, ResolvedIsNext DEF TypeOK
  <2>6. \A s \in SequenceNumbers : s = item /\ completed[s] > 0 => Resolved(s)' > 1
    BY <2>1, <2>2, <2>4, ResolvedIsNext
  <2>7. \A s \in redelivered : \/ stageFailed \/ ambiguousCompletions[s] > 0
                               \/ Resolved(s)' > 1 \/ (s \in batch /\ s \in settled)
    <3> SUFFICES ASSUME NEW s \in redelivered
                 PROVE  \/ stageFailed \/ ambiguousCompletions[s] > 0
                        \/ Resolved(s)' > 1 \/ (s \in batch /\ s \in settled)
      OBVIOUS
    <3>1. s \in SequenceNumbers
      BY <1>0 DEF TypeOK
    <3>2. \/ stageFailed \/ ambiguousCompletions[s] > 0 \/ Resolved(s) > 1
          \/ (s \in batch /\ s \in settled) \/ (s = item /\ completed[s] > 0)
      BY <1>0 DEF WrongInv
    <3> QED
      BY <2>5, <2>6, <3>1, <3>2
  <2> QED
    BY <1>0, <2>1, <2>2, <2>3, <2>7 DEF WrongInv, Sent
<1>12. CASE CompleteAmbiguous
  BY <1>0, <1>12, ResolvedIs, ResolvedIsNext, OperationOver
     DEF CompleteAmbiguous, AtOperation, TypeOK, WrongInv, InQueue, Sent
<1>13. CASE CompleteFails
  BY <1>0, <1>13, ResolvedIs, ResolvedIsNext, OperationOver
     DEF CompleteFails, AtOperation, TypeOK, WrongInv, InQueue, Sent
<1>14. CASE Shutdown
  BY <1>0, <1>14, ResolvedIs, ResolvedIsNext DEF Shutdown, TypeOK, WrongInv, InQueue, Sent
<1>15. CASE Tick
  BY <1>0, <1>15, ResolvedIs, ResolvedIsNext, Second DEF Tick, TypeOK, WrongInv, InQueue, Sent
<1>16. ASSUME NEW s \in SequenceNumbers, LandEnqueue(s) PROVE WrongInv'
  BY <1>0, <1>16, ResolvedIs, ResolvedIsNext
     DEF LandEnqueue, TypeOK, EnqueueInv, WrongInv, InQueue, Sent
<1>17. ASSUME NEW s \in SequenceNumbers, LandComplete(s) PROVE WrongInv'
  BY <1>0, <1>17, ResolvedIs, ResolvedIsNext DEF LandComplete, TypeOK, WrongInv, InQueue, Sent
<1>18. ASSUME NEW i \in SequenceNumbers, NEW s \in SequenceNumbers, LandReserve(i, s)
       PROVE  WrongInv'
  BY <1>0, <1>18, ResolvedIs, ResolvedIsNext DEF LandReserve, TypeOK, WrongInv, InQueue, Sent
<1>19. ASSUME NEW s \in SequenceNumbers, BrokerLoses(s) PROVE WrongInv'
  BY <1>0, <1>19, ResolvedIs, ResolvedIsNext
     DEF BrokerLoses, TypeOK, PlaceInv, LedgerInv, WrongInv, InQueue, Sent
<1>20. ASSUME NEW s \in SequenceNumbers, BrokerRevives(s) PROVE WrongInv'
  BY <1>0, <1>20, ResolvedIs, ResolvedIsNext
     DEF BrokerRevives, TypeOK, EnqueueInv, WrongInv, InQueue, Sent
<1>21. CASE PollItems
  <2>1. PICK items \in SUBSET ready \ {{}} :
          /\ batch' = items /\ ready' = ready \ items
          /\ redelivered' = redelivered \cup (items \cap revived)
    BY <1>21 DEF PollItems
  <2>2. /\ batch = {} /\ at = "stopped"
        /\ UNCHANGED <<clientVars, observed, lease, settled, lost, revived>>
    BY <1>21 DEF PollItems, Reconciling
  <2>3. \A s \in lost : ~InQueue(s)'
    BY <1>0, <2>1, <2>2 DEF WrongInv, InQueue
  <2>4. \A s : Resolved(s)' = Resolved(s)
    BY <2>2 DEF Resolved
  <2>5. \A s \in redelivered' : \/ stageFailed \/ ambiguousCompletions[s] > 0
                                \/ Resolved(s) > 1 \/ (s \in batch' /\ s \in settled)
    BY <1>0, <1>a, <2>1, <2>2 DEF WrongInv
  <2> QED
    BY <1>0, <2>1, <2>2, <2>3, <2>4, <2>5 DEF WrongInv, Sent
<1>22. CASE PollWaits
  BY <1>0, <1>22, ResolvedIs, ResolvedIsNext, Second
     DEF PollWaits, Reconciling, TypeOK, WrongInv, InQueue, Sent
<1>23. ASSUME NEW s \in SequenceNumbers, ReconcileItem(s) PROVE WrongInv'
  <2>1. CASE s \in observed
    BY <1>0, <1>23, <2>1, ResolvedIs, ResolvedIsNext DEF ReconcileItem, WrongInv, InQueue, Sent
  <2>2. CASE s \notin observed
    <3>1. /\ observed' = observed \cup {s} /\ batch' = batch \ {s} /\ settled' = settled \cup {s}
          /\ s \in batch /\ InQueue(s) /\ s \notin lost
          /\ UNCHANGED <<clientVars, ready, lease, lost, revived, redelivered>>
      BY <1>0, <1>23, <2>2 DEF ReconcileItem, WrongInv, InQueue
    <3>2. \A x \in lost : ~InQueue(x)'
      BY <1>0, <3>1 DEF WrongInv, InQueue
    <3>3. /\ \A x \in SequenceNumbers : Resolved(x) > 1 => Resolved(x)' > 1
          /\ completed[s] > 0 => Resolved(s)' > 1
      BY <1>0, <3>1, ResolvedIs, ResolvedIsNext DEF TypeOK
    <3>4. s \in settled => completed[s] > 0
      BY <1>0, <2>2 DEF LedgerInv
    <3>5. \A x \in redelivered : \/ stageFailed \/ ambiguousCompletions[x] > 0
                                 \/ Resolved(x)' > 1 \/ (x \in batch' /\ x \in settled)
                                 \/ (at = "complete" /\ item = x /\ completed[x] > 0)
      <4> SUFFICES ASSUME NEW x \in redelivered
                   PROVE  \/ stageFailed \/ ambiguousCompletions[x] > 0
                          \/ Resolved(x)' > 1 \/ (x \in batch' /\ x \in settled)
                          \/ (at = "complete" /\ item = x /\ completed[x] > 0)
        OBVIOUS
      <4>1. x \in SequenceNumbers
        BY <1>0 DEF TypeOK
      <4>2. \/ stageFailed \/ ambiguousCompletions[x] > 0 \/ Resolved(x) > 1
            \/ (x \in batch /\ x \in settled) \/ (at = "complete" /\ item = x /\ completed[x] > 0)
        BY <1>0 DEF WrongInv
      <4> QED
        BY <3>1, <3>3, <3>4, <4>1, <4>2
    <3> QED
      BY <1>0, <3>1, <3>2, <3>5 DEF WrongInv, Sent
  <2> QED
    BY <2>1, <2>2
<1>24. CASE ReconcilerFails
  BY <1>0, <1>24, ResolvedIs, ResolvedIsNext DEF ReconcilerFails, TypeOK, WrongInv, InQueue, Sent
<1>25. CASE Judge
  BY <1>0, <1>25, ResolvedIs, ResolvedIsNext DEF Judge, TypeOK, WrongInv, InQueue, Sent
<1>26. CASE UNCHANGED vars
  BY <1>0, <1>26, ResolvedIs, ResolvedIsNext DEF vars, WrongInv, InQueue, Sent
<1> QED
  BY <1>1, <1>2, <1>3, <1>4, <1>5, <1>6, <1>7, <1>8, <1>9, <1>10, <1>11, <1>12, <1>13, <1>14,
     <1>15, <1>16, <1>17, <1>18, <1>19, <1>20, <1>21, <1>22, <1>23, <1>24, <1>25, <1>26
     DEF Next, Client, Broker, Reconciler

(* The verdict is true. *)
LEMMA NextVerdict == IInv /\ [Next]_vars => Verdict'
<1> SUFFICES ASSUME IInv, [Next]_vars PROVE Verdict'
  OBVIOUS
<1> USE Numbers DEF ledger, clientVars, reconcilerVars, brokerVars
<1>0. TypeOK /\ EnqueueInv /\ PlaceInv /\ LedgerInv /\ DrainInv /\ WrongInv /\ Verdict
  BY DEF IInv
<1>1. CASE LoopHead
  BY <1>0, <1>1
     DEF LoopHead, TypeOK, DrainInv, Verdict, NoFalseAlarm, AcceptedIsExact, AcceptedIsDrained
<1>2. CASE Backpressure("enqueue", "enqueueBackoff") \/ Retry("enqueue", "enqueueBackoff")
  BY <1>0, <1>2
     DEF Backpressure, Retry, TypeOK, DrainInv, Verdict, NoFalseAlarm, AcceptedIsExact,
         AcceptedIsDrained
<1>3. CASE Backpressure("reserve", "reserveBackoff") \/ Retry("reserve", "reserveBackoff")
  BY <1>0, <1>3
     DEF Backpressure, Retry, TypeOK, DrainInv, Verdict, NoFalseAlarm, AcceptedIsExact,
         AcceptedIsDrained
<1>4. CASE EnqueueAcknowledged
  BY <1>0, <1>4
     DEF EnqueueAcknowledged, TypeOK, DrainInv, Verdict, NoFalseAlarm, AcceptedIsExact,
         AcceptedIsDrained
<1>5. CASE EnqueueAmbiguous
  BY <1>0, <1>5, OperationOver
     DEF EnqueueAmbiguous, AtOperation, TypeOK, DrainInv, Verdict, NoFalseAlarm, AcceptedIsExact,
         AcceptedIsDrained
<1>6. CASE EnqueueFails
  BY <1>0, <1>6, OperationOver
     DEF EnqueueFails, AtOperation, TypeOK, DrainInv, Verdict, NoFalseAlarm, AcceptedIsExact,
         AcceptedIsDrained
<1>7. CASE Reserved
  BY <1>0, <1>7
     DEF Reserved, TypeOK, DrainInv, Verdict, NoFalseAlarm, AcceptedIsExact, AcceptedIsDrained
<1>8. CASE NothingToReserve
  BY <1>0, <1>8, OperationOver
     DEF NothingToReserve, AtOperation, TypeOK, DrainInv, Verdict, NoFalseAlarm, AcceptedIsExact,
         AcceptedIsDrained
<1>9. CASE ReserveAmbiguous
  BY <1>0, <1>9, OperationOver
     DEF ReserveAmbiguous, AtOperation, TypeOK, DrainInv, Verdict, NoFalseAlarm, AcceptedIsExact,
         AcceptedIsDrained
<1>10. CASE ReserveFails
  BY <1>0, <1>10, OperationOver
     DEF ReserveFails, AtOperation, TypeOK, DrainInv, Verdict, NoFalseAlarm, AcceptedIsExact,
         AcceptedIsDrained
<1>11. CASE CompleteAcknowledged
  BY <1>0, <1>11, OperationOver
     DEF CompleteAcknowledged, AtOperation, TypeOK, DrainInv, Verdict, NoFalseAlarm,
         AcceptedIsExact, AcceptedIsDrained
<1>12. CASE CompleteAmbiguous
  BY <1>0, <1>12, OperationOver
     DEF CompleteAmbiguous, AtOperation, TypeOK, DrainInv, Verdict, NoFalseAlarm, AcceptedIsExact,
         AcceptedIsDrained
<1>13. CASE CompleteFails
  BY <1>0, <1>13, OperationOver
     DEF CompleteFails, AtOperation, TypeOK, DrainInv, Verdict, NoFalseAlarm, AcceptedIsExact,
         AcceptedIsDrained
<1>14. CASE Shutdown
  BY <1>0, <1>14
     DEF Shutdown, TypeOK, DrainInv, Verdict, NoFalseAlarm, AcceptedIsExact, AcceptedIsDrained
<1>15. CASE Tick
  BY <1>0, <1>15, Second
     DEF Tick, TypeOK, DrainInv, Verdict, NoFalseAlarm, AcceptedIsExact, AcceptedIsDrained
<1>16. ASSUME NEW s \in SequenceNumbers, LandEnqueue(s) PROVE Verdict'
  BY <1>0, <1>16
     DEF LandEnqueue, TypeOK, DrainInv, Verdict, NoFalseAlarm, AcceptedIsExact, AcceptedIsDrained
<1>17. ASSUME NEW s \in SequenceNumbers, LandComplete(s) PROVE Verdict'
  BY <1>0, <1>17
     DEF LandComplete, TypeOK, DrainInv, Verdict, NoFalseAlarm, AcceptedIsExact, AcceptedIsDrained
<1>18. ASSUME NEW i \in SequenceNumbers, NEW s \in SequenceNumbers, LandReserve(i, s)
       PROVE  Verdict'
  BY <1>0, <1>18
     DEF LandReserve, TypeOK, DrainInv, Verdict, NoFalseAlarm, AcceptedIsExact, AcceptedIsDrained
<1>19. ASSUME NEW s \in SequenceNumbers, BrokerLoses(s) PROVE Verdict'
  BY <1>0, <1>19
     DEF BrokerLoses, TypeOK, DrainInv, Verdict, NoFalseAlarm, AcceptedIsExact, AcceptedIsDrained
<1>20. ASSUME NEW s \in SequenceNumbers, BrokerRevives(s) PROVE Verdict'
  BY <1>0, <1>20
     DEF BrokerRevives, TypeOK, DrainInv, Verdict, NoFalseAlarm, AcceptedIsExact,
         AcceptedIsDrained
<1>21. CASE PollItems
  BY <1>0, <1>21
     DEF PollItems, Reconciling, TypeOK, DrainInv, Verdict, NoFalseAlarm, AcceptedIsExact,
         AcceptedIsDrained
<1>22. CASE PollWaits
  BY <1>0, <1>22, Second
     DEF PollWaits, Reconciling, TypeOK, DrainInv, Verdict, NoFalseAlarm, AcceptedIsExact,
         AcceptedIsDrained
<1>23. ASSUME NEW s \in SequenceNumbers, ReconcileItem(s) PROVE Verdict'
  <2>1. CASE s \in observed
    <3>1. s \in revived
      BY <1>0, <1>23, <2>1 DEF ReconcileItem, LedgerInv, InQueue
    <3> QED
      BY <1>0, <1>23, <2>1, <3>1 DEF ReconcileItem, Verdict, NoFalseAlarm, AcceptedIsExact,
         AcceptedIsDrained
  <2>2. CASE s \notin observed
    BY <1>0, <1>23, <2>2
       DEF ReconcileItem, Verdict, NoFalseAlarm, AcceptedIsExact, AcceptedIsDrained
  <2> QED
    BY <2>1, <2>2
<1>24. CASE ReconcilerFails
  BY <1>0, <1>24
     DEF ReconcilerFails, TypeOK, DrainInv, Verdict, NoFalseAlarm, AcceptedIsExact,
         AcceptedIsDrained
<1>25. CASE Judge
  <2>1. /\ outcome' = IF ~Reconciled THEN "rejected" ELSE IF stageFailed THEN "errors" ELSE "passed"
        /\ emptyPolls = EmptyPolls /\ UNCHANGED <<clientVars, brokerVars>>
    BY <1>25 DEF Judge
  <2>2. /\ batch = {} /\ at = "stopped" /\ ready \subseteq revived
        /\ \A s \in SequenceNumbers : lease[s] = 0
    BY <1>0, <2>1 DEF DrainInv, TypeOK
  <2>3. \A s \in SequenceNumbers : InQueue(s) => s \in revived
    BY <2>2 DEF InQueue
  <2>4. \A s \in SequenceNumbers : Resolved(s) \in Nat /\ (Resolved(s) > 0 <=> s \in settled)
    BY <1>0, ResolvedIs DEF TypeOK, LedgerInv
  <2>5. AcceptedIsDrained'
    BY <1>0, <2>1, <2>2 DEF AcceptedIsDrained, TypeOK
  <2>6. ASSUME lost = {}, revived = {}, \A s \in SequenceNumbers : ambiguousCompletions[s] <= 1
        PROVE  Reconciled
    <3>1. \A s \in SequenceNumbers : completed[s] <= 1 /\ ambiguousCompletions[s] <= 1
      BY <1>0, <2>6, ResolvedIs DEF LedgerInv, TypeOK
    <3>2. \A s \in SequenceNumbers : Resolved(s) + ambiguousCompletions[s] > 0 => s \in Sent
      BY <1>0, <2>4, <2>6 DEF LedgerInv, TypeOK
    <3>3. \A s \in SequenceNumbers : Resolved(s) <= 1
      BY <1>0, <2>6 DEF LedgerInv
    <3>4. \A s \in acknowledged : ambiguousCompletions[s] = 0 => Resolved(s) = 1
      BY <1>0, <2>3, <2>4, <2>6, <3>3 DEF LedgerInv, TypeOK
    <3> QED
      BY <1>0, <3>1, <3>2, <3>3, <3>4 DEF Reconciled, Sent, TypeOK
  <2>7. NoFalseAlarm'
    BY <1>0, <2>1, <2>6 DEF NoFalseAlarm, TypeOK
  <2>8. ASSUME Reconciled, NEW s \in lost, s \in acknowledged, ambiguousCompletions[s] = 0
        PROVE  FALSE
    <3>1. s \in SequenceNumbers /\ s \notin settled
      BY <1>0, <2>8 DEF WrongInv, TypeOK
    <3> QED
      BY <2>4, <2>8, <3>1 DEF Reconciled
  <2>9. ASSUME Reconciled, ~stageFailed, NEW s \in redelivered, ambiguousCompletions[s] = 0
        PROVE  FALSE
    <3>1. s \in SequenceNumbers /\ Resolved(s) > 1
      BY <1>0, <2>2, <2>9 DEF WrongInv, TypeOK
    <3>2. s \in acknowledged \cup ambiguousEnqueues
      BY <1>0, <2>4, <2>9, <3>1 DEF Reconciled, TypeOK
    <3> QED
      BY <2>4, <2>9, <3>1, <3>2 DEF Reconciled
  <2>10. AcceptedIsExact'
    BY <1>0, <2>1, <2>8, <2>9 DEF AcceptedIsExact, TypeOK
  <2> QED
    BY <2>5, <2>7, <2>10 DEF Verdict
<1>26. CASE UNCHANGED vars
  BY <1>0, <1>26
     DEF vars, TypeOK, DrainInv, Verdict, NoFalseAlarm, AcceptedIsExact, AcceptedIsDrained
<1> QED
  BY <1>1, <1>2, <1>3, <1>4, <1>5, <1>6, <1>7, <1>8, <1>9, <1>10, <1>11, <1>12, <1>13, <1>14,
     <1>15, <1>16, <1>17, <1>18, <1>19, <1>20, <1>21, <1>22, <1>23, <1>24, <1>25, <1>26
     DEF Next, Client, Broker, Reconciler

(* Init establishes the inductive invariant. *)
LEMMA InitIInv == Init => IInv
<1> SUFFICES ASSUME Init PROVE IInv
  OBVIOUS
<1>1. TypeOK
  <2>1. counter \in 0..MaxOps /\ item \in 0..MaxOps /\ emptyPolls \in 0..EmptyPolls
    BY Numbers DEF Init
  <2>2. /\ completed \in [SequenceNumbers -> Nat] /\ ambiguousCompletions \in [SequenceNumbers -> Nat]
        /\ lease \in [SequenceNumbers -> 0..LeaseSeconds]
    BY Numbers DEF Init
  <2> QED
    BY <2>1, <2>2 DEF Init, TypeOK, AtOperation
<1>2. \A s \in SequenceNumbers : Resolved(s) = completed[s]
  BY ResolvedIs, Numbers DEF Init
<1>3. EnqueueInv /\ PlaceInv /\ WrongInv
  BY Numbers DEF Init, EnqueueInv, PlaceInv, WrongInv, InQueue, Sent, Recorded
<1>4. LedgerInv
  BY <1>2, Numbers DEF Init, LedgerInv, InQueue, Sent
<1>5. DrainInv /\ Verdict
  BY Numbers DEF Init, DrainInv, Verdict, NoFalseAlarm, AcceptedIsExact, AcceptedIsDrained
<1> QED
  BY <1>1, <1>3, <1>4, <1>5 DEF IInv

(* The inductive invariant holds of every run: whatever requests time out,
   wherever the client is stopped, and whatever the broker does wrong. *)
THEOREM PressureInvariant == Spec => []IInv
<1>1. Init => IInv
  BY InitIInv
<1>2. IInv /\ [Next]_vars => IInv'
  BY NextTypeOK, NextEnqueueInv, NextPlaceInv, NextLedgerInv, NextWrongInv, NextDrainInv,
     NextVerdict DEF IInv
<1> QED
  BY <1>1, <1>2, PTL DEF Spec

(* Every variable keeps its type: the counter of domainLoop stays within the
   operations, and no lease exceeds LeaseSeconds. *)
THEOREM PressureTypeOK == Spec => []TypeOK
<1>1. IInv => TypeOK
  BY DEF IInv
<1> QED
  BY <1>1, PressureInvariant, PTL

(* reconcileQueueOutcomes rejects no broker that has served every item
   correctly, for any number of operations and any interleaving of time-outs,
   expiring leases and the shutdown. *)
THEOREM PressureNoFalseAlarm == Spec => []NoFalseAlarm
<1>1. IInv => NoFalseAlarm
  BY DEF IInv, Verdict
<1> QED
  BY <1>1, PressureInvariant, PTL

(* A run that reconcileQueueOutcomes lets pass has lost no acknowledged item,
   delivered none again and left none behind, but for those that a completion
   of unknown outcome hides. *)
THEOREM PressureAcceptedIsTrue == Spec => []AcceptedIsTrue
<1>1. IInv => AcceptedIsTrue
  BY DEF IInv, Verdict, AcceptedIsTrue
<1> QED
  BY <1>1, PressureInvariant, PTL
=============================================================================
