----------------------- MODULE ScheduleScenariosProofs -----------------------
(* Proofs about ScheduleScenarios: for every set of subscribers and number of
   definitions, both verdicts tell the truth and nothing is left behind. *)
EXTENDS ScheduleScenarios, FiniteSetTheorems, TLAPS

StepNames ==
    {"startSubscribers", "awaitReady", "awaitRegistered", "create", "finishCreate", "awaitCreated",
     "margin", "stop", "start", "awaitRecovered", "sleepStop", "sleepMissed", "checkMissed",
     "startCanceller", "sleepDrained", "finishCanceller", "signal", "finishSubscribers",
     "cleanup", "finishCleanup", "quiesce", "startStorm", "awaitArmed", "finishStorm",
     "stopSubscribers", "awaitStopped"}

PcNames ==
    {"none", "starting", "ready", "stopping", "creating", "cancelling", "cleaning", "running",
     "armed", "window", "post", "cancelStorm", "closing", "finally", "done", "failed"}

Verdicts == {"rejected", "margin", "timeout"}

(* Every variable has its type. *)
DriverType ==
    /\ scenario \in {"delivery", "outage", "storm"}
    /\ todo \in Seq(StepNames)
    /\ verdict \in {"none"} \cup Verdicts
    /\ outcome \in {"none", "passed"} \cup Verdicts

ClientType ==
    /\ now \in 0..LastInstant
    /\ pc \in [Roles -> PcNames]
    /\ create \in [AllDefinitions -> {"idle", "sent", "acked", "failed"}]
    /\ left \in SUBSET AllDefinitions /\ cancelled \in SUBSET Definitions
    /\ canary \in {"off", "create", "cancel", "stopped"}
    /\ evidence \in {"none", "clean", "disturbed"}

LedgerType ==
    /\ seen \in [Subscribers -> SUBSET Definitions]
    /\ duplicates \in SUBSET Subscribers /\ invalid \in SUBSET Subscribers
    /\ missed \in SUBSET Subscribers /\ saturated \in BOOLEAN
    /\ early \in SUBSET Definitions /\ unjudged \in SUBSET Definitions
    /\ delivered \in [Subscribers \X AllDefinitions -> Nat]

BrokerType ==
    /\ up \in BOOLEAN
    /\ defs \in SUBSET AllDefinitions /\ subs \in SUBSET Subscribers /\ made \in SUBSET Definitions
    /\ fired \in SUBSET (Definitions \X (0..LastInstant))
    /\ pending \in SUBSET (Subscribers \X Definitions \X {"once", "again", "corrupt"})
    /\ misbehaved \in BOOLEAN /\ refused \in SUBSET Definitions
    /\ overran \in BOOLEAN /\ tardy \in BOOLEAN

StackType ==
    /\ cleanups \in Nat /\ baseline \in Nat /\ astray \in SUBSET Subscribers

TypeOK == DriverType /\ ClientType /\ LedgerType /\ BrokerType /\ StackType

(* The driver is in its try block, or after it, and has not decided yet; the
   steps that are left are the last ones of its script. *)
Running == verdict = "none" /\ outcome = "none"
Remains(q, p) == Len(q) \in 1..Len(p) /\ \A i \in 1..Len(q) : q[i] = p[i + Len(p) - Len(q)]
Ahead == Len(todo)

Place ==
    /\ Running => Remains(todo, Steps[scenario])
    /\ verdict # "none" =>
          /\ scenario # "storm" /\ outcome # "passed"
          /\ todo \in {<<"stopSubscribers", "awaitStopped">>, <<"awaitStopped">>}

(* The try block has been left without an error. *)
Collected == (Running /\ Ahead <= 3) \/ outcome = "passed"

(* The fleet has not been started; nobody will signal it any more. *)
Unstarted ==
    /\ Running
    /\ (scenario = "delivery" /\ Ahead = 17) \/ (scenario = "outage" /\ Ahead = 18)
Dismissed == outcome # "none" \/ (verdict # "none" /\ todo = <<"awaitStopped">>)
AllTold == \A s \in Subscribers : Told(s) \/ s \in astray

(* Once the fleet has been judged it is gone, and its ledgers stay as they were
   judged; an error signals it first. *)
FleetInv ==
    scenario # "storm" =>
        /\ Collected => Finished(Subscribers) /\ Accepted
        /\ Unstarted => \A s \in Subscribers : Told(s)
        /\ Dismissed => AllTold

(* A ledger without objections counts what was delivered. *)
LedgerInv ==
    /\ scenario = "outage" => invalid = {}
    /\ \A s \in Subscribers, d \in Definitions :
          /\ d \in seen[s] => delivered[<<s, d>>] >= 1
          /\ s \notin duplicates /\ s \notin invalid =>
                delivered[<<s, d>>] = IF d \in seen[s] THEN 1 ELSE 0

(* In the outage a ledger without objections knows no early delivery. *)
EarlyInv ==
    scenario = "outage" /\ missed = {} =>
        /\ early = {}
        /\ now < Again => \A s \in Subscribers : seen[s] = {}

(* The worker of a storm that passes has seen every definition fire, and has
   judged what was delivered up to its verdict. *)
StormSeenInv ==
    scenario = "storm" =>
        /\ pc["worker"] = "done" => pc[AnySubscriber] = "done"
        /\ pc["worker"] \in {"closing", "done"} =>
              AllSeen /\ \A d \in Definitions : delivered[<<AnySubscriber, d>>] = 1 \/ d \in unjudged
        /\ (Running /\ Ahead = 1) \/ outcome = "passed" => pc["worker"] = "done"

(* A request of the storm has failed. *)
Excused == \E d \in Definitions : create[d] = "failed" \/ d \in refused

(* What the worker of a storm still has to take back. *)
StormCleanInv ==
    /\ defs \cap Definitions \subseteq made /\ cancelled \subseteq made
    /\ scenario = "storm" /\ ~Excused =>
        /\ cancelled \cap defs = {}
        /\ pc["worker"] \notin {"none", "creating"} => AllCreated
        /\ pc["worker"] \in {"finally", "closing"} => defs \cap Definitions \subseteq left
        /\ pc["worker"] \in {"done", "failed"} => defs \cap Definitions = {}
-----------------------------------------------------------------------------
(* Runs with a correct broker, and without the instants and handlers that are
   excepted. *)

(* A snapshot of a counter is of the process that is compared with it; a client
   that is saturated is late. *)
StackInv ==
    /\ saturated => tardy
    /\ scenario # "delivery" => baseline = 0
    /\ scenario = "delivery" /\ Running /\ Ahead <= 6 => baseline <= cleanups

Correct == ~misbehaved /\ ~overran /\ ~tardy

(* When definitions fire, and for whom. *)
Instant == IF scenario = "outage" THEN Again ELSE Due
Audience == IF scenario = "storm" THEN {AnySubscriber} ELSE Subscribers
Reached(s, d) == <<s, d, "once">> \in pending \/ d \in seen[s]

(* Every occurrence reaches those that it is for, once. *)
FireInv ==
    /\ duplicates = {} /\ invalid = {} /\ missed = {}
    /\ \A n \in pending : n[3] = "once" /\ n[2] \notin seen[n[1]]
    /\ \A f \in fired : f[2] = Instant
    /\ fired # {} => now >= Instant
    /\ scenario # "outage" /\ pending # {} => now = Due
    /\ \A d \in Definitions : <<d, Instant>> \notin fired => \A s \in Subscribers : ~Reached(s, d)
    /\ \A d \in Definitions : <<d, Instant>> \in fired =>
          IF Broadcast(d) THEN \A s \in Audience : Reached(s, d)
          ELSE \E s \in Subscribers : \A t \in Subscribers : Reached(t, d) <=> t = s

(* A worker that creates has its definitions acknowledged as they are made. *)
CreatedInv ==
    /\ \A d \in Definitions : create[d] # "failed"
    /\ \A d \in Definitions : create[d] = "acked" <=> d \in made
    /\ pc["worker"] = "none" => \A d \in Definitions : create[d] = "idle"
    /\ pc["worker"] = "creating" => defs = made
    /\ pc["worker"] \notin {"none", "creating"} => AllCreated
    /\ scenario # "storm" => canary = "off"

Kept == OfKind({"broadcast", "single"})

(* schedule-delivery, by the number of steps that are ahead. *)
DeliveryRoles ==
    /\ Ahead = 17 => \A s \in Subscribers : pc[s] = "none"
    /\ Ahead \in 5..16 => \A s \in Subscribers : pc[s] \in {"starting", "ready"}
    /\ Ahead <= 4 => \A s \in Subscribers : pc[s] \in {"stopping", "done"}
    /\ Ahead >= 14 => pc["worker"] = "none"
    /\ Ahead = 13 => pc["worker"] \in {"creating", "cancelling", "done"}
    /\ Ahead \in 3..12 => pc["worker"] = "done"
    /\ Ahead = 2 => pc["worker"] \in {"cleaning", "done"}
    /\ Ahead = 1 => pc["worker"] = "done"

DeliveryDefs ==
    /\ pc["worker"] = "none" => defs = {}
    /\ pc["worker"] = "cancelling" => left \subseteq OfKind({"cancelled"}) /\ defs = Kept \cup left
    /\ pc["worker"] = "cleaning" => defs = left
    /\ pc["worker"] = "done" => defs = IF Ahead <= 2 THEN {} ELSE Kept

DeliveryTime ==
    /\ Ahead >= 7 => now <= 1
    /\ Ahead <= 5 => now > Due
    /\ Ahead \in 5..7 => subs = Subscribers
    /\ Ahead # 9 => up
    /\ Ahead <= 4 => subs = {}
    /\ now > Due => \A d \in Kept : <<d, Due>> \in fired
    /\ \A d \in OfKind({"cancelled"}) : <<d, Due>> \notin fired

DeliveryInv == DeliveryRoles /\ DeliveryDefs /\ DeliveryTime

Repeated == OfKind({"repeated"})
Race == OfKind({"race"})

(* schedule-outage. *)
OutageRoles ==
    /\ Ahead = 18 => \A s \in Subscribers : pc[s] = "none"
    /\ Ahead \in 5..17 => \A s \in Subscribers : pc[s] \in {"starting", "ready"}
    /\ Ahead <= 4 => \A s \in Subscribers : pc[s] \in {"stopping", "done"}
    /\ Ahead >= 16 => pc["worker"] = "none"
    /\ Ahead = 15 => pc["worker"] \in {"creating", "done"}
    /\ Ahead \in 3..14 => pc["worker"] = "done"
    /\ Ahead = 2 => pc["worker"] \in {"cleaning", "done"}
    /\ Ahead = 1 => pc["worker"] = "done"
    /\ Ahead >= 8 => pc["canceller"] = "none"
    /\ Ahead \in 6..7 => pc["canceller"] \in {"running", "done"}
    /\ Ahead <= 5 => pc["canceller"] = "done"

OutageDefs ==
    /\ pc["worker"] = "none" => defs = {}
    /\ pc["worker"] = "done" /\ pc["canceller"] = "none" => defs = Definitions
    /\ pc["canceller"] = "running" => left \subseteq Race /\ defs = Repeated \cup left
    /\ Ahead \in 3..7 /\ pc["canceller"] = "done" => defs = Repeated
    /\ pc["worker"] = "cleaning" => defs = left
    /\ Ahead <= 2 /\ pc["worker"] = "done" => defs = {}

OutageTime ==
    /\ Ahead >= 12 => now <= 1 /\ up
    /\ Ahead \in 10..11 => now <= 3 /\ ~up /\ subs = {}
    /\ Ahead <= 10 => now >= 3
    /\ Ahead <= 9 => up
    /\ Ahead <= 6 => now = LastInstant
    /\ now >= Again /\ Ahead >= 5 => subs = Subscribers
    /\ Ahead <= 4 => subs = {}
    /\ now > Again => \A d \in Repeated : <<d, Again>> \in fired
    /\ \A s \in Subscribers : pc[s] = "done" => \A n \in pending : n[1] # s

OutageInv == OutageRoles /\ OutageDefs /\ OutageTime

(* schedule-due-storm-isolation, by the place of its worker. *)
StormRoles ==
    /\ up
    /\ Ahead = 5 => \A r \in Roles : pc[r] = "none"
    /\ Ahead < 5 => pc["worker"] \in {"creating", "armed", "window", "post", "cancelStorm",
                                      "closing", "done"}
    /\ \A s \in Subscribers \ {AnySubscriber} : pc[s] = "none"
    /\ pc["worker"] = "done" => pc[AnySubscriber] = "done"
    /\ pc["worker"] \notin {"none", "done"} => pc[AnySubscriber] = "ready"
    /\ Ahead = 1 => pc["worker"] = "done"

StormDefs ==
    /\ subs \subseteq {AnySubscriber}
    /\ pc["worker"] # "done" /\ (\E d \in Definitions : create[d] # "idle") => AnySubscriber \in subs
    /\ pc["worker"] = "done" => subs = {}
    /\ pc["worker"] \in {"none", "creating", "armed"} => canary = "off" /\ evidence = "none"
    /\ pc["worker"] \notin {"none", "creating", "armed"} => evidence = "clean" /\ now >= 1
    /\ pc["worker"] \in {"post", "cancelStorm", "closing", "done"} => canary = "stopped" /\ now > Due
    /\ Canary \in defs => canary = "cancel"
    /\ pc["worker"] = "none" => defs = {}
    /\ pc["worker"] \in {"armed", "window", "post"} => defs \ {Canary} = Definitions /\ cancelled = {}
    /\ pc["worker"] = "creating" => cancelled = {}
    /\ pc["worker"] = "cancelStorm" =>
          left \subseteq Definitions /\ defs = left /\ cancelled = Definitions \ left
    /\ pc["worker"] \in {"closing", "done"} => defs = {} /\ left = {}

StormTime ==
    /\ pc["worker"] \in {"none", "creating"} => cancelled = {}
    /\ pc["worker"] \in {"armed", "window"} /\ now > Due =>
          \A d \in Definitions : <<d, Due>> \in fired
    /\ pc["worker"] \in {"post", "cancelStorm", "closing", "done"} => AllSeen

StormInv == StormRoles /\ StormDefs /\ StormTime

CorrectInv ==
    Correct =>
        /\ verdict # "rejected" /\ outcome # "rejected"
        /\ Running => /\ FireInv /\ CreatedInv
                      /\ scenario = "delivery" => DeliveryInv
                      /\ scenario = "outage" => OutageInv
                      /\ scenario = "storm" => StormInv

(* The inductive invariant. *)
IInv ==
    /\ TypeOK /\ Place /\ FleetInv /\ LedgerInv /\ EarlyInv /\ StormSeenInv /\ StormCleanInv
    /\ StackInv /\ CorrectInv
-----------------------------------------------------------------------------
(* The driver's script. *)

(* What is left after the first step is again the end of the script. *)
LEMMA TailRemains ==
    ASSUME NEW P \in Seq(StepNames), NEW q \in Seq(StepNames), Remains(q, P)
    PROVE  /\ q # <<>> /\ Len(q) \in Nat /\ Len(P) \in Nat /\ Len(q) >= 1 /\ Len(q) <= Len(P)
           /\ Head(q) = P[Len(P) - Len(q) + 1]
           /\ Tail(q) \in Seq(StepNames) /\ Len(Tail(q)) = Len(q) - 1
           /\ Len(q) > 1 => Remains(Tail(q), P) /\ Head(Tail(q)) = P[Len(P) - Len(q) + 2]
<1>1. /\ Len(q) \in 1..Len(P) /\ Len(P) \in Nat /\ q # <<>>
      /\ Head(q) = q[1] /\ Tail(q) \in Seq(StepNames) /\ Len(Tail(q)) = Len(q) - 1
      /\ \A i \in 1..Len(Tail(q)) : Tail(q)[i] = q[i + 1]
  BY DEF Remains
<1>2. Head(q) = P[Len(P) - Len(q) + 1]
  BY <1>1 DEF Remains
<1>3. ASSUME Len(q) > 1, NEW i \in 1..Len(Tail(q))
      PROVE  Tail(q)[i] = P[i + Len(P) - Len(Tail(q))]
  <2>1. i + 1 \in 1..Len(q) /\ (i + 1) + Len(P) - Len(q) = i + Len(P) - Len(Tail(q))
    BY <1>1
  <2> QED
    BY <1>1, <2>1 DEF Remains
<1>4. ASSUME Len(q) > 1 PROVE Head(Tail(q)) = P[Len(P) - Len(q) + 2]
  <2>1. Tail(q) # <<>> /\ Head(Tail(q)) = Tail(q)[1]
    BY <1>1, <1>4
  <2>2. 1 \in 1..Len(Tail(q)) /\ 1 + Len(P) - Len(Tail(q)) = Len(P) - Len(q) + 2
    BY <1>1, <1>4
  <2> QED
    BY <2>1, <2>2, <1>3, <1>4
<1> QED
  BY <1>1, <1>2, <1>3, <1>4 DEF Remains

(* A whole program is the end of itself. *)
LEMMA WholeRemains ==
    ASSUME NEW P \in Seq(StepNames), Len(P) \in Nat, Len(P) > 0
    PROVE  Remains(P, P)
BY DEF Remains

(* The steps of schedule-delivery. *)
LEMMA DeliveryScript ==
    /\ DeliverySteps \in Seq(StepNames) /\ Len(DeliverySteps) = 17
    /\ DeliverySteps[1] = "startSubscribers" /\ DeliverySteps[2] = "awaitReady"
    /\ DeliverySteps[3] = "awaitRegistered" /\ DeliverySteps[4] = "create"
    /\ DeliverySteps[5] = "finishCreate" /\ DeliverySteps[6] = "awaitCreated"
    /\ DeliverySteps[7] = "margin" /\ DeliverySteps[8] = "stop"
    /\ DeliverySteps[9] = "start" /\ DeliverySteps[10] = "awaitRecovered"
    /\ DeliverySteps[11] = "margin" /\ DeliverySteps[12] = "sleepDrained"
    /\ DeliverySteps[13] = "signal" /\ DeliverySteps[14] = "finishSubscribers"
    /\ DeliverySteps[15] = "cleanup" /\ DeliverySteps[16] = "finishCleanup"
    /\ DeliverySteps[17] = "quiesce"
BY ONLY DEF DeliverySteps, StepNames

(* The next step by the number of steps that are ahead. *)
DeliveryRow(n, h) ==
    \/ n = 17 /\ h = "startSubscribers"
    \/ n = 16 /\ h = "awaitReady"
    \/ n = 15 /\ h = "awaitRegistered"
    \/ n = 14 /\ h = "create"
    \/ n = 13 /\ h = "finishCreate"
    \/ n = 12 /\ h = "awaitCreated"
    \/ n = 11 /\ h = "margin"
    \/ n = 10 /\ h = "stop"
    \/ n = 9 /\ h = "start"
    \/ n = 8 /\ h = "awaitRecovered"
    \/ n = 7 /\ h = "margin"
    \/ n = 6 /\ h = "sleepDrained"
    \/ n = 5 /\ h = "signal"
    \/ n = 4 /\ h = "finishSubscribers"
    \/ n = 3 /\ h = "cleanup"
    \/ n = 2 /\ h = "finishCleanup"
    \/ n = 1 /\ h = "quiesce"

(* Where the driver of schedule-delivery is, and what is ahead of it. *)
LEMMA DeliveryOrder ==
    ASSUME NEW q \in Seq(StepNames), Remains(q, DeliverySteps)
    PROVE  /\ Len(q) \in 1..17 /\ DeliveryRow(Len(q), Head(q))
           /\ (\E i \in DOMAIN q : q[i] = "finishSubscribers") <=> Len(q) >= 4
           /\ (\E i \in DOMAIN q : q[i] = "margin") <=> Len(q) >= 7
<1> DEFINE P == DeliverySteps
           n == Len(q)
           h == Head(q)
<1>1. /\ P \in Seq(StepNames) /\ Len(P) = 17
      /\ P[1] = "startSubscribers" /\ P[2] = "awaitReady" /\ P[3] = "awaitRegistered"
      /\ P[4] = "create" /\ P[5] = "finishCreate" /\ P[6] = "awaitCreated" /\ P[7] = "margin"
      /\ P[8] = "stop" /\ P[9] = "start" /\ P[10] = "awaitRecovered" /\ P[11] = "margin"
      /\ P[12] = "sleepDrained" /\ P[13] = "signal" /\ P[14] = "finishSubscribers"
      /\ P[15] = "cleanup" /\ P[16] = "finishCleanup" /\ P[17] = "quiesce"
  BY DeliveryScript
<1>2. n \in 1..17 /\ h = P[17 - n + 1]
  <2>1. n \in Nat /\ n >= 1 /\ n <= Len(P) /\ h = P[Len(P) - n + 1]
    <3>1. P \in Seq(StepNames) /\ q \in Seq(StepNames) /\ Remains(q, P)
      BY <1>1
    <3> HIDE DEF P
    <3> QED
      BY ONLY <3>1, TailRemains
  <2> HIDE DEF P, n, h
  <2> QED
    BY ONLY <1>1, <2>1
<1>3. DeliveryRow(n, h)
  <2> HIDE DEF P, n, h
  <2>1. n \in {1, 2, 3, 4, 5, 6, 7, 8, 9, 10, 11, 12, 13, 14, 15, 16, 17}
    BY <1>2
  <2> QED
    BY <1>1, <1>2, <2>1 DEF DeliveryRow
<1>4. DOMAIN q = 1..n /\ \A i \in 1..n : q[i] = P[i + 17 - n]
  BY <1>1 DEF Remains
<1>5. (\E i \in DOMAIN q : q[i] = "finishSubscribers") <=> n >= 4
  <2>1. ASSUME n >= 4 PROVE n - 3 \in 1..n /\ q[n - 3] = "finishSubscribers"
    <3> HIDE DEF P, n
    <3>1. n - 3 \in 1..n /\ (n - 3) + 17 - n = 14
      BY <1>2, <2>1
    <3> QED
      BY <1>1, <1>4, <3>1
  <2>2. \A j \in {15, 16, 17} : P[j] # "finishSubscribers"
    <3> HIDE DEF P
    <3> QED
      BY <1>1
  <2>3. ASSUME n < 4, NEW i \in DOMAIN q PROVE q[i] # "finishSubscribers"
    <3>1. i \in 1..n /\ i + 17 - n \in {15, 16, 17} /\ q[i] = P[i + 17 - n]
      <4> HIDE DEF P, n
      <4> QED
        BY <1>2, <1>4, <2>3
    <3> HIDE DEF P
    <3> QED
      BY <3>1, <2>2
  <2>4. n \in 1..17
    BY <1>2
  <2> HIDE DEF n
  <2> QED
    BY ONLY <1>4, <2>1, <2>3, <2>4
<1>6. (\E i \in DOMAIN q : q[i] = "margin") <=> n >= 7
  <2>1. ASSUME n >= 7 PROVE n - 6 \in 1..n /\ q[n - 6] = "margin"
    <3> HIDE DEF P, n
    <3>1. n - 6 \in 1..n /\ (n - 6) + 17 - n = 11
      BY <1>2, <2>1
    <3> QED
      BY <1>1, <1>4, <3>1
  <2>2. \A j \in {12, 13, 14, 15, 16, 17} : P[j] # "margin"
    <3> HIDE DEF P
    <3> QED
      BY <1>1
  <2>3. ASSUME n < 7, NEW i \in DOMAIN q PROVE q[i] # "margin"
    <3>1. i \in 1..n /\ i + 17 - n \in {12, 13, 14, 15, 16, 17} /\ q[i] = P[i + 17 - n]
      <4> HIDE DEF P, n
      <4> QED
        BY <1>2, <1>4, <2>3, SMTT(60)
    <3> HIDE DEF P
    <3> QED
      BY <3>1, <2>2
  <2>4. n \in 1..17
    BY <1>2
  <2> HIDE DEF n
  <2> QED
    BY ONLY <1>4, <2>1, <2>3, <2>4
<1> QED
  BY <1>2, <1>3, <1>4, <1>5, <1>6

(* The steps of schedule-outage. *)
LEMMA OutageScript ==
    /\ OutageSteps \in Seq(StepNames) /\ Len(OutageSteps) = 18
    /\ OutageSteps[1] = "startSubscribers" /\ OutageSteps[2] = "awaitReady"
    /\ OutageSteps[3] = "create" /\ OutageSteps[4] = "finishCreate"
    /\ OutageSteps[5] = "margin" /\ OutageSteps[6] = "sleepStop"
    /\ OutageSteps[7] = "stop" /\ OutageSteps[8] = "sleepMissed"
    /\ OutageSteps[9] = "start" /\ OutageSteps[10] = "checkMissed"
    /\ OutageSteps[11] = "startCanceller" /\ OutageSteps[12] = "sleepDrained"
    /\ OutageSteps[13] = "finishCanceller" /\ OutageSteps[14] = "signal"
    /\ OutageSteps[15] = "finishSubscribers" /\ OutageSteps[16] = "cleanup"
    /\ OutageSteps[17] = "finishCleanup" /\ OutageSteps[18] = "quiesce"
BY ONLY DEF OutageSteps, StepNames

(* The next step by the number of steps that are ahead. *)
OutageRow(n, h) ==
    \/ n = 18 /\ h = "startSubscribers"
    \/ n = 17 /\ h = "awaitReady"
    \/ n = 16 /\ h = "create"
    \/ n = 15 /\ h = "finishCreate"
    \/ n = 14 /\ h = "margin"
    \/ n = 13 /\ h = "sleepStop"
    \/ n = 12 /\ h = "stop"
    \/ n = 11 /\ h = "sleepMissed"
    \/ n = 10 /\ h = "start"
    \/ n = 9 /\ h = "checkMissed"
    \/ n = 8 /\ h = "startCanceller"
    \/ n = 7 /\ h = "sleepDrained"
    \/ n = 6 /\ h = "finishCanceller"
    \/ n = 5 /\ h = "signal"
    \/ n = 4 /\ h = "finishSubscribers"
    \/ n = 3 /\ h = "cleanup"
    \/ n = 2 /\ h = "finishCleanup"
    \/ n = 1 /\ h = "quiesce"

(* The places of the steps after the margin. *)
LEMMA EarlyIndex ==
    ASSUME NEW a \in Int, NEW b \in Int, a >= 1, a <= b, b <= 13
    PROVE  a + 18 - b \in 6..18
OBVIOUS

(* Where the driver of schedule-outage is, and what is ahead of it. *)
LEMMA OutageOrder ==
    ASSUME NEW q \in Seq(StepNames), Remains(q, OutageSteps)
    PROVE  /\ Len(q) \in 1..18 /\ OutageRow(Len(q), Head(q))
           /\ (\E i \in DOMAIN q : q[i] = "finishSubscribers") <=> Len(q) >= 4
           /\ (\E i \in DOMAIN q : q[i] = "margin") <=> Len(q) >= 14
<1> DEFINE P == OutageSteps
           n == Len(q)
           h == Head(q)
<1>1. /\ P \in Seq(StepNames) /\ Len(P) = 18
      /\ P[1] = "startSubscribers" /\ P[2] = "awaitReady" /\ P[3] = "create"
      /\ P[4] = "finishCreate" /\ P[5] = "margin" /\ P[6] = "sleepStop" /\ P[7] = "stop"
      /\ P[8] = "sleepMissed" /\ P[9] = "start" /\ P[10] = "checkMissed"
      /\ P[11] = "startCanceller" /\ P[12] = "sleepDrained" /\ P[13] = "finishCanceller"
      /\ P[14] = "signal" /\ P[15] = "finishSubscribers" /\ P[16] = "cleanup"
      /\ P[17] = "finishCleanup" /\ P[18] = "quiesce"
  BY OutageScript
<1>2. n \in 1..18 /\ h = P[18 - n + 1]
  <2>1. n \in Nat /\ n >= 1 /\ n <= Len(P) /\ h = P[Len(P) - n + 1]
    <3>1. P \in Seq(StepNames) /\ q \in Seq(StepNames) /\ Remains(q, P)
      BY <1>1
    <3> HIDE DEF P
    <3> QED
      BY ONLY <3>1, TailRemains
  <2> HIDE DEF P, n, h
  <2> QED
    BY ONLY <1>1, <2>1
<1>3. OutageRow(n, h)
  <2> HIDE DEF P, n, h
  <2>1. n \in {1, 2, 3, 4, 5, 6, 7, 8, 9, 10, 11, 12, 13, 14, 15, 16, 17, 18}
    BY <1>2
  <2> QED
    BY <1>1, <1>2, <2>1 DEF OutageRow
<1>4. DOMAIN q = 1..n /\ \A i \in 1..n : q[i] = P[i + 18 - n]
  BY <1>1 DEF Remains
<1>5. (\E i \in DOMAIN q : q[i] = "finishSubscribers") <=> n >= 4
  <2>1. ASSUME n >= 4 PROVE n - 3 \in 1..n /\ q[n - 3] = "finishSubscribers"
    <3> HIDE DEF P, n
    <3>1. n - 3 \in 1..n /\ (n - 3) + 18 - n = 15
      BY <1>2, <2>1
    <3> QED
      BY <1>1, <1>4, <3>1
  <2>2. \A j \in {16, 17, 18} : P[j] # "finishSubscribers"
    <3> HIDE DEF P
    <3> QED
      BY <1>1
  <2>3. ASSUME n < 4, NEW i \in DOMAIN q PROVE q[i] # "finishSubscribers"
    <3>1. i \in 1..n /\ i + 18 - n \in {16, 17, 18} /\ q[i] = P[i + 18 - n]
      <4> HIDE DEF P, n
      <4> QED
        BY <1>2, <1>4, <2>3
    <3> HIDE DEF P
    <3> QED
      BY <3>1, <2>2
  <2>4. n \in 1..18
    BY <1>2
  <2> HIDE DEF n
  <2> QED
    BY ONLY <1>4, <2>1, <2>3, <2>4
<1>6. (\E i \in DOMAIN q : q[i] = "margin") <=> n >= 14
  <2>1. ASSUME n >= 14 PROVE n - 13 \in 1..n /\ q[n - 13] = "margin"
    <3> HIDE DEF P, n
    <3>1. n - 13 \in 1..n /\ (n - 13) + 18 - n = 5
      BY <1>2, <2>1
    <3> QED
      BY <1>1, <1>4, <3>1
  <2>2. \A j \in {6, 7, 8, 9, 10, 11, 12, 13, 14, 15, 16, 17, 18} : P[j] # "margin"
    <3> HIDE DEF P
    <3> QED
      BY <1>1
  <2>3. ASSUME n < 14, NEW i \in DOMAIN q PROVE q[i] # "margin"
    <3>1. /\ i \in 1..n /\ q[i] = P[i + 18 - n]
          /\ i + 18 - n \in {6, 7, 8, 9, 10, 11, 12, 13, 14, 15, 16, 17, 18}
      <4> HIDE DEF P, n
      <4>0. i \in 1..n /\ n \in 1..13
        BY <1>2, <1>4, <2>3
      <4>1. i + 18 - n \in 6..18
        <5>1. i \in Int /\ n \in Int /\ i >= 1 /\ i <= n /\ n <= 13
          BY ONLY <4>0
        <5> QED
          BY ONLY <5>1, EarlyIndex
      <4>2. ASSUME NEW j \in 6..18
            PROVE  j \in {6, 7, 8, 9, 10, 11, 12, 13, 14, 15, 16, 17, 18}
        BY ONLY j \in 6..18
      <4> QED
        BY <4>0, <4>1, <4>2, <1>4
    <3> HIDE DEF P
    <3> QED
      BY <3>1, <2>2
  <2>4. n \in 1..18
    BY <1>2
  <2> HIDE DEF n
  <2> QED
    BY ONLY <1>4, <2>1, <2>3, <2>4
<1> QED
  BY <1>2, <1>3, <1>4, <1>5, <1>6

(* The steps of the storm. *)
LEMMA StormScript ==
    /\ StormSteps \in Seq(StepNames) /\ Len(StormSteps) = 5
    /\ StormSteps[1] = "startStorm" /\ StormSteps[2] = "awaitArmed"
    /\ StormSteps[3] = "sleepDrained" /\ StormSteps[4] = "finishStorm"
    /\ StormSteps[5] = "quiesce"
BY ONLY DEF StormSteps, StepNames

(* The next step by the number of steps that are ahead. *)
StormRow(n, h) ==
    \/ n = 5 /\ h = "startStorm"
    \/ n = 4 /\ h = "awaitArmed"
    \/ n = 3 /\ h = "sleepDrained"
    \/ n = 2 /\ h = "finishStorm"
    \/ n = 1 /\ h = "quiesce"

(* Where the driver of the storm is, and what is ahead of it. *)
LEMMA StormOrder ==
    ASSUME NEW q \in Seq(StepNames), Remains(q, StormSteps)
    PROVE  /\ Len(q) \in 1..5 /\ StormRow(Len(q), Head(q))
           /\ \A i \in DOMAIN q : q[i] # "finishSubscribers"
           /\ \A i \in DOMAIN q : q[i] # "margin"
<1> DEFINE P == StormSteps
           n == Len(q)
           h == Head(q)
<1>1. /\ P \in Seq(StepNames) /\ Len(P) = 5
      /\ P[1] = "startStorm" /\ P[2] = "awaitArmed" /\ P[3] = "sleepDrained"
      /\ P[4] = "finishStorm" /\ P[5] = "quiesce"
  BY StormScript
<1>2. n \in 1..5 /\ h = P[5 - n + 1]
  <2>1. n \in Nat /\ n >= 1 /\ n <= Len(P) /\ h = P[Len(P) - n + 1]
    <3>1. P \in Seq(StepNames) /\ q \in Seq(StepNames) /\ Remains(q, P)
      BY <1>1
    <3> HIDE DEF P
    <3> QED
      BY ONLY <3>1, TailRemains
  <2> HIDE DEF P, n, h
  <2> QED
    BY ONLY <1>1, <2>1
<1>3. StormRow(n, h)
  <2> HIDE DEF P, n, h
  <2>1. n \in {1, 2, 3, 4, 5}
    BY <1>2
  <2> QED
    BY <1>1, <1>2, <2>1 DEF StormRow
<1>4. DOMAIN q = 1..n /\ \A i \in 1..n : q[i] = P[i + 5 - n]
  BY <1>1 DEF Remains
<1>5. \A i \in DOMAIN q : q[i] # "finishSubscribers"
  <2>1. \A j \in {1, 2, 3, 4, 5} : P[j] # "finishSubscribers"
    <3> HIDE DEF P
    <3> QED
      BY <1>1
  <2> SUFFICES ASSUME NEW i \in DOMAIN q PROVE q[i] # "finishSubscribers"
    OBVIOUS
  <2>2. i \in 1..n /\ i + 5 - n \in {1, 2, 3, 4, 5} /\ q[i] = P[i + 5 - n]
    <3> HIDE DEF P, n
    <3> QED
      BY <1>2, <1>4
  <2> HIDE DEF P
  <2> QED
    BY <2>1, <2>2
<1>6. \A i \in DOMAIN q : q[i] # "margin"
  <2>1. \A j \in {1, 2, 3, 4, 5} : P[j] # "margin"
    <3> HIDE DEF P
    <3> QED
      BY <1>1
  <2> SUFFICES ASSUME NEW i \in DOMAIN q PROVE q[i] # "margin"
    OBVIOUS
  <2>2. i \in 1..n /\ i + 5 - n \in {1, 2, 3, 4, 5} /\ q[i] = P[i + 5 - n]
    <3> HIDE DEF P, n
    <3> QED
      BY <1>2, <1>4
  <2> HIDE DEF P
  <2> QED
    BY <2>1, <2>2
<1> QED
  BY <1>2, <1>3, <1>4, <1>5, <1>6

(* A step of the driver that goes on. *)
Finishing == \E n \in DOMAIN todo : todo[n] = "finishSubscribers"
Moves == Running' /\ UNCHANGED <<scenario, verdict, outcome>> /\ Ahead >= 2 /\ Ahead' = Ahead - 1

(* A step of the driver that fails: into its catch block, or to its end. *)
Throws(why) ==
    /\ scenario # "storm" /\ Ahead >= 4 /\ outcome' = "none" /\ verdict' = why
    /\ todo' = <<"stopSubscribers", "awaitStopped">> /\ UNCHANGED scenario
Ends(why) ==
    /\ scenario = "storm" \/ Ahead <= 3
    /\ outcome' = why /\ verdict' = "none" /\ UNCHANGED <<scenario, todo>>

(* Where the driver is. *)
LEMMA Here ==
    ASSUME DriverType, Place, Running
    PROVE  /\ Ahead \in 1..18 /\ Head(todo) # "awaitStopped" /\ Head(todo) # "stopSubscribers"
           /\ scenario = "delivery" =>
                /\ Ahead \in 1..17 /\ DeliveryRow(Ahead, Head(todo))
                /\ (Finishing <=> Ahead >= 4) /\ (MarginAhead <=> Ahead >= 7)
           /\ scenario = "outage" =>
                /\ OutageRow(Ahead, Head(todo))
                /\ (Finishing <=> Ahead >= 4) /\ (MarginAhead <=> Ahead >= 14)
           /\ scenario = "storm" =>
                /\ Ahead \in 1..5 /\ StormRow(Ahead, Head(todo)) /\ ~Finishing /\ ~MarginAhead
<1>1. todo \in Seq(StepNames) /\ scenario \in {"delivery", "outage", "storm"}
  BY DEF DriverType
<1>2. Remains(todo, Steps[scenario])
  BY DEF Place
<1>3. CASE scenario = "delivery"
  <2>1. Remains(todo, DeliverySteps)
    BY <1>2, <1>3 DEF Steps
  <2>2. /\ Ahead \in 1..17 /\ DeliveryRow(Ahead, Head(todo))
        /\ (Finishing <=> Ahead >= 4) /\ (MarginAhead <=> Ahead >= 7)
    BY <1>1, <2>1, DeliveryOrder DEF Ahead, Finishing, MarginAhead
  <2> QED
    BY <1>3, <2>2 DEF DeliveryRow
<1>4. CASE scenario = "outage"
  <2>1. Remains(todo, OutageSteps)
    BY <1>2, <1>4 DEF Steps
  <2>2. /\ Ahead \in 1..18 /\ OutageRow(Ahead, Head(todo))
        /\ (Finishing <=> Ahead >= 4) /\ (MarginAhead <=> Ahead >= 14)
    BY <1>1, <2>1, OutageOrder DEF Ahead, Finishing, MarginAhead
  <2> QED
    BY <1>4, <2>2 DEF OutageRow
<1>5. CASE scenario = "storm"
  <2>1. Remains(todo, StormSteps)
    BY <1>2, <1>5 DEF Steps
  <2>2. Ahead \in 1..5 /\ StormRow(Ahead, Head(todo)) /\ ~Finishing /\ ~MarginAhead
    BY <1>1, <2>1, StormOrder DEF Ahead, Finishing, MarginAhead
  <2> QED
    BY <1>5, <2>2 DEF StormRow
<1> QED
  BY <1>1, <1>3, <1>4, <1>5

(* The scripts are programs. *)
LEMMA ScriptTypes ==
    ASSUME DriverType
    PROVE  Steps[scenario] \in Seq(StepNames) /\ Len(Steps[scenario]) \in Nat \ {0}
<1>1. CASE scenario = "delivery"
  <2>1. Steps[scenario] = DeliverySteps
    BY <1>1 DEF Steps
  <2> QED
    BY <2>1, DeliveryScript
<1>2. CASE scenario = "outage"
  <2>1. Steps[scenario] = OutageSteps
    BY <1>2 DEF Steps
  <2> QED
    BY <2>1, OutageScript
<1>3. CASE scenario = "storm"
  <2>1. Steps[scenario] = StormSteps
    BY <1>3 DEF Steps
  <2> QED
    BY <2>1, StormScript
<1> QED
  BY <1>1, <1>2, <1>3 DEF DriverType

(* A step that goes on is taken by a driver with one to follow. *)
LEMMA Proceeds ==
    ASSUME DriverType, Place, Running, Proceed, Head(todo) # "quiesce"
    PROVE  Moves /\ DriverType' /\ Place'
<1>1. todo \in Seq(StepNames) /\ Remains(todo, Steps[scenario])
  BY DEF DriverType, Place
<1>2. Ahead \in 1..18 /\ Ahead # 1
  <2>1. scenario \in {"delivery", "outage", "storm"}
    BY DEF DriverType
  <2> QED
    BY <2>1, Here DEF DeliveryRow, OutageRow, StormRow
<1>3. /\ Tail(todo) \in Seq(StepNames) /\ Len(Tail(todo)) = Ahead - 1
      /\ Remains(Tail(todo), Steps[scenario])
  <2>1. \A P \in Seq(StepNames) : Remains(todo, P) /\ Len(todo) > 1 =>
            /\ Tail(todo) \in Seq(StepNames) /\ Len(Tail(todo)) = Len(todo) - 1
            /\ Remains(Tail(todo), P)
    BY <1>1, TailRemains
  <2> QED
    <3>1. Len(todo) > 1
      <4>1. Ahead > 1
        BY ONLY <1>2
      <4> QED
        BY ONLY <4>1, Zenon DEF Ahead
    <3>2. Steps[scenario] \in Seq(StepNames) /\ Remains(todo, Steps[scenario])
      BY <1>1, ScriptTypes
    <3>3. /\ Tail(todo) \in Seq(StepNames) /\ Len(Tail(todo)) = Len(todo) - 1
          /\ Remains(Tail(todo), Steps[scenario])
      BY ONLY <2>1, <3>1, <3>2
    <3> QED
      BY ONLY <3>3 DEF Ahead
<1>4. todo' = Tail(todo) /\ UNCHANGED <<scenario, verdict, outcome>>
  BY DEF Proceed
<1> QED
  BY <1>2, <1>3, <1>4 DEF Moves, DriverType, Place, Running, Ahead

(* A step that fails. *)
LEMMA Fails ==
    ASSUME DriverType, Place, Running, NEW why \in Verdicts, Fail(why)
    PROVE  (Throws(why) \/ Ends(why)) /\ DriverType' /\ Place'
<1>1. /\ why # "none" /\ why # "passed" /\ Ahead \in 1..18
      /\ scenario \in {"delivery", "outage", "storm"}
  BY Here DEF Verdicts, DriverType
<1>2. CASE Finishing
  <2>1. /\ verdict' = why /\ todo' = <<"stopSubscribers", "awaitStopped">>
        /\ UNCHANGED <<scenario, outcome>>
    BY <1>2 DEF Fail, Finishing
  <2>2. scenario # "storm" /\ Ahead >= 4
    BY <1>1, <1>2, Here
  <2>3. todo' \in Seq(StepNames)
    BY <2>1 DEF StepNames
  <2> QED
    BY <1>1, <2>1, <2>2, <2>3 DEF Throws, DriverType, Place, Running
<1>3. CASE ~Finishing
  <2>1. outcome' = why /\ UNCHANGED <<scenario, todo, verdict>>
    BY <1>3 DEF Fail, Finishing
  <2>2. scenario = "storm" \/ Ahead <= 3
    BY <1>1, <1>3, Here
  <2> QED
    BY <1>1, <2>1, <2>2 DEF Ends, DriverType, Place, Running
<1> QED
  BY <1>2, <1>3

(* A check goes on or fails. *)
LEMMA Checks ==
    ASSUME DriverType, Place, Running, NEW why \in Verdicts, NEW accepted,
           Check(accepted, why), Head(todo) # "quiesce"
    PROVE  /\ DriverType' /\ Place'
           /\ (accepted /\ Moves) \/ (~accepted /\ (Throws(why) \/ Ends(why)))
<1>1. CASE accepted
  BY <1>1, Proceeds DEF Check
<1>2. CASE ~accepted
  BY <1>2, Fails DEF Check
<1> QED
  BY <1>1, <1>2

(* The catch block. *)
LEMMA Catching ==
    ASSUME DriverType, Place, outcome = "none", ~Running
    PROVE  /\ verdict # "none" /\ scenario # "storm"
           /\ \/ /\ Head(todo) = "stopSubscribers" /\ Tail(todo) = <<"awaitStopped">>
                 /\ Tail(todo) \in Seq(StepNames)
              \/ Head(todo) = "awaitStopped"
<1>1. /\ verdict # "none" /\ scenario # "storm"
      /\ todo \in {<<"stopSubscribers", "awaitStopped">>, <<"awaitStopped">>}
  BY DEF Place, Running
<1>2. CASE todo = <<"stopSubscribers", "awaitStopped">>
  BY <1>1, <1>2 DEF StepNames
<1>3. CASE todo = <<"awaitStopped">>
  BY <1>1, <1>3
<1> QED
  BY <1>1, <1>2, <1>3
-----------------------------------------------------------------------------
(* What the steps of the driver do to the rest of the system. *)

World == <<now, pc, workerVars, ledgerVars, brokerVars, historyVars>>

(* What a wait or a check has found that lets the driver go on. *)
Passes ==
    /\ Head(todo) = "awaitReady" => \A s \in Subscribers : pc[s] = "ready"
    /\ Head(todo) = "awaitRegistered" => Cardinality(defs) = 0 /\ subs = Subscribers
    /\ Head(todo) \in {"awaitCreated", "awaitRecovered"} =>
          Cardinality(defs) = 2 * Fires /\ subs = Subscribers
    /\ Head(todo) = "margin" => now = 0
    /\ Head(todo) = "sleepStop" => now >= 1
    /\ Head(todo) = "sleepMissed" => now > Due
    /\ Head(todo) = "sleepDrained" => now >= (IF scenario = "outage" THEN LastInstant ELSE Due + 1)
    /\ Head(todo) \in {"finishCreate", "finishCleanup", "finishStorm"} => Finished({"worker"})
    /\ Head(todo) = "finishCanceller" => Ended({"canceller"})
    /\ Head(todo) = "finishSubscribers" => Finished(Subscribers) /\ Accepted
    /\ Head(todo) = "awaitArmed" => Armed

(* What a check has found that makes the driver fail. *)
Rejects ==
    \/ Head(todo) \in {"finishCreate", "finishCleanup", "finishStorm"} /\ ~Finished({"worker"})
       /\ Ended({"worker"})
    \/ Head(todo) = "checkMissed" /\ missed # {}
    \/ Head(todo) = "finishSubscribers" /\ Ended(Subscribers) /\ ~(Finished(Subscribers) /\ Accepted)
    \/ Head(todo) = "awaitArmed" /\ Ended({"worker"}) /\ ~Armed

(* A step of the driver that only observes. *)
Observing ==
    {"awaitReady", "awaitRegistered", "finishCreate", "awaitCreated", "margin", "awaitRecovered",
     "sleepStop", "sleepMissed", "checkMissed", "sleepDrained", "finishCanceller",
     "finishSubscribers", "finishCleanup", "awaitArmed", "finishStorm"}

Observes ==
    /\ Running /\ UNCHANGED World /\ Head(todo) \in Observing
    /\ \/ Moves /\ Passes
       \/ \E why \in {"margin", "timeout"} : Throws(why) \/ Ends(why)
       \/ Rejects /\ (Throws("rejected") \/ Ends("rejected"))

StartSubscribers == Start("startSubscribers", Subscribers, Starting(Subscribers), {})
StartCreate == Start("create", {"worker"}, Worker("creating"), {})
StartCanceller ==
    Start("startCanceller", {"canceller"}, [r \in {"canceller"} |-> "running"], OfKind({"race"}))
StartCleanup ==
    Start("cleanup", {"worker"}, Worker("cleaning"),
          IF scenario = "delivery" THEN OfKind({"broadcast", "single"}) ELSE defs)
StartStorm ==
    Start("startStorm", {"worker", AnySubscriber},
          [r \in {"worker", AnySubscriber} |-> IF r = "worker" THEN "creating" ELSE "ready"], {})

(* A step of the driver that starts or stops something. *)
Launches ==
    /\ Running /\ Moves
    /\ \/ StartSubscribers \/ StartCreate \/ StartCanceller \/ StartCleanup \/ StartStorm
       \/ StopFitz \/ RestartFitz \/ SignalSubscribers("signal")

(* A step of the catch block. *)
Catches ==
    /\ verdict # "none" /\ outcome = "none" /\ scenario # "storm" /\ UNCHANGED <<scenario, verdict>>
    /\ \/ SignalSubscribers("stopSubscribers") /\ outcome' = "none"
       \/ Rethrow

Concludes == Running /\ Quiesce /\ Ahead = 1

(* The steps of a driver that only observe. *)
LEMMA ObservesCases ==
    ASSUME DriverType, Place, outcome = "none", NEW step \in Observing, At(step),
           NEW why \in Verdicts, NEW accepted, Check(accepted, why), UNCHANGED World,
           accepted => Passes, ~accepted => why # "rejected" \/ Rejects
    PROVE  DriverType' /\ Place' /\ Observes
<1>1. Head(todo) = step /\ Head(todo) # "quiesce"
  BY DEF At, Observing
<1>2. Running
  BY <1>1, Catching DEF Observing
<1>3. /\ DriverType' /\ Place'
      /\ (accepted /\ Moves) \/ (~accepted /\ (Throws(why) \/ Ends(why)))
  BY <1>1, <1>2, Checks
<1>4. why \in {"rejected", "margin", "timeout"}
  BY DEF Verdicts
<1> QED
  BY <1>1, <1>2, <1>3, <1>4 DEF Observes

(* A wait that only observes. *)
LEMMA ObserveCases ==
    ASSUME DriverType, Place, outcome = "none", NEW step \in Observing, NEW condition, NEW accepted,
           Observe(step, condition, accepted),
           condition /\ accepted => Passes, condition /\ ~accepted => Rejects
    PROVE  DriverType' /\ Place' /\ Observes
<1>1. At(step) /\ condition /\ Check(accepted, "rejected") /\ UNCHANGED World
  BY Zenon DEF Observe, World
<1> QED
  BY <1>1, ObservesCases DEF Verdicts

(* A wait for the counts of the broker. *)
LEMMA CountCases ==
    ASSUME DriverType, Place, outcome = "none", NEW step \in Observing, NEW expected,
           WaitForScheduleCounts(step, expected),
           Cardinality(defs) = expected /\ subs = Subscribers => Passes
    PROVE  DriverType' /\ Place' /\ Observes
<1>1. /\ At(step) /\ Check(Cardinality(defs) = expected /\ subs = Subscribers, "timeout")
      /\ UNCHANGED World
  BY Zenon DEF WaitForScheduleCounts, World
<1> QED
  BY <1>1, ObservesCases DEF Verdicts

(* What a step of the driver is. *)
LEMMA DriverCases ==
    ASSUME DriverType, Place, outcome = "none", Driver \/ DeadlinePasses
    PROVE  DriverType' /\ Place' /\ (Observes \/ Launches \/ Catches \/ Concludes)
<1>1. ASSUME Observe("awaitReady", \A s \in Subscribers : pc[s] = "ready", TRUE)
      PROVE  DriverType' /\ Place' /\ Observes
  <2>1. "awaitReady" \in Observing
    BY DEF Observing
  <2>2. (\A s \in Subscribers : pc[s] = "ready") /\ (TRUE) => Passes
    BY <1>1 DEF Observe, At, Passes
  <2>3. (\A s \in Subscribers : pc[s] = "ready") /\ ~(TRUE) => Rejects
    BY <1>1 DEF Observe, At, Rejects
  <2> HIDE DEF Observing
  <2> QED
    BY <1>1, <2>1, <2>2, <2>3, ObserveCases
<1>2. ASSUME Observe("finishCreate", Ended({"worker"}), Finished({"worker"}))
      PROVE  DriverType' /\ Place' /\ Observes
  <2>1. "finishCreate" \in Observing
    BY DEF Observing
  <2>2. (Ended({"worker"})) /\ (Finished({"worker"})) => Passes
    BY <1>2 DEF Observe, At, Passes
  <2>3. (Ended({"worker"})) /\ ~(Finished({"worker"})) => Rejects
    BY <1>2 DEF Observe, At, Rejects
  <2> HIDE DEF Observing
  <2> QED
    BY <1>2, <2>1, <2>2, <2>3, ObserveCases
<1>3. ASSUME Observe("sleepStop", now >= 1, TRUE)
      PROVE  DriverType' /\ Place' /\ Observes
  <2>1. "sleepStop" \in Observing
    BY DEF Observing
  <2>2. (now >= 1) /\ (TRUE) => Passes
    BY <1>3 DEF Observe, At, Passes
  <2>3. (now >= 1) /\ ~(TRUE) => Rejects
    BY <1>3 DEF Observe, At, Rejects
  <2> HIDE DEF Observing
  <2> QED
    BY <1>3, <2>1, <2>2, <2>3, ObserveCases
<1>4. ASSUME Observe("sleepMissed", now > Due, TRUE)
      PROVE  DriverType' /\ Place' /\ Observes
  <2>1. "sleepMissed" \in Observing
    BY DEF Observing
  <2>2. (now > Due) /\ (TRUE) => Passes
    BY <1>4 DEF Observe, At, Passes
  <2>3. (now > Due) /\ ~(TRUE) => Rejects
    BY <1>4 DEF Observe, At, Rejects
  <2> HIDE DEF Observing
  <2> QED
    BY <1>4, <2>1, <2>2, <2>3, ObserveCases
<1>5. ASSUME Observe("checkMissed", TRUE, missed = {})
      PROVE  DriverType' /\ Place' /\ Observes
  <2>1. "checkMissed" \in Observing
    BY DEF Observing
  <2>2. (TRUE) /\ (missed = {}) => Passes
    BY <1>5 DEF Observe, At, Passes
  <2>3. (TRUE) /\ ~(missed = {}) => Rejects
    BY <1>5 DEF Observe, At, Rejects
  <2> HIDE DEF Observing
  <2> QED
    BY <1>5, <2>1, <2>2, <2>3, ObserveCases
<1>6. ASSUME Observe("sleepDrained",
                     now >= IF scenario = "outage" THEN LastInstant ELSE Due + 1, TRUE)
      PROVE  DriverType' /\ Place' /\ Observes
  <2> DEFINE accepted == TRUE
  <2>1. "sleepDrained" \in Observing
    BY DEF Observing
  <2>2. accepted => Passes
    BY <1>6 DEF Observe, At, Passes
  <2>3. ~accepted => Rejects
    BY <1>6 DEF Observe, At, Rejects
  <2>4. At("sleepDrained") /\ Check(accepted, "rejected") /\ UNCHANGED World
    BY <1>6, Zenon DEF Observe, World
  <2> HIDE DEF Observing, accepted
  <2> QED
    BY <2>1, <2>2, <2>3, <2>4, ObservesCases DEF Verdicts
<1>7. ASSUME Observe("finishCanceller", Ended({"canceller"}), TRUE)
      PROVE  DriverType' /\ Place' /\ Observes
  <2>1. "finishCanceller" \in Observing
    BY DEF Observing
  <2>2. (Ended({"canceller"})) /\ (TRUE) => Passes
    BY <1>7 DEF Observe, At, Passes
  <2>3. (Ended({"canceller"})) /\ ~(TRUE) => Rejects
    BY <1>7 DEF Observe, At, Rejects
  <2> HIDE DEF Observing
  <2> QED
    BY <1>7, <2>1, <2>2, <2>3, ObserveCases
<1>8. ASSUME Observe("finishSubscribers",
                     Ended(Subscribers), Finished(Subscribers) /\ Accepted)
      PROVE  DriverType' /\ Place' /\ Observes
  <2> DEFINE accepted == Finished(Subscribers) /\ Accepted
  <2>1. "finishSubscribers" \in Observing
    BY DEF Observing
  <2>2. accepted => Passes
    BY <1>8 DEF Observe, At, Passes
  <2>3. ~accepted => Rejects
    BY <1>8 DEF Observe, At, Rejects
  <2>4. At("finishSubscribers") /\ Check(accepted, "rejected") /\ UNCHANGED World
    BY <1>8, Zenon DEF Observe, World
  <2> HIDE DEF Observing, accepted
  <2> QED
    BY <2>1, <2>2, <2>3, <2>4, ObservesCases DEF Verdicts
<1>9. ASSUME Observe("finishCleanup", Ended({"worker"}), Finished({"worker"}))
      PROVE  DriverType' /\ Place' /\ Observes
  <2>1. "finishCleanup" \in Observing
    BY DEF Observing
  <2>2. (Ended({"worker"})) /\ (Finished({"worker"})) => Passes
    BY <1>9 DEF Observe, At, Passes
  <2>3. (Ended({"worker"})) /\ ~(Finished({"worker"})) => Rejects
    BY <1>9 DEF Observe, At, Rejects
  <2> HIDE DEF Observing
  <2> QED
    BY <1>9, <2>1, <2>2, <2>3, ObserveCases
<1>10. ASSUME Observe("awaitArmed",
                     Armed \/ Ended({"worker"}), Armed)
      PROVE  DriverType' /\ Place' /\ Observes
  <2> DEFINE accepted == Armed
  <2>1. "awaitArmed" \in Observing
    BY DEF Observing
  <2>2. accepted => Passes
    BY <1>10 DEF Observe, At, Passes
  <2>3. ~accepted => Rejects
    BY <1>10 DEF Observe, At, Rejects
  <2>4. At("awaitArmed") /\ Check(accepted, "rejected") /\ UNCHANGED World
    BY <1>10, Zenon DEF Observe, World
  <2> HIDE DEF Observing, accepted
  <2> QED
    BY <2>1, <2>2, <2>3, <2>4, ObservesCases DEF Verdicts
<1>11. ASSUME Observe("finishStorm", Ended({"worker"}), Finished({"worker"}))
      PROVE  DriverType' /\ Place' /\ Observes
  <2>1. "finishStorm" \in Observing
    BY DEF Observing
  <2>2. (Ended({"worker"})) /\ (Finished({"worker"})) => Passes
    BY <1>11 DEF Observe, At, Passes
  <2>3. (Ended({"worker"})) /\ ~(Finished({"worker"})) => Rejects
    BY <1>11 DEF Observe, At, Rejects
  <2> HIDE DEF Observing
  <2> QED
    BY <1>11, <2>1, <2>2, <2>3, ObserveCases
<1>12. ASSUME WaitForScheduleCounts("awaitRegistered", 0)
      PROVE  DriverType' /\ Place' /\ Observes
  <2>1. "awaitRegistered" \in Observing
    BY DEF Observing
  <2>2. Cardinality(defs) = 0 /\ subs = Subscribers => Passes
    BY <1>12 DEF WaitForScheduleCounts, At, Passes
  <2> QED
    BY <1>12, <2>1, <2>2, CountCases
<1>13. ASSUME WaitForScheduleCounts("awaitCreated", 2 * Fires)
      PROVE  DriverType' /\ Place' /\ Observes
  <2>1. "awaitCreated" \in Observing
    BY DEF Observing
  <2>2. Cardinality(defs) = 2 * Fires /\ subs = Subscribers => Passes
    BY <1>13 DEF WaitForScheduleCounts, At, Passes
  <2> QED
    BY <1>13, <2>1, <2>2, CountCases
<1>14. ASSUME WaitForScheduleCounts("awaitRecovered", 2 * Fires)
      PROVE  DriverType' /\ Place' /\ Observes
  <2>1. "awaitRecovered" \in Observing
    BY DEF Observing
  <2>2. Cardinality(defs) = 2 * Fires /\ subs = Subscribers => Passes
    BY <1>14 DEF WaitForScheduleCounts, At, Passes
  <2> QED
    BY <1>14, <2>1, <2>2, CountCases
<1>15. ASSUME Margin PROVE DriverType' /\ Place' /\ Observes
  <2>1. "margin" \in Observing /\ "margin" \in Verdicts
    BY DEF Observing, Verdicts
  <2>2. now = 0 => Passes
    BY <1>15 DEF Margin, At, Passes
  <2>3. At("margin") /\ Check(now = 0, "margin") /\ UNCHANGED World
    BY <1>15 DEF Margin, World
  <2> QED
    BY <2>1, <2>2, <2>3, ObservesCases
<1>16. ASSUME DeadlinePasses PROVE DriverType' /\ Place' /\ Observes
  <2>1. /\ Head(todo) \in Observing /\ Fail("timeout") /\ UNCHANGED World
        /\ Head(todo) # "stopSubscribers" /\ Head(todo) # "awaitStopped"
    BY <1>16 DEF DeadlinePasses, World, Observing
  <2>2. Running
    BY <2>1, Catching
  <2> QED
    BY <2>1, <2>2, Fails DEF Observes, Verdicts
<1>17. ASSUME StartSubscribers PROVE DriverType' /\ Place' /\ Launches
  <2>1. Head(todo) = "startSubscribers" /\ Proceed
    BY <1>17 DEF StartSubscribers, Start, At
  <2>2. Running
    BY <2>1, Catching
  <2> QED
    BY <1>17, <2>1, <2>2, Proceeds DEF Launches
<1>18. ASSUME StartCreate PROVE DriverType' /\ Place' /\ Launches
  <2>1. Head(todo) = "create" /\ Proceed
    BY <1>18 DEF StartCreate, Start, At
  <2>2. Running
    BY <2>1, Catching
  <2> QED
    BY <1>18, <2>1, <2>2, Proceeds DEF Launches
<1>19. ASSUME StartCanceller PROVE DriverType' /\ Place' /\ Launches
  <2>1. Head(todo) = "startCanceller" /\ Proceed
    BY <1>19 DEF StartCanceller, Start, At
  <2>2. Running
    BY <2>1, Catching
  <2> QED
    BY <1>19, <2>1, <2>2, Proceeds DEF Launches
<1>20. ASSUME StartCleanup PROVE DriverType' /\ Place' /\ Launches
  <2>1. Head(todo) = "cleanup" /\ Proceed
    BY <1>20 DEF StartCleanup, Start, At
  <2>2. Running
    BY <2>1, Catching
  <2> QED
    BY <1>20, <2>1, <2>2, Proceeds DEF Launches
<1>21. ASSUME StartStorm PROVE DriverType' /\ Place' /\ Launches
  <2>1. Head(todo) = "startStorm" /\ Proceed
    BY <1>21 DEF StartStorm, Start, At
  <2>2. Running
    BY <2>1, Catching
  <2> QED
    BY <1>21, <2>1, <2>2, Proceeds DEF Launches
<1>22. ASSUME StopFitz PROVE DriverType' /\ Place' /\ Launches
  <2>1. Head(todo) = "stop" /\ Proceed
    BY <1>22 DEF StopFitz, At
  <2>2. Running
    BY <2>1, Catching
  <2> QED
    BY <1>22, <2>1, <2>2, Proceeds DEF Launches
<1>23. ASSUME RestartFitz PROVE DriverType' /\ Place' /\ Launches
  <2>1. Head(todo) = "start" /\ Proceed
    BY <1>23 DEF RestartFitz, At
  <2>2. Running
    BY <2>1, Catching
  <2> QED
    BY <1>23, <2>1, <2>2, Proceeds DEF Launches
<1>24. ASSUME SignalSubscribers("signal") PROVE DriverType' /\ Place' /\ Launches
  <2>1. Head(todo) = "signal" /\ Proceed
    BY <1>24 DEF SignalSubscribers, At
  <2>2. Running
    BY <2>1, Catching
  <2> QED
    BY <1>24, <2>1, <2>2, Proceeds DEF Launches
<1>25. ASSUME SignalSubscribers("stopSubscribers") PROVE DriverType' /\ Place' /\ Catches
  <2>1. Head(todo) = "stopSubscribers" /\ Proceed
    BY <1>25 DEF SignalSubscribers, At
  <2>2. ~Running
    BY <2>1, Here
  <2>3. /\ verdict # "none" /\ scenario # "storm" /\ todo' = <<"awaitStopped">>
        /\ todo' \in Seq(StepNames) /\ UNCHANGED <<scenario, verdict, outcome>>
    BY <2>1, <2>2, Catching DEF Proceed
  <2> QED
    BY <1>25, <2>3 DEF Catches, DriverType, Place, Running
<1>26. ASSUME Rethrow PROVE DriverType' /\ Place' /\ Catches
  <2>1. Head(todo) = "awaitStopped" /\ outcome' = verdict /\ UNCHANGED <<scenario, todo, verdict>>
    BY <1>26 DEF Rethrow, At
  <2>2. ~Running
    BY <2>1, Here
  <2>3. verdict # "none" /\ scenario # "storm" /\ verdict \in Verdicts
    BY <2>2, Catching DEF DriverType
  <2> QED
    BY <1>26, <2>1, <2>3 DEF Catches, DriverType, Place, Running, Verdicts
<1>27. ASSUME Quiesce PROVE DriverType' /\ Place' /\ Concludes
  <2>1. /\ Head(todo) = "quiesce" /\ outcome' \in {"passed", "rejected"}
        /\ UNCHANGED <<scenario, todo, verdict>>
    BY <1>27 DEF Quiesce, At
  <2>2. Running
    BY <2>1, Catching
  <2>3. Ahead = 1
    BY <2>1, <2>2, Here DEF DriverType, DeliveryRow, OutageRow, StormRow
  <2> QED
    BY <1>27, <2>1, <2>2, <2>3 DEF Concludes, DriverType, Place, Running, Verdicts
<1> QED
  BY <1>1, <1>2, <1>3, <1>4, <1>5, <1>6, <1>7, <1>8, <1>9, <1>10, <1>11, <1>12, <1>13, <1>14,
     <1>15, <1>16, <1>17, <1>18, <1>19, <1>20, <1>21, <1>22, <1>23, <1>24, <1>25, <1>26, <1>27
     DEF Driver, StartSubscribers, StartCreate, StartCanceller, StartCleanup, StartStorm

(* The other steps leave the driver alone. *)
LEMMA OthersStay ==
    ASSUME \/ Clients \/ Broker \/ Tick \/ BrokerMisbehaves \/ SiblingDisturbed
           \/ \E d \in Definitions : CreateFails(d)
    PROVE  UNCHANGED driverVars
<1>1. Clients => UNCHANGED driverVars
  BY Zenon
     DEF Clients, Subscribe, SubscriberEnds, Handle, SendCreate, Cancel, RaceCancel, CreationDone,
         VerifyDefinitions, CleanupDone, RaceCancelDone, OpenWindow, CanaryCreates, CanaryCancels,
         WindowCloses, PostStormCanary, StormVerdict, StormFinally
<1>2. Broker => UNCHANGED driverVars
  BY Zenon DEF Broker, BrokerCreates, Fire
<1> QED
  BY <1>1, <1>2, Zenon DEF Tick, BrokerMisbehaves, SiblingDisturbed, CreateFails

(* The names that the model is built from. *)
LEMMA Names ==
    /\ "worker" \in Roles /\ "canceller" \in Roles /\ Subscribers \subseteq Roles
    /\ "worker" \notin Subscribers /\ "canceller" \notin Subscribers
    /\ AnySubscriber \in Subscribers
<1>1. AnySubscriber \in Subscribers
  BY SubscribersAssumption DEF AnySubscriber
<1> QED
  BY <1>1, SubscribersAssumption DEF Roles

(* The definitions of a scenario. *)
LEMMA DefinitionNames ==
    ASSUME DriverType
    PROVE  /\ Fires \in Nat \ {0} /\ Sequences = 0..(Fires - 1)
           /\ Canary \notin Definitions /\ AllDefinitions = Definitions \cup {Canary}
           /\ scenario = "delivery" =>
                /\ Definitions = OfKind({"broadcast", "single", "cancelled"})
                /\ OfKind({"cancelled"}) \subseteq Definitions
                /\ OfKind({"broadcast", "single"}) \subseteq Definitions
                /\ OfKind({"broadcast"}) \subseteq Definitions
                /\ OfKind({"single"}) \subseteq Definitions
                /\ OfKind({"broadcast", "single"}) \cap OfKind({"cancelled"}) = {}
                /\ Definitions = OfKind({"broadcast", "single"}) \cup OfKind({"cancelled"})
                /\ OfKind({"broadcast", "single"}) = OfKind({"broadcast"}) \cup OfKind({"single"})
                /\ OfKind({"broadcast"}) \cap OfKind({"single"}) = {}
           /\ scenario = "outage" =>
                /\ Definitions = OfKind({"repeated", "race"})
                /\ OfKind({"repeated"}) \subseteq Definitions /\ OfKind({"race"}) \subseteq Definitions
                /\ Definitions = OfKind({"repeated"}) \cup OfKind({"race"})
                /\ OfKind({"repeated"}) \cap OfKind({"race"}) = {}
           /\ scenario = "storm" => Definitions = OfKind({"storm"})
<1>1. scenario \in {"delivery", "outage", "storm"}
  BY DEF DriverType
<1>2. Fires \in Nat \ {0}
  BY <1>1, BoundsAssumption DEF Fires
<1>3. Canary \notin Definitions
  BY <1>1 DEF Canary, Definitions, OfKind, Kinds
<1>4. CASE scenario = "delivery"
  <2>1. Definitions = {"broadcast", "single", "cancelled"} \X Sequences
    BY <1>4 DEF Definitions, OfKind, Kinds
  <2> QED
    BY <1>2, <1>3, <1>4, <2>1 DEF OfKind, AllDefinitions, Sequences
<1>5. CASE scenario = "outage"
  <2>1. Definitions = {"repeated", "race"} \X Sequences
    BY <1>5 DEF Definitions, OfKind, Kinds
  <2> QED
    BY <1>2, <1>3, <1>5, <2>1 DEF OfKind, AllDefinitions, Sequences
<1>6. CASE scenario = "storm"
  <2>1. Definitions = {"storm"} \X Sequences
    BY <1>6 DEF Definitions, OfKind, Kinds
  <2> QED
    BY <1>2, <1>3, <1>6, <2>1 DEF OfKind, AllDefinitions, Sequences
<1> QED
  BY <1>1, <1>4, <1>5, <1>6

(* They stay what they are. *)
LEMMA SameDefinitions ==
    ASSUME UNCHANGED scenario
    PROVE  /\ Definitions' = Definitions /\ AllDefinitions' = AllDefinitions
           /\ Fires' = Fires /\ Sequences' = Sequences
           /\ \A kinds : OfKind(kinds)' = OfKind(kinds)
BY DEF Definitions, AllDefinitions, OfKind, Sequences, Fires
-----------------------------------------------------------------------------
(* Type correctness. *)

(* The steps of the system, without those of failing commands, of saturated
   clients and of the counter, which come last. *)
Regular ==
    /\ outcome = "none"
    /\ \/ Driver \/ Clients \/ Broker \/ Tick \/ DeadlinePasses
       \/ BrokerMisbehaves \/ SiblingDisturbed \/ \E d \in Definitions : CreateFails(d)

(* What a step of the system is. *)
StepKinds ==
    \/ Observes \/ Launches \/ Catches \/ Concludes
    \/ Clients \/ Broker \/ Tick \/ BrokerMisbehaves \/ SiblingDisturbed
    \/ \E d \in Definitions : CreateFails(d)

(* Every step is one of these, and keeps the driver in its script. *)
LEMMA NextCases ==
    ASSUME DriverType, Place, Regular
    PROVE  /\ StepKinds /\ outcome = "none" /\ UNCHANGED scenario
           /\ DriverType' /\ Place'
<1>1. CASE Driver \/ DeadlinePasses
  <2>1. DriverType' /\ Place' /\ (Observes \/ Launches \/ Catches \/ Concludes)
    BY <1>1, DriverCases DEF Regular
  <2>2. UNCHANGED scenario
    BY <2>1 DEF Observes, Launches, Catches, Concludes, Moves, Throws, Ends, Quiesce
  <2> QED
    BY <2>1, <2>2 DEF StepKinds, Regular
<1>2. CASE ~(Driver \/ DeadlinePasses)
  <2>1. \/ Clients \/ Broker \/ Tick \/ BrokerMisbehaves \/ SiblingDisturbed
        \/ \E d \in Definitions : CreateFails(d)
    BY <1>2 DEF Regular
  <2>2. UNCHANGED <<scenario, todo, verdict, outcome>>
    BY <2>1, OthersStay DEF driverVars
  <2> QED
    BY <2>1, <2>2 DEF StepKinds, Regular, DriverType, Place, Running
<1> QED
  BY <1>1, <1>2

(* Every step keeps the types. *)
LEMMA WorldTypes ==
    ASSUME TypeOK, Place, Regular
    PROVE  ClientType' /\ LedgerType' /\ BrokerType'
<1>0. /\ Definitions' = Definitions /\ AllDefinitions' = AllDefinitions
      /\ Definitions \subseteq AllDefinitions /\ Canary \in AllDefinitions
      /\ Canary \notin Definitions
      /\ "worker" \in Roles /\ "canceller" \in Roles /\ Subscribers \subseteq Roles
      /\ AnySubscriber \in Subscribers
      /\ scenario = "delivery" => OfKind({"cancelled"}) \subseteq Definitions
      /\ scenario = "delivery" => OfKind({"broadcast", "single"}) \subseteq Definitions
      /\ scenario = "outage" => OfKind({"race"}) \subseteq Definitions
      /\ scenario \in {"delivery", "outage", "storm"}
  BY NextCases, SameDefinitions, DefinitionNames, Names DEF TypeOK, DriverType
<1> USE DEF TypeOK
<1>1. ASSUME Observes PROVE ClientType' /\ LedgerType' /\ BrokerType'
  <2>1. ClientType'
    BY <1>1, <1>0
       DEF Observes, World, workerVars, ledgerVars, brokerVars, historyVars, ClientType, PcNames
  <2>2. LedgerType'
    BY <1>1, <1>0 DEF Observes, World, workerVars, ledgerVars, brokerVars, historyVars, LedgerType
  <2>3. BrokerType'
    BY <1>1, <1>0 DEF Observes, World, workerVars, ledgerVars, brokerVars, historyVars, BrokerType
  <2> QED
    BY <2>1, <2>2, <2>3
<1>2. ASSUME Running, Moves, StartSubscribers PROVE ClientType' /\ LedgerType' /\ BrokerType'
  <2>1. ClientType'
    BY <1>2, <1>0
       DEF StartSubscribers, Start, Starting, workerVars, ledgerVars, brokerVars, historyVars,
           ClientType, PcNames
  <2>2. LedgerType'
    BY <1>2, <1>0
       DEF StartSubscribers, Start, Starting, workerVars, ledgerVars, brokerVars, historyVars,
           LedgerType
  <2>3. BrokerType'
    BY <1>2, <1>0
       DEF StartSubscribers, Start, Starting, workerVars, ledgerVars, brokerVars, historyVars,
           BrokerType
  <2> QED
    BY <2>1, <2>2, <2>3
<1>3. ASSUME Running, Moves, StartCreate PROVE ClientType' /\ LedgerType' /\ BrokerType'
  <2>1. ClientType'
    BY <1>3, <1>0
       DEF StartCreate, Start, Worker, workerVars, ledgerVars, brokerVars, historyVars,
           ClientType, PcNames
  <2>2. LedgerType'
    BY <1>3, <1>0
       DEF StartCreate, Start, Worker, workerVars, ledgerVars, brokerVars, historyVars, LedgerType
  <2>3. BrokerType'
    BY <1>3, <1>0
       DEF StartCreate, Start, Worker, workerVars, ledgerVars, brokerVars, historyVars, BrokerType
  <2> QED
    BY <2>1, <2>2, <2>3
<1>4. ASSUME Running, Moves, StartCanceller PROVE ClientType' /\ LedgerType' /\ BrokerType'
  <2>0. scenario = "outage"
    <3>1. Head(todo) = "startCanceller"
      BY <1>4 DEF StartCanceller, Start, At
    <3> QED
      BY <1>4, <1>0, <3>1, Here DEF DeliveryRow, StormRow
  <2>1. ClientType'
    BY <1>4, <1>0, <2>0
       DEF StartCanceller, Start, workerVars, ledgerVars, brokerVars, historyVars, ClientType,
           PcNames
  <2>2. LedgerType'
    BY <1>4, <1>0
       DEF StartCanceller, Start, workerVars, ledgerVars, brokerVars, historyVars, LedgerType
  <2>3. BrokerType'
    BY <1>4, <1>0
       DEF StartCanceller, Start, workerVars, ledgerVars, brokerVars, historyVars, BrokerType
  <2> QED
    BY <2>1, <2>2, <2>3
<1>5. ASSUME Running, Moves, StartCleanup PROVE ClientType' /\ LedgerType' /\ BrokerType'
  <2>1. ClientType'
    BY <1>5, <1>0
       DEF StartCleanup, Start, Worker, workerVars, ledgerVars, brokerVars, historyVars,
           ClientType, BrokerType, PcNames
  <2>2. LedgerType'
    BY <1>5, <1>0
       DEF StartCleanup, Start, Worker, workerVars, ledgerVars, brokerVars, historyVars,
           LedgerType, BrokerType
  <2>3. BrokerType'
    BY <1>5, <1>0
       DEF StartCleanup, Start, Worker, workerVars, ledgerVars, brokerVars, historyVars,
           BrokerType
  <2> QED
    BY <2>1, <2>2, <2>3
<1>6. ASSUME Running, Moves, StartStorm PROVE ClientType' /\ LedgerType' /\ BrokerType'
  <2>1. ClientType'
    BY <1>6, <1>0
       DEF StartStorm, Start, workerVars, ledgerVars, brokerVars, historyVars, ClientType, PcNames
  <2>2. LedgerType'
    BY <1>6, <1>0
       DEF StartStorm, Start, workerVars, ledgerVars, brokerVars, historyVars, LedgerType
  <2>3. BrokerType'
    BY <1>6, <1>0
       DEF StartStorm, Start, workerVars, ledgerVars, brokerVars, historyVars, BrokerType
  <2> QED
    BY <2>1, <2>2, <2>3
<1>7. ASSUME Running, Moves, StopFitz PROVE ClientType' /\ LedgerType' /\ BrokerType'
  <2>1. ClientType'
    BY <1>7, <1>0
       DEF StopFitz, workerVars, ledgerVars, brokerVars, historyVars, ClientType, PcNames
  <2>2. LedgerType'
    BY <1>7, <1>0 DEF StopFitz, workerVars, ledgerVars, brokerVars, historyVars, LedgerType
  <2>3. BrokerType'
    BY <1>7, <1>0 DEF StopFitz, workerVars, ledgerVars, brokerVars, historyVars, BrokerType
  <2> QED
    BY <2>1, <2>2, <2>3
<1>8. ASSUME Running, Moves, RestartFitz PROVE ClientType' /\ LedgerType' /\ BrokerType'
  <2>1. ClientType'
    BY <1>8, <1>0
       DEF RestartFitz, workerVars, ledgerVars, brokerVars, historyVars, ClientType, PcNames
  <2>2. LedgerType'
    BY <1>8, <1>0 DEF RestartFitz, workerVars, ledgerVars, brokerVars, historyVars, LedgerType
  <2>3. BrokerType'
    BY <1>8, <1>0 DEF RestartFitz, workerVars, ledgerVars, brokerVars, historyVars, BrokerType
  <2> QED
    BY <2>1, <2>2, <2>3
<1>9. ASSUME Running, Moves, SignalSubscribers("signal")
      PROVE  ClientType' /\ LedgerType' /\ BrokerType'
  <2>1. ClientType'
    BY <1>9, <1>0
       DEF SignalSubscribers, workerVars, ledgerVars, brokerVars, historyVars, ClientType, PcNames
  <2>2. LedgerType'
    BY <1>9, <1>0
       DEF SignalSubscribers, workerVars, ledgerVars, brokerVars, historyVars, LedgerType
  <2>3. BrokerType'
    BY <1>9, <1>0
       DEF SignalSubscribers, workerVars, ledgerVars, brokerVars, historyVars, BrokerType
  <2> QED
    BY <2>1, <2>2, <2>3
<1>10. ASSUME Catches, SignalSubscribers("stopSubscribers")
      PROVE  ClientType' /\ LedgerType' /\ BrokerType'
  <2>1. ClientType'
    BY <1>10, <1>0
       DEF SignalSubscribers, workerVars, ledgerVars, brokerVars, historyVars, ClientType, PcNames
  <2>2. LedgerType'
    BY <1>10, <1>0
       DEF SignalSubscribers, workerVars, ledgerVars, brokerVars, historyVars, LedgerType
  <2>3. BrokerType'
    BY <1>10, <1>0
       DEF SignalSubscribers, workerVars, ledgerVars, brokerVars, historyVars, BrokerType
  <2> QED
    BY <2>1, <2>2, <2>3
<1>11. ASSUME Catches, Rethrow PROVE ClientType' /\ LedgerType' /\ BrokerType'
  <2>1. ClientType'
    BY <1>11, <1>0
       DEF Rethrow, workerVars, ledgerVars, brokerVars, historyVars, ClientType, PcNames
  <2>2. LedgerType'
    BY <1>11, <1>0 DEF Rethrow, workerVars, ledgerVars, brokerVars, historyVars, LedgerType
  <2>3. BrokerType'
    BY <1>11, <1>0 DEF Rethrow, workerVars, ledgerVars, brokerVars, historyVars, BrokerType
  <2> QED
    BY <2>1, <2>2, <2>3
<1>12. ASSUME Concludes PROVE ClientType' /\ LedgerType' /\ BrokerType'
  <2>1. ClientType'
    BY <1>12, <1>0
       DEF Concludes, Quiesce, workerVars, ledgerVars, brokerVars, historyVars, ClientType,
           PcNames
  <2>2. LedgerType'
    BY <1>12, <1>0
       DEF Concludes, Quiesce, workerVars, ledgerVars, brokerVars, historyVars, LedgerType
  <2>3. BrokerType'
    BY <1>12, <1>0
       DEF Concludes, Quiesce, workerVars, ledgerVars, brokerVars, historyVars, BrokerType
  <2> QED
    BY <2>1, <2>2, <2>3
<1>13. ASSUME NEW s \in Subscribers, Subscribe(s) PROVE ClientType' /\ LedgerType' /\ BrokerType'
  <2>1. ClientType'
    BY <1>13, <1>0
       DEF Subscribe, Goes, workerVars, ledgerVars, brokerVars, historyVars, ClientType, PcNames
  <2>2. LedgerType'
    BY <1>13, <1>0
       DEF Subscribe, Goes, workerVars, ledgerVars, brokerVars, historyVars, LedgerType
  <2>3. BrokerType'
    BY <1>13, <1>0
       DEF Subscribe, Goes, workerVars, ledgerVars, brokerVars, historyVars, BrokerType
  <2> QED
    BY <2>1, <2>2, <2>3
<1>14. ASSUME NEW s \in Subscribers, SubscriberEnds(s)
      PROVE  ClientType' /\ LedgerType' /\ BrokerType'
  <2>1. ClientType'
    BY <1>14, <1>0
       DEF SubscriberEnds, Goes, workerVars, ledgerVars, brokerVars, historyVars, ClientType,
           PcNames
  <2>2. LedgerType'
    BY <1>14, <1>0
       DEF SubscriberEnds, Goes, workerVars, ledgerVars, brokerVars, historyVars, LedgerType
  <2>3. BrokerType'
    BY <1>14, <1>0
       DEF SubscriberEnds, Goes, workerVars, ledgerVars, brokerVars, historyVars, BrokerType
  <2> QED
    BY <2>1, <2>2, <2>3
<1>15. ASSUME NEW s \in Subscribers, NEW n \in pending, Handle(s, n)
      PROVE  ClientType' /\ LedgerType' /\ BrokerType'
  <2>1. ClientType'
    BY <1>15, <1>0
       DEF Handle, workerVars, ledgerVars, brokerVars, historyVars, ClientType, BrokerType,
           PcNames
  <2>2. LedgerType'
    BY <1>15, <1>0
       DEF Handle, workerVars, ledgerVars, brokerVars, historyVars, LedgerType, BrokerType
  <2>3. BrokerType'
    BY <1>15, <1>0 DEF Handle, workerVars, ledgerVars, brokerVars, historyVars, BrokerType
  <2> QED
    BY <2>1, <2>2, <2>3
<1>16. ASSUME NEW d \in Definitions, SendCreate(d) PROVE ClientType' /\ LedgerType' /\ BrokerType'
  <2>1. ClientType'
    BY <1>16, <1>0
       DEF SendCreate, workerVars, ledgerVars, brokerVars, historyVars, ClientType, PcNames
  <2>2. LedgerType'
    BY <1>16, <1>0 DEF SendCreate, workerVars, ledgerVars, brokerVars, historyVars, LedgerType
  <2>3. BrokerType'
    BY <1>16, <1>0 DEF SendCreate, workerVars, ledgerVars, brokerVars, historyVars, BrokerType
  <2> QED
    BY <2>1, <2>2, <2>3
<1>17. ASSUME NEW d \in Definitions, Cancel(d) PROVE ClientType' /\ LedgerType' /\ BrokerType'
  <2>1. ClientType'
    BY <1>17, <1>0
       DEF Cancel, Goes, Misbehaves, workerVars, ledgerVars, brokerVars, historyVars, ClientType,
           PcNames
  <2>2. LedgerType'
    BY <1>17, <1>0
       DEF Cancel, Goes, Misbehaves, workerVars, ledgerVars, brokerVars, historyVars, LedgerType
  <2>3. BrokerType'
    BY <1>17, <1>0
       DEF Cancel, Goes, Misbehaves, workerVars, ledgerVars, brokerVars, historyVars, BrokerType
  <2> QED
    BY <2>1, <2>2, <2>3
<1>18. ASSUME NEW d \in Definitions, RaceCancel(d) PROVE ClientType' /\ LedgerType' /\ BrokerType'
  <2>1. ClientType'
    BY <1>18, <1>0
       DEF RaceCancel, Misbehaves, workerVars, ledgerVars, brokerVars, historyVars, ClientType,
           PcNames
  <2>2. LedgerType'
    BY <1>18, <1>0
       DEF RaceCancel, Misbehaves, workerVars, ledgerVars, brokerVars, historyVars, LedgerType
  <2>3. BrokerType'
    BY <1>18, <1>0
       DEF RaceCancel, Misbehaves, workerVars, ledgerVars, brokerVars, historyVars, BrokerType
  <2> QED
    BY <2>1, <2>2, <2>3
<1>19. ASSUME CreationDone PROVE ClientType' /\ LedgerType' /\ BrokerType'
  <2>1. ClientType'
    <3>1. /\ left' \in SUBSET AllDefinitions /\ pc' \in [Roles -> PcNames]
      <4>1. CASE scenario = "delivery"
        BY <1>19, <4>1, <1>0 DEF CreationDone, Goes, ClientType, PcNames
      <4>2. CASE scenario = "outage"
        BY <1>19, <4>2, <1>0 DEF CreationDone, Goes, ClientType, PcNames
      <4>3. CASE scenario = "storm"
        BY <1>19, <4>3, <1>0 DEF CreationDone, Goes, ClientType, PcNames
      <4> QED
        BY <1>0, <4>1, <4>2, <4>3
    <3> QED
      BY <1>19, <1>0, <3>1 DEF CreationDone, ClientType
  <2>2. LedgerType'
    BY <1>19, <1>0
       DEF CreationDone, Goes, workerVars, ledgerVars, brokerVars, historyVars, LedgerType
  <2>3. BrokerType'
    BY <1>19, <1>0
       DEF CreationDone, Goes, workerVars, ledgerVars, brokerVars, historyVars, BrokerType
  <2> QED
    BY <2>1, <2>2, <2>3
<1>20. ASSUME VerifyDefinitions PROVE ClientType' /\ LedgerType' /\ BrokerType'
  <2>1. ClientType'
    BY <1>20, <1>0
       DEF VerifyDefinitions, Goes, workerVars, ledgerVars, brokerVars, historyVars, ClientType,
           PcNames
  <2>2. LedgerType'
    BY <1>20, <1>0
       DEF VerifyDefinitions, Goes, workerVars, ledgerVars, brokerVars, historyVars, LedgerType
  <2>3. BrokerType'
    BY <1>20, <1>0
       DEF VerifyDefinitions, Goes, workerVars, ledgerVars, brokerVars, historyVars, BrokerType
  <2> QED
    BY <2>1, <2>2, <2>3
<1>21. ASSUME CleanupDone PROVE ClientType' /\ LedgerType' /\ BrokerType'
  <2>1. ClientType'
    BY <1>21, <1>0
       DEF CleanupDone, Goes, workerVars, ledgerVars, brokerVars, historyVars, ClientType, PcNames
  <2>2. LedgerType'
    BY <1>21, <1>0
       DEF CleanupDone, Goes, workerVars, ledgerVars, brokerVars, historyVars, LedgerType
  <2>3. BrokerType'
    BY <1>21, <1>0
       DEF CleanupDone, Goes, workerVars, ledgerVars, brokerVars, historyVars, BrokerType
  <2> QED
    BY <2>1, <2>2, <2>3
<1>22. ASSUME RaceCancelDone PROVE ClientType' /\ LedgerType' /\ BrokerType'
  <2>1. ClientType'
    BY <1>22, <1>0
       DEF RaceCancelDone, Goes, workerVars, ledgerVars, brokerVars, historyVars, ClientType,
           PcNames
  <2>2. LedgerType'
    BY <1>22, <1>0
       DEF RaceCancelDone, Goes, workerVars, ledgerVars, brokerVars, historyVars, LedgerType
  <2>3. BrokerType'
    BY <1>22, <1>0
       DEF RaceCancelDone, Goes, workerVars, ledgerVars, brokerVars, historyVars, BrokerType
  <2> QED
    BY <2>1, <2>2, <2>3
<1>23. ASSUME OpenWindow PROVE ClientType' /\ LedgerType' /\ BrokerType'
  <2>1. ClientType'
    BY <1>23, <1>0
       DEF OpenWindow, Goes, workerVars, ledgerVars, brokerVars, historyVars, ClientType, PcNames
  <2>2. LedgerType'
    BY <1>23, <1>0
       DEF OpenWindow, Goes, workerVars, ledgerVars, brokerVars, historyVars, LedgerType
  <2>3. BrokerType'
    BY <1>23, <1>0
       DEF OpenWindow, Goes, workerVars, ledgerVars, brokerVars, historyVars, BrokerType
  <2> QED
    BY <2>1, <2>2, <2>3
<1>24. ASSUME CanaryCreates PROVE ClientType' /\ LedgerType' /\ BrokerType'
  <2>1. ClientType'
    BY <1>24, <1>0
       DEF CanaryCreates, workerVars, ledgerVars, brokerVars, historyVars, ClientType, PcNames
  <2>2. LedgerType'
    BY <1>24, <1>0 DEF CanaryCreates, workerVars, ledgerVars, brokerVars, historyVars, LedgerType
  <2>3. BrokerType'
    BY <1>24, <1>0 DEF CanaryCreates, workerVars, ledgerVars, brokerVars, historyVars, BrokerType
  <2> QED
    BY <2>1, <2>2, <2>3
<1>25. ASSUME CanaryCancels PROVE ClientType' /\ LedgerType' /\ BrokerType'
  <2>1. ClientType'
    BY <1>25, <1>0
       DEF CanaryCancels, workerVars, ledgerVars, brokerVars, historyVars, ClientType, PcNames
  <2>2. LedgerType'
    BY <1>25, <1>0 DEF CanaryCancels, workerVars, ledgerVars, brokerVars, historyVars, LedgerType
  <2>3. BrokerType'
    BY <1>25, <1>0 DEF CanaryCancels, workerVars, ledgerVars, brokerVars, historyVars, BrokerType
  <2> QED
    BY <2>1, <2>2, <2>3
<1>26. ASSUME WindowCloses PROVE ClientType' /\ LedgerType' /\ BrokerType'
  <2>1. ClientType'
    BY <1>26, <1>0
       DEF WindowCloses, Goes, workerVars, ledgerVars, brokerVars, historyVars, ClientType,
           PcNames
  <2>2. LedgerType'
    BY <1>26, <1>0
       DEF WindowCloses, Goes, workerVars, ledgerVars, brokerVars, historyVars, LedgerType
  <2>3. BrokerType'
    BY <1>26, <1>0
       DEF WindowCloses, Goes, workerVars, ledgerVars, brokerVars, historyVars, BrokerType
  <2> QED
    BY <2>1, <2>2, <2>3
<1>27. ASSUME PostStormCanary PROVE ClientType' /\ LedgerType' /\ BrokerType'
  <2>1. ClientType'
    BY <1>27, <1>0
       DEF PostStormCanary, Goes, workerVars, ledgerVars, brokerVars, historyVars, ClientType,
           PcNames
  <2>2. LedgerType'
    BY <1>27, <1>0
       DEF PostStormCanary, Goes, workerVars, ledgerVars, brokerVars, historyVars, LedgerType
  <2>3. BrokerType'
    BY <1>27, <1>0
       DEF PostStormCanary, Goes, workerVars, ledgerVars, brokerVars, historyVars, BrokerType
  <2> QED
    BY <2>1, <2>2, <2>3
<1>28. ASSUME StormVerdict PROVE ClientType' /\ LedgerType' /\ BrokerType'
  <2>1. ClientType'
    BY <1>28, <1>0
       DEF StormVerdict, Goes, workerVars, ledgerVars, brokerVars, historyVars, ClientType,
           PcNames
  <2>2. LedgerType'
    BY <1>28, <1>0
       DEF StormVerdict, Goes, workerVars, ledgerVars, brokerVars, historyVars, LedgerType
  <2>3. BrokerType'
    BY <1>28, <1>0
       DEF StormVerdict, Goes, workerVars, ledgerVars, brokerVars, historyVars, BrokerType
  <2> QED
    BY <2>1, <2>2, <2>3
<1>29. ASSUME StormFinally PROVE ClientType' /\ LedgerType' /\ BrokerType'
  <2>1. ClientType'
    BY <1>29, <1>0
       DEF StormFinally, workerVars, ledgerVars, brokerVars, historyVars, ClientType, PcNames
  <2>2. LedgerType'
    BY <1>29, <1>0 DEF StormFinally, workerVars, ledgerVars, brokerVars, historyVars, LedgerType
  <2>3. BrokerType'
    BY <1>29, <1>0 DEF StormFinally, workerVars, ledgerVars, brokerVars, historyVars, BrokerType
  <2> QED
    BY <2>1, <2>2, <2>3
<1>30. ASSUME NEW d \in Definitions, BrokerCreates(d)
      PROVE  ClientType' /\ LedgerType' /\ BrokerType'
  <2>1. ClientType'
    BY <1>30, <1>0
       DEF BrokerCreates, workerVars, ledgerVars, brokerVars, historyVars, ClientType, PcNames
  <2>2. LedgerType'
    BY <1>30, <1>0 DEF BrokerCreates, workerVars, ledgerVars, brokerVars, historyVars, LedgerType
  <2>3. BrokerType'
    BY <1>30, <1>0 DEF BrokerCreates, workerVars, ledgerVars, brokerVars, historyVars, BrokerType
  <2> QED
    BY <2>1, <2>2, <2>3
<1>31. ASSUME NEW d \in Definitions, Fire(d) PROVE ClientType' /\ LedgerType' /\ BrokerType'
  <2>1. ClientType'
    BY <1>31, <1>0 DEF Fire, workerVars, ledgerVars, brokerVars, historyVars, ClientType, PcNames
  <2>2. LedgerType'
    BY <1>31, <1>0
       DEF Fire, workerVars, ledgerVars, brokerVars, historyVars, LedgerType, ClientType
  <2>3. BrokerType'
    BY <1>31, <1>0
       DEF Fire, workerVars, ledgerVars, brokerVars, historyVars, BrokerType, IsDue, ClientType
  <2> QED
    BY <2>1, <2>2, <2>3
<1>32. ASSUME Tick PROVE ClientType' /\ LedgerType' /\ BrokerType'
  <2>1. ClientType'
    BY <1>32, <1>0
       DEF Tick, workerVars, ledgerVars, brokerVars, historyVars, ClientType, LastInstant, Due,
           PcNames
  <2>2. LedgerType'
    BY <1>32, <1>0
       DEF Tick, workerVars, ledgerVars, brokerVars, historyVars, LedgerType, ClientType,
           LastInstant, Due
  <2>3. BrokerType'
    BY <1>32, <1>0
       DEF Tick, workerVars, ledgerVars, brokerVars, historyVars, BrokerType, ClientType,
           LastInstant, Due
  <2> QED
    BY <2>1, <2>2, <2>3
<1>33. ASSUME BrokerMisbehaves PROVE ClientType' /\ LedgerType' /\ BrokerType'
  <2>1. ClientType'
    BY <1>33, <1>0
       DEF BrokerMisbehaves, Misbehaves, workerVars, ledgerVars, brokerVars, historyVars,
           ClientType, PcNames
  <2>2. LedgerType'
    BY <1>33, <1>0
       DEF BrokerMisbehaves, Misbehaves, workerVars, ledgerVars, brokerVars, historyVars,
           LedgerType, ClientType
  <2>3. BrokerType'
    BY <1>33, <1>0
       DEF BrokerMisbehaves, Misbehaves, workerVars, ledgerVars, brokerVars, historyVars,
           BrokerType, IsDue, ClientType
  <2> QED
    BY <2>1, <2>2, <2>3
<1>34. ASSUME SiblingDisturbed PROVE ClientType' /\ LedgerType' /\ BrokerType'
  <2>1. ClientType'
    BY <1>34, <1>0
       DEF SiblingDisturbed, Goes, Misbehaves, workerVars, ledgerVars, brokerVars, historyVars,
           ClientType, PcNames
  <2>2. LedgerType'
    BY <1>34, <1>0
       DEF SiblingDisturbed, Goes, Misbehaves, workerVars, ledgerVars, brokerVars, historyVars,
           LedgerType
  <2>3. BrokerType'
    BY <1>34, <1>0
       DEF SiblingDisturbed, Goes, Misbehaves, workerVars, ledgerVars, brokerVars, historyVars,
           BrokerType
  <2> QED
    BY <2>1, <2>2, <2>3
<1>35. ASSUME NEW d \in Definitions, CreateFails(d)
      PROVE  ClientType' /\ LedgerType' /\ BrokerType'
  <2>1. ClientType'
    BY <1>35, <1>0
       DEF CreateFails, Goes, Misbehaves, workerVars, ledgerVars, brokerVars, historyVars,
           ClientType, PcNames
  <2>2. LedgerType'
    BY <1>35, <1>0
       DEF CreateFails, Goes, Misbehaves, workerVars, ledgerVars, brokerVars, historyVars,
           LedgerType
  <2>3. BrokerType'
    BY <1>35, <1>0
       DEF CreateFails, Goes, Misbehaves, workerVars, ledgerVars, brokerVars, historyVars,
           BrokerType
  <2> QED
    BY <2>1, <2>2, <2>3
<1> QED
  BY <1>1, <1>2, <1>3, <1>4, <1>5, <1>6, <1>7, <1>8, <1>9, <1>10, <1>11, <1>12, <1>13, <1>14,
     <1>15, <1>16, <1>17, <1>18, <1>19, <1>20, <1>21, <1>22, <1>23, <1>24, <1>25, <1>26, <1>27,
     <1>28, <1>29, <1>30, <1>31, <1>32, <1>33, <1>34, <1>35, NextCases
     DEF StepKinds, Launches, Catches, Clients, Broker
-----------------------------------------------------------------------------
(* The fleet and its ledgers. *)

(* A notification is for a subscriber and of a definition. *)
LEMMA Notification ==
    ASSUME TypeOK, NEW n \in pending
    PROVE  /\ n[1] \in Subscribers /\ n[2] \in Definitions
           /\ n[3] \in {"once", "again", "corrupt"} /\ n = <<n[1], n[2], n[3]>>
BY DEF TypeOK, BrokerType

(* Only a handler writes into a ledger. *)
LEMMA LedgersStay ==
    ASSUME StepKinds
    PROVE  UNCHANGED ledgerVars \/ \E s \in Subscribers, n \in pending : Handle(s, n)
<1>1. Observes \/ Launches \/ Catches \/ Concludes => UNCHANGED ledgerVars
  BY Zenon
     DEF Observes, World, Launches, Catches, Concludes, StartSubscribers, StartCreate,
         StartCanceller, StartCleanup, StartStorm, Start, StopFitz, RestartFitz,
         SignalSubscribers, Rethrow, Quiesce
<1>2. Clients => UNCHANGED ledgerVars \/ \E s \in Subscribers, n \in pending : Handle(s, n)
  BY Zenon
     DEF Clients, Subscribe, SubscriberEnds, SendCreate, Cancel, RaceCancel, CreationDone,
         VerifyDefinitions, CleanupDone, RaceCancelDone, OpenWindow, CanaryCreates, CanaryCancels,
         WindowCloses, PostStormCanary, StormVerdict, StormFinally
<1>3. Broker => UNCHANGED ledgerVars
  BY Zenon DEF Broker, BrokerCreates, Fire
<1> QED
  BY <1>1, <1>2, <1>3, Zenon DEF StepKinds, Tick, BrokerMisbehaves, SiblingDisturbed, CreateFails

(* A ledger without objections counts what was delivered. *)
LEMMA LedgerNext ==
    ASSUME TypeOK, Place, LedgerInv, Regular
    PROVE  LedgerInv'
<1>0. StepKinds /\ UNCHANGED scenario /\ Definitions' = Definitions /\ Canary \notin Definitions
      /\ Definitions \subseteq AllDefinitions
  BY NextCases, SameDefinitions, DefinitionNames DEF TypeOK
<1>1. CASE UNCHANGED ledgerVars
  BY <1>0, <1>1 DEF LedgerInv, ledgerVars
<1>2. ASSUME NEW s \in Subscribers, NEW n \in pending, Handle(s, n) PROVE LedgerInv'
  <2>1. n[2] \in Definitions /\ n[1] = s /\ <<s, n[2]>> \in Subscribers \X AllDefinitions
    BY <1>0, <1>2 DEF Handle, TypeOK, BrokerType
  <2>2. scenario = "outage" => invalid' = {}
    BY <1>2 DEF Handle, LedgerInv, InTime, InvalidIsCounted
  <2>3. \A t \in Subscribers, d \in Definitions :
            delivered'[<<t, d>>] = IF Valid(n) /\ <<t, d>> = <<s, n[2]>>
                                   THEN delivered[<<t, d>>] + 1 ELSE delivered[<<t, d>>]
    BY <1>0, <1>2, <2>1 DEF Handle, TypeOK, LedgerType
  <2>4. ASSUME NEW t \in Subscribers, NEW d \in Definitions
        PROVE  /\ d \in seen'[t] => delivered'[<<t, d>>] >= 1
               /\ t \notin duplicates' /\ t \notin invalid' =>
                    delivered'[<<t, d>>] = IF d \in seen'[t] THEN 1 ELSE 0
    <3>0. delivered[<<t, d>>] \in Nat
      BY <1>0 DEF TypeOK, LedgerType
    <3>1. CASE t # s
      <4>1. seen'[t] = seen[t] /\ (t \in duplicates' <=> t \in duplicates)
            /\ (t \in invalid' <=> t \in invalid) /\ delivered'[<<t, d>>] = delivered[<<t, d>>]
        BY <1>2, <2>3, <3>1 DEF Handle, TypeOK, LedgerType
      <4> QED
        BY <4>1 DEF LedgerInv
    <3>2. CASE t = s /\ Valid(n) /\ InTime
      <4>1. seen'[s] = seen[s] \cup {n[2]} /\ invalid' = invalid
            /\ duplicates' = IF n[2] \in seen[s] THEN duplicates \cup {s} ELSE duplicates
        BY <1>2, <3>2 DEF Handle, TypeOK, LedgerType
      <4>2. CASE d = n[2]
        BY <2>3, <3>0, <3>2, <4>1, <4>2 DEF LedgerInv
      <4>3. CASE d # n[2]
        BY <2>3, <3>0, <3>2, <4>1, <4>3 DEF LedgerInv
      <4> QED
        BY <4>2, <4>3
    <3>3. CASE t = s /\ ~(Valid(n) /\ InTime)
      <4>1. seen'[s] = seen[s] /\ duplicates' = duplicates
            /\ invalid' = IF InvalidIsCounted THEN invalid \cup {s} ELSE invalid
        BY <1>2, <3>3 DEF Handle, TypeOK, LedgerType
      <4>2. CASE InvalidIsCounted
        BY <2>3, <3>0, <3>3, <4>1, <4>2 DEF LedgerInv
      <4>3. CASE ~InvalidIsCounted
        <5>1. ~Valid(n)
          BY <3>3, <4>3 DEF InvalidIsCounted, InTime
        <5> QED
          BY <2>3, <3>0, <3>3, <4>1, <4>3, <5>1 DEF LedgerInv
      <4> QED
        BY <4>2, <4>3
    <3> QED
      BY <3>1, <3>2, <3>3
  <2> QED
    BY <1>0, <2>2, <2>4 DEF LedgerInv
<1> QED
  BY <1>0, <1>1, <1>2, LedgersStay

(* A fleet and its ledgers that stay are judged as before. *)
LEMMA FleetStays ==
    ASSUME UNCHANGED scenario, UNCHANGED ledgerVars, \A s \in Subscribers : pc'[s] = pc[s]
    PROVE  /\ Accepted' = Accepted /\ Finished(Subscribers)' = Finished(Subscribers)
           /\ Ended(Subscribers)' = Ended(Subscribers)
           /\ \A s \in Subscribers : Told(s)' = Told(s)
           /\ UNCHANGED astray => AllTold' = AllTold
BY SameDefinitions
   DEF Accepted, DeliveryAccepted, OutageAccepted, FleetCount, Finished, Ended, ledgerVars, Told,
       AllTold

(* A fleet that has finished has been told. *)
LEMMA FinishedWereTold ==
    ASSUME Finished(Subscribers)
    PROVE  AllTold
BY DEF Finished, AllTold, Told

(* A driver that goes on has started the fleet and not dismissed it. *)
LEMMA MovesOn ==
    ASSUME DriverType, Place, Running, Moves
    PROVE  ~Unstarted' /\ ~Dismissed' /\ (Ahead >= 5 => ~Collected')
<1>1. Ahead \in 1..18 /\ (scenario = "delivery" => Ahead \in 1..17)
  BY Here
<1>2. Running' /\ Ahead' = Ahead - 1 /\ UNCHANGED scenario
  BY DEF Moves
<1> QED
  BY <1>1, <1>2 DEF Unstarted, Dismissed, Collected, Running

(* A fleet that has been judged is gone; an error signals it first. *)
LEMMA FleetNext ==
    ASSUME TypeOK, Place, FleetInv, Regular
    PROVE  FleetInv'
<1>0. /\ outcome = "none" /\ "worker" \notin Subscribers /\ "canceller" \notin Subscribers
      /\ AnySubscriber \in Roles /\ Subscribers \subseteq Roles
      /\ scenario \in {"delivery", "outage", "storm"}
      /\ pc \in [Roles -> PcNames]
  BY NextCases, Names DEF TypeOK, DriverType, ClientType
<1>1. ASSUME Observes PROVE FleetInv'
  <2> SUFFICES ASSUME scenario # "storm" PROVE FleetInv'
    BY <1>1 DEF FleetInv, Observes, Moves, Throws, Ends
  <2>1. /\ Running /\ UNCHANGED <<ledgerVars, scenario>> /\ (\A s \in Subscribers : pc'[s] = pc[s])
        /\ \/ Moves /\ (Head(todo) = "finishSubscribers" => Finished(Subscribers) /\ Accepted)
           \/ \E why \in Verdicts : Throws(why) \/ Ends(why)
    BY <1>1 DEF Observes, World, Passes, Moves, Throws, Ends, Verdicts
  <2>2. Ahead \in 1..18 /\ (Ahead = 4 => Head(todo) = "finishSubscribers")
    BY <1>1, <1>0, <2>1, Here DEF TypeOK, DeliveryRow, OutageRow
  <2>3. CASE Moves /\ (Head(todo) = "finishSubscribers" => Finished(Subscribers) /\ Accepted)
    <3>1. Collected' => Finished(Subscribers) /\ Accepted
      BY <2>1, <2>2, <2>3 DEF FleetInv, Collected, Moves, Running
    <3>2. ~Unstarted' /\ ~Dismissed'
      BY <2>1, <2>3, MovesOn DEF TypeOK
    <3> QED
      BY <2>1, <3>1, <3>2, FleetStays DEF FleetInv
  <2>4. ASSUME NEW why \in Verdicts, Throws(why) PROVE FleetInv'
    <3>1. /\ outcome' = "none" /\ verdict' # "none" /\ scenario' = scenario
          /\ todo' = <<"stopSubscribers", "awaitStopped">>
      BY <2>4 DEF Throws, Verdicts
    <3>2. todo' # <<"awaitStopped">>
      BY <3>1
    <3> QED
      BY <3>1, <3>2 DEF FleetInv, Collected, Unstarted, Dismissed, Running
  <2>5. ASSUME NEW why \in Verdicts, Ends(why) PROVE FleetInv'
    <3>1. Finished(Subscribers) /\ Accepted
      BY <2>1, <2>5 DEF FleetInv, Collected, Ends
    <3>2. (Finished(Subscribers) /\ Accepted)' /\ AllTold'
      BY <2>1, <3>1, FleetStays, FinishedWereTold DEF Finished, AllTold, Told
    <3>3. ~Running'
      BY <2>5 DEF Ends, Running, Verdicts
    <3> QED
      BY <3>2, <3>3 DEF FleetInv, Unstarted
  <2> QED
    BY <2>1, <2>3, <2>4, <2>5
<1>2. ASSUME Running, Moves, StartSubscribers PROVE FleetInv'
  <2>1. Head(todo) = "startSubscribers"
    BY <1>2 DEF StartSubscribers, Start, At
  <2>2. Ahead \in 1..18 /\ (scenario # "storm" => Ahead >= 5)
    BY <1>2, <1>0, <2>1, Here DEF TypeOK, DeliveryRow, OutageRow
  <2> QED
    BY <1>2, <1>0, <2>2, MovesOn DEF TypeOK, FleetInv, Moves
<1>3. ASSUME Running, Moves, StartCreate PROVE FleetInv'
  <2>1. Head(todo) = "create"
    BY <1>3 DEF StartCreate, Start, At
  <2>2. Ahead \in 1..18 /\ (scenario # "storm" => Ahead >= 5)
    BY <1>3, <1>0, <2>1, Here DEF TypeOK, DeliveryRow, OutageRow
  <2> QED
    BY <1>3, <1>0, <2>2, MovesOn DEF TypeOK, FleetInv, Moves
<1>4. ASSUME Running, Moves, StartCanceller PROVE FleetInv'
  <2>1. Head(todo) = "startCanceller"
    BY <1>4 DEF StartCanceller, Start, At
  <2>2. Ahead \in 1..18 /\ (scenario # "storm" => Ahead >= 5)
    BY <1>4, <1>0, <2>1, Here DEF TypeOK, DeliveryRow, OutageRow
  <2> QED
    BY <1>4, <1>0, <2>2, MovesOn DEF TypeOK, FleetInv, Moves
<1>5. ASSUME Running, Moves, StartCleanup PROVE FleetInv'
  <2>1. UNCHANGED <<ledgerVars, scenario>> /\ (\A s \in Subscribers : pc'[s] = pc[s])
    BY <1>5, <1>0 DEF StartCleanup, Start, Worker, Moves
  <2>2. Head(todo) = "cleanup"
    BY <1>5 DEF StartCleanup, Start, At
  <2>3. Ahead = 3
    BY <1>5, <1>0, <2>2, Here DEF TypeOK, DeliveryRow, OutageRow, StormRow
  <2>4. scenario # "storm" => Finished(Subscribers) /\ Accepted
    BY <1>5, <2>3 DEF FleetInv, Collected
  <2>5. ~Unstarted' /\ ~Dismissed'
    BY <1>5, MovesOn DEF TypeOK
  <2> QED
    BY <2>1, <2>4, <2>5, FleetStays DEF FleetInv
<1>6. ASSUME Running, Moves, StartStorm PROVE FleetInv'
  <2>1. Head(todo) = "startStorm"
    BY <1>6 DEF StartStorm, Start, At
  <2>2. Ahead \in 1..18 /\ (scenario # "storm" => Ahead >= 5)
    BY <1>6, <1>0, <2>1, Here DEF TypeOK, DeliveryRow, OutageRow
  <2> QED
    BY <1>6, <1>0, <2>2, MovesOn DEF TypeOK, FleetInv, Moves
<1>7. ASSUME Running, Moves, StopFitz PROVE FleetInv'
  <2>1. Head(todo) = "stop"
    BY <1>7 DEF StopFitz, At
  <2>2. Ahead \in 1..18 /\ (scenario # "storm" => Ahead >= 5)
    BY <1>7, <1>0, <2>1, Here DEF TypeOK, DeliveryRow, OutageRow
  <2> QED
    BY <1>7, <1>0, <2>2, MovesOn DEF TypeOK, FleetInv, Moves
<1>8. ASSUME Running, Moves, RestartFitz PROVE FleetInv'
  <2>1. Head(todo) = "start"
    BY <1>8 DEF RestartFitz, At
  <2>2. Ahead \in 1..18 /\ (scenario # "storm" => Ahead >= 5)
    BY <1>8, <1>0, <2>1, Here DEF TypeOK, DeliveryRow, OutageRow
  <2> QED
    BY <1>8, <1>0, <2>2, MovesOn DEF TypeOK, FleetInv, Moves
<1>9. ASSUME Running, Moves, SignalSubscribers("signal") PROVE FleetInv'
  <2>1. Head(todo) = "signal"
    BY <1>9 DEF SignalSubscribers, At
  <2>2. Ahead \in 1..18 /\ (scenario # "storm" => Ahead >= 5)
    BY <1>9, <1>0, <2>1, Here DEF TypeOK, DeliveryRow, OutageRow
  <2> QED
    BY <1>9, <1>0, <2>2, MovesOn DEF TypeOK, FleetInv, Moves
<1>10. ASSUME Catches, SignalSubscribers("stopSubscribers") PROVE FleetInv'
  <2>1. /\ verdict' # "none" /\ outcome' = "none"
        /\ pc' = [r \in Roles |-> IF r \in Subscribers /\ pc[r] \in {"starting", "ready"}
                                  THEN "stopping" ELSE pc[r]]
    BY <1>10 DEF Catches, SignalSubscribers, Proceed
  <2>2. AllTold'
    BY <1>0, <2>1 DEF AllTold, Told
  <2> QED
    BY <2>1, <2>2 DEF FleetInv, Collected, Unstarted, Running
<1>11. ASSUME Catches, Rethrow PROVE FleetInv'
  <2>1. /\ UNCHANGED <<ledgerVars, scenario, pc, verdict, astray>> /\ outcome' = verdict
        /\ verdict # "none" /\ scenario # "storm" /\ Head(todo) = "awaitStopped"
    BY <1>11 DEF Rethrow, Catches, At, stackVars
  <2>2. verdict \in Verdicts
    BY <2>1 DEF TypeOK, DriverType
  <2>3. todo = <<"awaitStopped">>
    <3>1. CASE todo = <<"stopSubscribers", "awaitStopped">>
      BY <2>1, <3>1
    <3> QED
      BY <2>1, <3>1 DEF Place
  <2>4. AllTold
    BY <2>1, <2>3 DEF FleetInv, Dismissed
  <2>5. AllTold'
    BY <2>1, <2>4 DEF AllTold, Told
  <2> QED
    BY <2>1, <2>2, <2>5 DEF FleetInv, Collected, Unstarted, Running, Verdicts
<1>12. ASSUME Concludes PROVE FleetInv'
  <2>1. /\ UNCHANGED <<ledgerVars, scenario, pc, verdict>> /\ Running /\ Ahead = 1
    BY <1>12 DEF Concludes, Quiesce
  <2>2. scenario # "storm" => Finished(Subscribers) /\ Accepted
    BY <2>1 DEF FleetInv, Collected
  <2>3. scenario # "storm" => (Finished(Subscribers) /\ Accepted)' /\ AllTold'
    BY <2>1, <2>2, FleetStays DEF Finished, AllTold, Told
  <2>4. ~Running'
    BY <1>12 DEF Concludes, Quiesce, Running
  <2> QED
    BY <2>1, <2>3, <2>4 DEF FleetInv, Unstarted
<1>13. ASSUME NEW s \in Subscribers, Subscribe(s) PROVE FleetInv'
  <2>1. /\ UNCHANGED <<driverVars, astray>> /\ pc[s] \notin {"done", "none"}
        /\ \A t \in Subscribers : Told(t) => Told(t)'
    BY <1>13, <1>0 DEF Subscribe, Goes, Told, stackVars
  <2>2. /\ UNCHANGED scenario /\ (Collected' <=> Collected) /\ (Unstarted' <=> Unstarted)
        /\ (Dismissed' <=> Dismissed)
    BY <2>1 DEF Collected, Unstarted, Dismissed, Running, Ahead, driverVars
  <2>3. scenario # "storm" => ~Collected
    BY <2>1 DEF FleetInv, Finished
  <2> QED
    BY <2>1, <2>2, <2>3 DEF FleetInv, AllTold
<1>14. ASSUME NEW s \in Subscribers, SubscriberEnds(s) PROVE FleetInv'
  <2>1. /\ UNCHANGED <<driverVars, astray>> /\ pc[s] \notin {"done", "none"}
        /\ \A t \in Subscribers : Told(t) => Told(t)'
    BY <1>14, <1>0 DEF SubscriberEnds, Goes, Told, stackVars
  <2>2. /\ UNCHANGED scenario /\ (Collected' <=> Collected) /\ (Unstarted' <=> Unstarted)
        /\ (Dismissed' <=> Dismissed)
    BY <2>1 DEF Collected, Unstarted, Dismissed, Running, Ahead, driverVars
  <2>3. scenario # "storm" => ~Collected
    BY <2>1 DEF FleetInv, Finished
  <2> QED
    BY <2>1, <2>2, <2>3 DEF FleetInv, AllTold
<1>15. ASSUME NEW s \in Subscribers, NEW n \in pending, Handle(s, n) PROVE FleetInv'
  <2>1. /\ UNCHANGED <<driverVars, astray>> /\ pc[s] \notin {"done", "none"}
        /\ \A t \in Subscribers : Told(t) => Told(t)'
    BY <1>15, <1>0 DEF Handle, Goes, Told, stackVars
  <2>2. /\ UNCHANGED scenario /\ (Collected' <=> Collected) /\ (Unstarted' <=> Unstarted)
        /\ (Dismissed' <=> Dismissed)
    BY <2>1 DEF Collected, Unstarted, Dismissed, Running, Ahead, driverVars
  <2>3. scenario # "storm" => ~Collected
    BY <2>1 DEF FleetInv, Finished
  <2> QED
    BY <2>1, <2>2, <2>3 DEF FleetInv, AllTold
<1>16. ASSUME NEW d \in Definitions, SendCreate(d) PROVE FleetInv'
  <2>1. /\ UNCHANGED driverVars /\ UNCHANGED ledgerVars /\ UNCHANGED astray
        /\ \A s \in Subscribers : pc'[s] = pc[s]
    BY <1>16, <1>0 DEF SendCreate, ledgerVars, stackVars
  <2>2. /\ (Collected' <=> Collected) /\ (Unstarted' <=> Unstarted) /\ (Dismissed' <=> Dismissed)
        /\ UNCHANGED scenario
    BY <2>1 DEF Collected, Unstarted, Dismissed, Running, Ahead, driverVars
  <2> QED
    BY <1>0, <2>1, <2>2, FleetStays DEF FleetInv
<1>17. ASSUME NEW d \in Definitions, Cancel(d) PROVE FleetInv'
  <2>1. /\ UNCHANGED driverVars /\ UNCHANGED ledgerVars /\ UNCHANGED astray
        /\ \A s \in Subscribers : pc'[s] = pc[s]
    BY <1>17, <1>0 DEF Cancel, Goes, Misbehaves, ledgerVars, stackVars
  <2>2. /\ (Collected' <=> Collected) /\ (Unstarted' <=> Unstarted) /\ (Dismissed' <=> Dismissed)
        /\ UNCHANGED scenario
    BY <2>1 DEF Collected, Unstarted, Dismissed, Running, Ahead, driverVars
  <2> QED
    BY <1>0, <2>1, <2>2, FleetStays DEF FleetInv
<1>18. ASSUME NEW d \in Definitions, RaceCancel(d) PROVE FleetInv'
  <2>1. /\ UNCHANGED driverVars /\ UNCHANGED ledgerVars /\ UNCHANGED astray
        /\ \A s \in Subscribers : pc'[s] = pc[s]
    BY <1>18, <1>0 DEF RaceCancel, Misbehaves, ledgerVars, stackVars
  <2>2. /\ (Collected' <=> Collected) /\ (Unstarted' <=> Unstarted) /\ (Dismissed' <=> Dismissed)
        /\ UNCHANGED scenario
    BY <2>1 DEF Collected, Unstarted, Dismissed, Running, Ahead, driverVars
  <2> QED
    BY <1>0, <2>1, <2>2, FleetStays DEF FleetInv
<1>19. ASSUME CreationDone PROVE FleetInv'
  <2>1. /\ UNCHANGED driverVars /\ UNCHANGED ledgerVars /\ UNCHANGED astray
        /\ \A s \in Subscribers : pc'[s] = pc[s]
    BY <1>19, <1>0 DEF CreationDone, Goes, ledgerVars, stackVars
  <2>2. /\ (Collected' <=> Collected) /\ (Unstarted' <=> Unstarted) /\ (Dismissed' <=> Dismissed)
        /\ UNCHANGED scenario
    BY <2>1 DEF Collected, Unstarted, Dismissed, Running, Ahead, driverVars
  <2> QED
    BY <1>0, <2>1, <2>2, FleetStays DEF FleetInv
<1>20. ASSUME VerifyDefinitions PROVE FleetInv'
  <2>1. /\ UNCHANGED driverVars /\ UNCHANGED ledgerVars /\ UNCHANGED astray
        /\ \A s \in Subscribers : pc'[s] = pc[s]
    BY <1>20, <1>0 DEF VerifyDefinitions, Goes, ledgerVars, stackVars
  <2>2. /\ (Collected' <=> Collected) /\ (Unstarted' <=> Unstarted) /\ (Dismissed' <=> Dismissed)
        /\ UNCHANGED scenario
    BY <2>1 DEF Collected, Unstarted, Dismissed, Running, Ahead, driverVars
  <2> QED
    BY <1>0, <2>1, <2>2, FleetStays DEF FleetInv
<1>21. ASSUME CleanupDone PROVE FleetInv'
  <2>1. /\ UNCHANGED driverVars /\ UNCHANGED ledgerVars /\ UNCHANGED astray
        /\ \A s \in Subscribers : pc'[s] = pc[s]
    BY <1>21, <1>0 DEF CleanupDone, Goes, ledgerVars, stackVars
  <2>2. /\ (Collected' <=> Collected) /\ (Unstarted' <=> Unstarted) /\ (Dismissed' <=> Dismissed)
        /\ UNCHANGED scenario
    BY <2>1 DEF Collected, Unstarted, Dismissed, Running, Ahead, driverVars
  <2> QED
    BY <1>0, <2>1, <2>2, FleetStays DEF FleetInv
<1>22. ASSUME RaceCancelDone PROVE FleetInv'
  <2>1. /\ UNCHANGED driverVars /\ UNCHANGED ledgerVars /\ UNCHANGED astray
        /\ \A s \in Subscribers : pc'[s] = pc[s]
    BY <1>22, <1>0 DEF RaceCancelDone, Goes, ledgerVars, stackVars
  <2>2. /\ (Collected' <=> Collected) /\ (Unstarted' <=> Unstarted) /\ (Dismissed' <=> Dismissed)
        /\ UNCHANGED scenario
    BY <2>1 DEF Collected, Unstarted, Dismissed, Running, Ahead, driverVars
  <2> QED
    BY <1>0, <2>1, <2>2, FleetStays DEF FleetInv
<1>23. ASSUME OpenWindow PROVE FleetInv'
  <2>1. /\ UNCHANGED driverVars /\ UNCHANGED ledgerVars /\ UNCHANGED astray
        /\ \A s \in Subscribers : pc'[s] = pc[s]
    BY <1>23, <1>0 DEF OpenWindow, Goes, ledgerVars, stackVars
  <2>2. /\ (Collected' <=> Collected) /\ (Unstarted' <=> Unstarted) /\ (Dismissed' <=> Dismissed)
        /\ UNCHANGED scenario
    BY <2>1 DEF Collected, Unstarted, Dismissed, Running, Ahead, driverVars
  <2> QED
    BY <1>0, <2>1, <2>2, FleetStays DEF FleetInv
<1>24. ASSUME CanaryCreates PROVE FleetInv'
  <2>1. /\ UNCHANGED driverVars /\ UNCHANGED ledgerVars /\ UNCHANGED astray
        /\ \A s \in Subscribers : pc'[s] = pc[s]
    BY <1>24, <1>0 DEF CanaryCreates, ledgerVars, stackVars
  <2>2. /\ (Collected' <=> Collected) /\ (Unstarted' <=> Unstarted) /\ (Dismissed' <=> Dismissed)
        /\ UNCHANGED scenario
    BY <2>1 DEF Collected, Unstarted, Dismissed, Running, Ahead, driverVars
  <2> QED
    BY <1>0, <2>1, <2>2, FleetStays DEF FleetInv
<1>25. ASSUME CanaryCancels PROVE FleetInv'
  <2>1. /\ UNCHANGED driverVars /\ UNCHANGED ledgerVars /\ UNCHANGED astray
        /\ \A s \in Subscribers : pc'[s] = pc[s]
    BY <1>25, <1>0 DEF CanaryCancels, ledgerVars, stackVars
  <2>2. /\ (Collected' <=> Collected) /\ (Unstarted' <=> Unstarted) /\ (Dismissed' <=> Dismissed)
        /\ UNCHANGED scenario
    BY <2>1 DEF Collected, Unstarted, Dismissed, Running, Ahead, driverVars
  <2> QED
    BY <1>0, <2>1, <2>2, FleetStays DEF FleetInv
<1>26. ASSUME WindowCloses PROVE FleetInv'
  <2>1. /\ UNCHANGED driverVars /\ UNCHANGED ledgerVars /\ UNCHANGED astray
        /\ \A s \in Subscribers : pc'[s] = pc[s]
    BY <1>26, <1>0 DEF WindowCloses, Goes, ledgerVars, stackVars
  <2>2. /\ (Collected' <=> Collected) /\ (Unstarted' <=> Unstarted) /\ (Dismissed' <=> Dismissed)
        /\ UNCHANGED scenario
    BY <2>1 DEF Collected, Unstarted, Dismissed, Running, Ahead, driverVars
  <2> QED
    BY <1>0, <2>1, <2>2, FleetStays DEF FleetInv
<1>27. ASSUME PostStormCanary PROVE FleetInv'
  <2>1. /\ UNCHANGED driverVars /\ UNCHANGED ledgerVars /\ UNCHANGED astray
        /\ \A s \in Subscribers : pc'[s] = pc[s]
    BY <1>27, <1>0 DEF PostStormCanary, Goes, ledgerVars, stackVars
  <2>2. /\ (Collected' <=> Collected) /\ (Unstarted' <=> Unstarted) /\ (Dismissed' <=> Dismissed)
        /\ UNCHANGED scenario
    BY <2>1 DEF Collected, Unstarted, Dismissed, Running, Ahead, driverVars
  <2> QED
    BY <1>0, <2>1, <2>2, FleetStays DEF FleetInv
<1>28. ASSUME StormVerdict PROVE FleetInv'
  <2>1. /\ UNCHANGED driverVars /\ UNCHANGED ledgerVars /\ UNCHANGED astray
        /\ \A s \in Subscribers : pc'[s] = pc[s]
    BY <1>28, <1>0 DEF StormVerdict, Goes, ledgerVars, stackVars
  <2>2. /\ (Collected' <=> Collected) /\ (Unstarted' <=> Unstarted) /\ (Dismissed' <=> Dismissed)
        /\ UNCHANGED scenario
    BY <2>1 DEF Collected, Unstarted, Dismissed, Running, Ahead, driverVars
  <2> QED
    BY <1>0, <2>1, <2>2, FleetStays DEF FleetInv
<1>29. ASSUME StormFinally PROVE FleetInv'
  <2>1. /\ UNCHANGED driverVars /\ UNCHANGED ledgerVars /\ UNCHANGED astray
        /\ \A s \in Subscribers : pc'[s] = pc[s] \/ pc'[s] = "done"
    BY <1>29, <1>0 DEF StormFinally, stackVars
  <2>2. /\ (Collected' <=> Collected) /\ (Unstarted' <=> Unstarted) /\ (Dismissed' <=> Dismissed)
        /\ UNCHANGED scenario /\ Accepted' = Accepted
    BY <2>1, SameDefinitions
       DEF Collected, Unstarted, Dismissed, Running, Ahead, driverVars, Accepted,
           DeliveryAccepted, OutageAccepted, FleetCount, ledgerVars
  <2>3. \A s \in Subscribers : Told(s) => Told(s)'
    BY <2>1 DEF Told
  <2> QED
    BY <2>1, <2>2, <2>3 DEF FleetInv, Finished, AllTold
<1>30. ASSUME NEW d \in Definitions, BrokerCreates(d) PROVE FleetInv'
  <2>1. /\ UNCHANGED driverVars /\ UNCHANGED ledgerVars /\ UNCHANGED astray
        /\ \A s \in Subscribers : pc'[s] = pc[s]
    BY <1>30, <1>0 DEF BrokerCreates, ledgerVars, stackVars
  <2>2. /\ (Collected' <=> Collected) /\ (Unstarted' <=> Unstarted) /\ (Dismissed' <=> Dismissed)
        /\ UNCHANGED scenario
    BY <2>1 DEF Collected, Unstarted, Dismissed, Running, Ahead, driverVars
  <2> QED
    BY <1>0, <2>1, <2>2, FleetStays DEF FleetInv
<1>31. ASSUME NEW d \in Definitions, Fire(d) PROVE FleetInv'
  <2>1. /\ UNCHANGED driverVars /\ UNCHANGED ledgerVars /\ UNCHANGED astray
        /\ \A s \in Subscribers : pc'[s] = pc[s]
    BY <1>31, <1>0 DEF Fire, ledgerVars, stackVars
  <2>2. /\ (Collected' <=> Collected) /\ (Unstarted' <=> Unstarted) /\ (Dismissed' <=> Dismissed)
        /\ UNCHANGED scenario
    BY <2>1 DEF Collected, Unstarted, Dismissed, Running, Ahead, driverVars
  <2> QED
    BY <1>0, <2>1, <2>2, FleetStays DEF FleetInv
<1>32. ASSUME Tick PROVE FleetInv'
  <2>1. /\ UNCHANGED driverVars /\ UNCHANGED ledgerVars /\ UNCHANGED astray
        /\ \A s \in Subscribers : pc'[s] = pc[s]
    BY <1>32, <1>0 DEF Tick, ledgerVars, stackVars
  <2>2. /\ (Collected' <=> Collected) /\ (Unstarted' <=> Unstarted) /\ (Dismissed' <=> Dismissed)
        /\ UNCHANGED scenario
    BY <2>1 DEF Collected, Unstarted, Dismissed, Running, Ahead, driverVars
  <2> QED
    BY <1>0, <2>1, <2>2, FleetStays DEF FleetInv
<1>33. ASSUME BrokerMisbehaves PROVE FleetInv'
  <2>1. /\ UNCHANGED driverVars /\ UNCHANGED ledgerVars /\ UNCHANGED astray
        /\ \A s \in Subscribers : pc'[s] = pc[s]
    BY <1>33, <1>0 DEF BrokerMisbehaves, Misbehaves, ledgerVars, stackVars
  <2>2. /\ (Collected' <=> Collected) /\ (Unstarted' <=> Unstarted) /\ (Dismissed' <=> Dismissed)
        /\ UNCHANGED scenario
    BY <2>1 DEF Collected, Unstarted, Dismissed, Running, Ahead, driverVars
  <2> QED
    BY <1>0, <2>1, <2>2, FleetStays DEF FleetInv
<1>34. ASSUME SiblingDisturbed PROVE FleetInv'
  <2>1. /\ UNCHANGED driverVars /\ UNCHANGED ledgerVars /\ UNCHANGED astray
        /\ \A s \in Subscribers : pc'[s] = pc[s]
    BY <1>34, <1>0 DEF SiblingDisturbed, Goes, Misbehaves, ledgerVars, stackVars
  <2>2. /\ (Collected' <=> Collected) /\ (Unstarted' <=> Unstarted) /\ (Dismissed' <=> Dismissed)
        /\ UNCHANGED scenario
    BY <2>1 DEF Collected, Unstarted, Dismissed, Running, Ahead, driverVars
  <2> QED
    BY <1>0, <2>1, <2>2, FleetStays DEF FleetInv
<1>35. ASSUME NEW d \in Definitions, CreateFails(d) PROVE FleetInv'
  <2>1. /\ UNCHANGED driverVars /\ UNCHANGED ledgerVars /\ UNCHANGED astray
        /\ \A s \in Subscribers : pc'[s] = pc[s]
    BY <1>35, <1>0 DEF CreateFails, Goes, Misbehaves, ledgerVars, stackVars
  <2>2. /\ (Collected' <=> Collected) /\ (Unstarted' <=> Unstarted) /\ (Dismissed' <=> Dismissed)
        /\ UNCHANGED scenario
    BY <2>1 DEF Collected, Unstarted, Dismissed, Running, Ahead, driverVars
  <2> QED
    BY <1>0, <2>1, <2>2, FleetStays DEF FleetInv
<1> QED
  BY <1>1, <1>2, <1>3, <1>4, <1>5, <1>6, <1>7, <1>8, <1>9, <1>10, <1>11, <1>12, <1>13, <1>14,
     <1>15, <1>16, <1>17, <1>18, <1>19, <1>20, <1>21, <1>22, <1>23, <1>24, <1>25, <1>26, <1>27,
     <1>28, <1>29, <1>30, <1>31, <1>32, <1>33, <1>34, <1>35, NextCases
     DEF TypeOK, StepKinds, Launches, Catches, Clients, Broker

(* A storm that passes has seen every definition fire. *)
LEMMA StormSeenNext ==
    ASSUME TypeOK, Place, LedgerInv, StormSeenInv, Regular
    PROVE  StormSeenInv'
<1>0. /\ outcome = "none" /\ "worker" \notin Subscribers /\ "worker" \in Roles
      /\ AnySubscriber \in Roles /\ AnySubscriber \in Subscribers /\ UNCHANGED scenario
      /\ Definitions' = Definitions /\ pc \in [Roles -> PcNames]
      /\ seen \in [Subscribers -> SUBSET Definitions]
      /\ scenario \in {"delivery", "outage", "storm"}
  BY NextCases, Names, SameDefinitions DEF TypeOK, DriverType, ClientType, LedgerType
<1> SUFFICES ASSUME scenario = "storm" PROVE StormSeenInv'
  BY <1>0 DEF StormSeenInv
<1>1. ASSUME Observes PROVE StormSeenInv'
  <2>1. /\ UNCHANGED <<pc, seen, delivered, unjudged>> /\ Running
        /\ \/ Moves /\ (Head(todo) = "finishStorm" => Finished({"worker"}))
           \/ \E why \in Verdicts : Throws(why) \/ Ends(why)
    BY <1>1 DEF Observes, World, ledgerVars, Passes, Verdicts
  <2>2. Ahead \in 1..5 /\ (Ahead = 2 => Head(todo) = "finishStorm") /\ Head(todo) # "quiesce"
        /\ Ahead # 1
    BY <1>1, <1>0, <2>1, Here DEF TypeOK, StormRow, Observes, Observing
  <2>3. CASE Moves /\ (Head(todo) = "finishStorm" => Finished({"worker"}))
    BY <1>0, <2>1, <2>2, <2>3 DEF StormSeenInv, Moves, Running, Finished, AllSeen
  <2>4. ASSUME NEW why \in Verdicts, Throws(why) \/ Ends(why) PROVE StormSeenInv'
    BY <1>0, <2>1, <2>2, <2>4 DEF StormSeenInv, Throws, Ends, Running, AllSeen, Verdicts
  <2> QED
    BY <2>1, <2>3, <2>4
<1>2. ASSUME Running, Moves, StartSubscribers PROVE StormSeenInv'
  <2>1. Head(todo) = "startSubscribers"
    BY <1>2 DEF StartSubscribers, Start, At
  <2> QED
    BY <1>2, <1>0, <2>1, Here DEF TypeOK, StormRow
<1>3. ASSUME Running, Moves, StartCreate PROVE StormSeenInv'
  <2>1. Head(todo) = "create"
    BY <1>3 DEF StartCreate, Start, At
  <2> QED
    BY <1>3, <1>0, <2>1, Here DEF TypeOK, StormRow
<1>4. ASSUME Running, Moves, StartCanceller PROVE StormSeenInv'
  <2>1. Head(todo) = "startCanceller"
    BY <1>4 DEF StartCanceller, Start, At
  <2> QED
    BY <1>4, <1>0, <2>1, Here DEF TypeOK, StormRow
<1>5. ASSUME Running, Moves, StartCleanup PROVE StormSeenInv'
  <2>1. Head(todo) = "cleanup"
    BY <1>5 DEF StartCleanup, Start, At
  <2> QED
    BY <1>5, <1>0, <2>1, Here DEF TypeOK, StormRow
<1>6. ASSUME Running, Moves, StartStorm PROVE StormSeenInv'
  <2>1. Head(todo) = "startStorm" /\ UNCHANGED seen /\ pc'["worker"] = "creating"
    BY <1>6, <1>0 DEF StartStorm, Start, At, ledgerVars
  <2>2. Ahead = 5
    BY <1>6, <1>0, <2>1, Here DEF TypeOK, StormRow
  <2> QED
    BY <1>6, <1>0, <2>1, <2>2 DEF StormSeenInv, Moves, Running
<1>7. ASSUME Running, Moves, StopFitz PROVE StormSeenInv'
  <2>1. Head(todo) = "stop"
    BY <1>7 DEF StopFitz, At
  <2> QED
    BY <1>7, <1>0, <2>1, Here DEF TypeOK, StormRow
<1>8. ASSUME Running, Moves, RestartFitz PROVE StormSeenInv'
  <2>1. Head(todo) = "start"
    BY <1>8 DEF RestartFitz, At
  <2> QED
    BY <1>8, <1>0, <2>1, Here DEF TypeOK, StormRow
<1>9. ASSUME Running, Moves, SignalSubscribers("signal") PROVE StormSeenInv'
  <2>1. Head(todo) = "signal"
    BY <1>9 DEF SignalSubscribers, At
  <2> QED
    BY <1>9, <1>0, <2>1, Here DEF TypeOK, StormRow
<1>10. ASSUME Catches, SignalSubscribers("stopSubscribers") PROVE StormSeenInv'
  BY <1>10, <1>0 DEF Catches
<1>11. ASSUME Catches, Rethrow PROVE StormSeenInv'
  BY <1>11, <1>0 DEF Catches
<1>12. ASSUME Concludes PROVE StormSeenInv'
  BY <1>12, <1>0 DEF Concludes, Quiesce, StormSeenInv, ledgerVars, Running, AllSeen
<1>13. ASSUME NEW s \in Subscribers, Subscribe(s) PROVE StormSeenInv'
  <2>1. UNCHANGED <<driverVars, seen, delivered, unjudged>>
    BY <1>13 DEF Subscribe, ledgerVars
  <2> QED
    BY <1>13, <1>0, <2>1 DEF Subscribe, Goes, driverVars, Running, Ahead, StormSeenInv, AllSeen
<1>14. ASSUME NEW s \in Subscribers, SubscriberEnds(s) PROVE StormSeenInv'
  <2>1. UNCHANGED <<driverVars, seen, delivered, unjudged>>
    BY <1>14 DEF SubscriberEnds, ledgerVars
  <2> QED
    BY <1>14, <1>0, <2>1
       DEF SubscriberEnds, Goes, driverVars, Running, Ahead, StormSeenInv, AllSeen
<1>15. ASSUME NEW s \in Subscribers, NEW n \in pending, Handle(s, n) PROVE StormSeenInv'
  <2>1. UNCHANGED <<driverVars, pc>> /\ (AllSeen => AllSeen')
    <3>1. n[2] \in Definitions
      BY Notification
    <3>2. /\ UNCHANGED <<driverVars, pc>>
          /\ seen' = seen \/ seen' = [seen EXCEPT ![s] = @ \cup {n[2]}]
      BY <1>15, Zenon DEF Handle
    <3> QED
      BY <1>0, <3>1, <3>2 DEF AllSeen
  <2>2. ASSUME pc["worker"] \in {"closing", "done"}, pc["worker"] = "done" => pc[AnySubscriber] = "done",
               NEW d \in Definitions, delivered[<<AnySubscriber, d>>] = 1 \/ d \in unjudged
        PROVE  delivered'[<<AnySubscriber, d>>] = 1 \/ d \in unjudged'
    <3>1. /\ delivered' = IF Valid(n) THEN [delivered EXCEPT ![<<s, n[2]>>] = @ + 1] ELSE delivered
          /\ unjudged' = IF Valid(n) /\ pc["worker"] = "closing"
                         THEN unjudged \cup {n[2]} ELSE unjudged
          /\ pc[s] # "done"
      BY <1>15 DEF Handle
    <3>2. CASE Valid(n) /\ s = AnySubscriber /\ d = n[2]
      BY <2>2, <3>1, <3>2
    <3>3. CASE ~(Valid(n) /\ s = AnySubscriber /\ d = n[2])
      <4>1. delivered'[<<AnySubscriber, d>>] = delivered[<<AnySubscriber, d>>]
        <5>1. <<s, n[2]>> # <<AnySubscriber, d>> \/ ~Valid(n)
          BY <3>3
        <5>2. <<AnySubscriber, d>> \in Subscribers \X AllDefinitions
          BY <1>0 DEF AllDefinitions
        <5> QED
          BY <3>1, <5>1, <5>2 DEF TypeOK, LedgerType
      <4> QED
        BY <2>2, <3>1, <4>1
    <3> QED
      BY <3>2, <3>3
  <2> QED
    BY <1>0, <2>1, <2>2 DEF StormSeenInv, Running, Ahead, driverVars
<1>16. ASSUME NEW d \in Definitions, SendCreate(d) PROVE StormSeenInv'
  <2>1. UNCHANGED <<driverVars, seen, delivered, unjudged>>
    BY <1>16 DEF SendCreate, ledgerVars
  <2> QED
    BY <1>16, <1>0, <2>1 DEF SendCreate, driverVars, Running, Ahead, StormSeenInv, AllSeen
<1>17. ASSUME NEW d \in Definitions, Cancel(d) PROVE StormSeenInv'
  <2>1. UNCHANGED <<driverVars, seen, delivered, unjudged>>
    BY <1>17 DEF Cancel, ledgerVars
  <2> QED
    BY <1>17, <1>0, <2>1
       DEF Cancel, Goes, Misbehaves, driverVars, Running, Ahead, StormSeenInv, AllSeen
<1>18. ASSUME NEW d \in Definitions, RaceCancel(d) PROVE StormSeenInv'
  <2>1. UNCHANGED <<driverVars, seen, delivered, unjudged>>
    BY <1>18 DEF RaceCancel, ledgerVars
  <2> QED
    BY <1>18, <1>0, <2>1
       DEF RaceCancel, Misbehaves, driverVars, Running, Ahead, StormSeenInv, AllSeen
<1>19. ASSUME CreationDone PROVE StormSeenInv'
  <2>1. UNCHANGED <<driverVars, seen, delivered, unjudged>>
    BY <1>19 DEF CreationDone, ledgerVars
  <2> QED
    BY <1>19, <1>0, <2>1 DEF CreationDone, Goes, driverVars, Running, Ahead, StormSeenInv, AllSeen
<1>20. ASSUME VerifyDefinitions PROVE StormSeenInv'
  <2>1. UNCHANGED <<driverVars, seen, delivered, unjudged>>
    BY <1>20 DEF VerifyDefinitions, ledgerVars
  <2> QED
    BY <1>20, <1>0, <2>1
       DEF VerifyDefinitions, Goes, driverVars, Running, Ahead, StormSeenInv, AllSeen
<1>21. ASSUME CleanupDone PROVE StormSeenInv'
  <2>1. UNCHANGED <<driverVars, seen, delivered, unjudged>>
    BY <1>21 DEF CleanupDone, ledgerVars
  <2> QED
    BY <1>21, <1>0, <2>1 DEF CleanupDone, Goes, driverVars, Running, Ahead, StormSeenInv, AllSeen
<1>22. ASSUME RaceCancelDone PROVE StormSeenInv'
  <2>1. UNCHANGED <<driverVars, seen, delivered, unjudged>>
    BY <1>22 DEF RaceCancelDone, ledgerVars
  <2> QED
    BY <1>22, <1>0, <2>1
       DEF RaceCancelDone, Goes, driverVars, Running, Ahead, StormSeenInv, AllSeen
<1>23. ASSUME OpenWindow PROVE StormSeenInv'
  <2>1. UNCHANGED <<driverVars, seen, delivered, unjudged>>
    BY <1>23 DEF OpenWindow, ledgerVars
  <2> QED
    BY <1>23, <1>0, <2>1 DEF OpenWindow, Goes, driverVars, Running, Ahead, StormSeenInv, AllSeen
<1>24. ASSUME CanaryCreates PROVE StormSeenInv'
  <2>1. UNCHANGED <<driverVars, seen, delivered, unjudged>>
    BY <1>24 DEF CanaryCreates, ledgerVars
  <2> QED
    BY <1>24, <1>0, <2>1 DEF CanaryCreates, driverVars, Running, Ahead, StormSeenInv, AllSeen
<1>25. ASSUME CanaryCancels PROVE StormSeenInv'
  <2>1. UNCHANGED <<driverVars, seen, delivered, unjudged>>
    BY <1>25 DEF CanaryCancels, ledgerVars
  <2> QED
    BY <1>25, <1>0, <2>1 DEF CanaryCancels, driverVars, Running, Ahead, StormSeenInv, AllSeen
<1>26. ASSUME WindowCloses PROVE StormSeenInv'
  <2>1. UNCHANGED <<driverVars, seen, delivered, unjudged>>
    BY <1>26 DEF WindowCloses, ledgerVars
  <2> QED
    BY <1>26, <1>0, <2>1 DEF WindowCloses, Goes, driverVars, Running, Ahead, StormSeenInv, AllSeen
<1>27. ASSUME PostStormCanary PROVE StormSeenInv'
  <2>1. UNCHANGED <<driverVars, seen, delivered, unjudged>>
    BY <1>27 DEF PostStormCanary, ledgerVars
  <2> QED
    BY <1>27, <1>0, <2>1
       DEF PostStormCanary, Goes, driverVars, Running, Ahead, StormSeenInv, AllSeen
<1>28. ASSUME StormVerdict PROVE StormSeenInv'
  <2>1. UNCHANGED <<driverVars, seen, delivered, unjudged>>
    BY <1>28 DEF StormVerdict, ledgerVars
  <2> QED
    <3>1. /\ pc["worker"] = "cancelStorm" /\ pc' = [pc EXCEPT !["worker"] = pc'["worker"]]
          /\ pc'["worker"] \in {"closing", "finally"}
          /\ pc'["worker"] = "closing" => AllSeen /\ duplicates = {} /\ invalid = {}
      BY <1>28, <1>0 DEF StormVerdict, Goes, StormEvidence
    <3>2. pc'["worker"] = "closing" => \A d \in Definitions : delivered[<<AnySubscriber, d>>] = 1
      BY <1>0, <3>1 DEF LedgerInv, AllSeen
    <3> QED
      BY <1>0, <2>1, <3>1, <3>2 DEF driverVars, Running, Ahead, StormSeenInv, AllSeen
<1>29. ASSUME StormFinally PROVE StormSeenInv'
  <2>1. UNCHANGED <<driverVars, seen, delivered, unjudged>>
    BY <1>29 DEF StormFinally, ledgerVars
  <2> QED
    BY <1>29, <1>0, <2>1 DEF StormFinally, driverVars, Running, Ahead, StormSeenInv, AllSeen
<1>30. ASSUME NEW d \in Definitions, BrokerCreates(d) PROVE StormSeenInv'
  <2>1. UNCHANGED <<driverVars, seen, delivered, unjudged>>
    BY <1>30 DEF BrokerCreates, ledgerVars
  <2> QED
    BY <1>30, <1>0, <2>1 DEF BrokerCreates, driverVars, Running, Ahead, StormSeenInv, AllSeen
<1>31. ASSUME NEW d \in Definitions, Fire(d) PROVE StormSeenInv'
  <2>1. UNCHANGED <<driverVars, seen, delivered, unjudged>>
    BY <1>31 DEF Fire, ledgerVars
  <2> QED
    BY <1>31, <1>0, <2>1 DEF Fire, driverVars, Running, Ahead, StormSeenInv, AllSeen
<1>32. ASSUME Tick PROVE StormSeenInv'
  <2>1. UNCHANGED <<driverVars, seen, delivered, unjudged>>
    BY <1>32 DEF Tick, ledgerVars
  <2> QED
    BY <1>32, <1>0, <2>1 DEF Tick, driverVars, Running, Ahead, StormSeenInv, AllSeen
<1>33. ASSUME BrokerMisbehaves PROVE StormSeenInv'
  <2>1. UNCHANGED <<driverVars, seen, delivered, unjudged>>
    BY <1>33 DEF BrokerMisbehaves, ledgerVars
  <2> QED
    BY <1>33, <1>0, <2>1
       DEF BrokerMisbehaves, Misbehaves, driverVars, Running, Ahead, StormSeenInv, AllSeen
<1>34. ASSUME SiblingDisturbed PROVE StormSeenInv'
  <2>1. UNCHANGED <<driverVars, seen, delivered, unjudged>>
    BY <1>34 DEF SiblingDisturbed, ledgerVars
  <2> QED
    BY <1>34, <1>0, <2>1
       DEF SiblingDisturbed, Goes, Misbehaves, driverVars, Running, Ahead, StormSeenInv, AllSeen
<1>35. ASSUME NEW d \in Definitions, CreateFails(d) PROVE StormSeenInv'
  <2>1. UNCHANGED <<driverVars, seen, delivered, unjudged>>
    BY <1>35 DEF CreateFails, ledgerVars
  <2> QED
    BY <1>35, <1>0, <2>1
       DEF CreateFails, Goes, Misbehaves, driverVars, Running, Ahead, StormSeenInv, AllSeen
<1> QED
  BY <1>1, <1>2, <1>3, <1>4, <1>5, <1>6, <1>7, <1>8, <1>9, <1>10, <1>11, <1>12, <1>13, <1>14,
     <1>15, <1>16, <1>17, <1>18, <1>19, <1>20, <1>21, <1>22, <1>23, <1>24, <1>25, <1>26, <1>27,
     <1>28, <1>29, <1>30, <1>31, <1>32, <1>33, <1>34, <1>35, NextCases
     DEF TypeOK, StepKinds, Launches, Catches, Clients, Broker
-----------------------------------------------------------------------------
(* The definitions of a storm. *)

(* Only what was created can be cancelled. *)
LEMMA MadeNext ==
    ASSUME TypeOK, Place, StormCleanInv, Regular
    PROVE  (defs \cap Definitions \subseteq made /\ cancelled \subseteq made)'
<1>0. /\ outcome = "none" /\ "worker" \notin Subscribers /\ "worker" \in Roles
      /\ AnySubscriber \in Roles /\ AnySubscriber # "worker" /\ UNCHANGED scenario
      /\ Definitions' = Definitions /\ pc \in [Roles -> PcNames]
      /\ Canary \notin Definitions /\ cancelled \subseteq Definitions
      /\ Definitions \subseteq AllDefinitions
      /\ create \in [AllDefinitions -> {"idle", "sent", "acked", "failed"}]
      /\ scenario \in {"delivery", "outage", "storm"}
  BY NextCases, Names, SameDefinitions, DefinitionNames DEF TypeOK, DriverType, ClientType
<1>1. ASSUME Observes PROVE (defs \cap Definitions \subseteq made /\ cancelled \subseteq made)'
  BY <1>1, <1>0 DEF Observes, World, workerVars, brokerVars, historyVars, StormCleanInv
<1>2. ASSUME Running, Moves, StartSubscribers
      PROVE  (defs \cap Definitions \subseteq made /\ cancelled \subseteq made)'
  BY <1>2, <1>0
     DEF StartSubscribers, Start, Starting, workerVars, brokerVars, historyVars, StormCleanInv
<1>3. ASSUME Running, Moves, StartCreate
      PROVE  (defs \cap Definitions \subseteq made /\ cancelled \subseteq made)'
  BY <1>3, <1>0 DEF StartCreate, Start, Worker, workerVars, brokerVars, historyVars, StormCleanInv
<1>4. ASSUME Running, Moves, StartCanceller
      PROVE  (defs \cap Definitions \subseteq made /\ cancelled \subseteq made)'
  BY <1>4, <1>0 DEF StartCanceller, Start, workerVars, brokerVars, historyVars, StormCleanInv
<1>5. ASSUME Running, Moves, StartCleanup
      PROVE  (defs \cap Definitions \subseteq made /\ cancelled \subseteq made)'
  BY <1>5, <1>0
     DEF StartCleanup, Start, Worker, workerVars, brokerVars, historyVars, StormCleanInv
<1>6. ASSUME Running, Moves, StartStorm
      PROVE  (defs \cap Definitions \subseteq made /\ cancelled \subseteq made)'
  BY <1>6, <1>0 DEF StartStorm, Start, workerVars, brokerVars, historyVars, StormCleanInv
<1>7. ASSUME Running, Moves, StopFitz
      PROVE  (defs \cap Definitions \subseteq made /\ cancelled \subseteq made)'
  BY <1>7, <1>0 DEF StopFitz, workerVars, brokerVars, historyVars, StormCleanInv
<1>8. ASSUME Running, Moves, RestartFitz
      PROVE  (defs \cap Definitions \subseteq made /\ cancelled \subseteq made)'
  BY <1>8, <1>0 DEF RestartFitz, workerVars, brokerVars, historyVars, StormCleanInv
<1>9. ASSUME Running, Moves, SignalSubscribers("signal")
      PROVE  (defs \cap Definitions \subseteq made /\ cancelled \subseteq made)'
  BY <1>9, <1>0 DEF SignalSubscribers, workerVars, brokerVars, historyVars, StormCleanInv
<1>10. ASSUME Catches, SignalSubscribers("stopSubscribers")
      PROVE  (defs \cap Definitions \subseteq made /\ cancelled \subseteq made)'
  BY <1>10, <1>0 DEF SignalSubscribers, workerVars, brokerVars, historyVars, StormCleanInv
<1>11. ASSUME Catches, Rethrow
      PROVE  (defs \cap Definitions \subseteq made /\ cancelled \subseteq made)'
  BY <1>11, <1>0 DEF Rethrow, workerVars, brokerVars, historyVars, StormCleanInv
<1>12. ASSUME Concludes PROVE (defs \cap Definitions \subseteq made /\ cancelled \subseteq made)'
  BY <1>12, <1>0 DEF Concludes, Quiesce, workerVars, brokerVars, historyVars, StormCleanInv
<1>13. ASSUME NEW s \in Subscribers, Subscribe(s)
      PROVE  (defs \cap Definitions \subseteq made /\ cancelled \subseteq made)'
  BY <1>13, <1>0 DEF Subscribe, Goes, workerVars, brokerVars, historyVars, StormCleanInv
<1>14. ASSUME NEW s \in Subscribers, SubscriberEnds(s)
      PROVE  (defs \cap Definitions \subseteq made /\ cancelled \subseteq made)'
  BY <1>14, <1>0 DEF SubscriberEnds, Goes, workerVars, brokerVars, historyVars, StormCleanInv
<1>15. ASSUME NEW s \in Subscribers, NEW n \in pending, Handle(s, n)
      PROVE  (defs \cap Definitions \subseteq made /\ cancelled \subseteq made)'
  BY <1>15, <1>0 DEF Handle, workerVars, brokerVars, historyVars, StormCleanInv
<1>16. ASSUME NEW d \in Definitions, SendCreate(d)
      PROVE  (defs \cap Definitions \subseteq made /\ cancelled \subseteq made)'
  BY <1>16, <1>0 DEF SendCreate, workerVars, brokerVars, historyVars, StormCleanInv
<1>17. ASSUME NEW d \in Definitions, Cancel(d)
      PROVE  (defs \cap Definitions \subseteq made /\ cancelled \subseteq made)'
  BY <1>17, <1>0 DEF Cancel, Goes, Misbehaves, workerVars, brokerVars, historyVars, StormCleanInv
<1>18. ASSUME NEW d \in Definitions, RaceCancel(d)
      PROVE  (defs \cap Definitions \subseteq made /\ cancelled \subseteq made)'
  BY <1>18, <1>0 DEF RaceCancel, Misbehaves, workerVars, brokerVars, historyVars, StormCleanInv
<1>19. ASSUME CreationDone
      PROVE  (defs \cap Definitions \subseteq made /\ cancelled \subseteq made)'
  BY <1>19, <1>0 DEF CreationDone, Goes, workerVars, brokerVars, historyVars, StormCleanInv
<1>20. ASSUME VerifyDefinitions
      PROVE  (defs \cap Definitions \subseteq made /\ cancelled \subseteq made)'
  BY <1>20, <1>0 DEF VerifyDefinitions, Goes, workerVars, brokerVars, historyVars, StormCleanInv
<1>21. ASSUME CleanupDone
      PROVE  (defs \cap Definitions \subseteq made /\ cancelled \subseteq made)'
  BY <1>21, <1>0 DEF CleanupDone, Goes, workerVars, brokerVars, historyVars, StormCleanInv
<1>22. ASSUME RaceCancelDone
      PROVE  (defs \cap Definitions \subseteq made /\ cancelled \subseteq made)'
  BY <1>22, <1>0 DEF RaceCancelDone, Goes, workerVars, brokerVars, historyVars, StormCleanInv
<1>23. ASSUME OpenWindow PROVE (defs \cap Definitions \subseteq made /\ cancelled \subseteq made)'
  BY <1>23, <1>0 DEF OpenWindow, Goes, workerVars, brokerVars, historyVars, StormCleanInv
<1>24. ASSUME CanaryCreates
      PROVE  (defs \cap Definitions \subseteq made /\ cancelled \subseteq made)'
  BY <1>24, <1>0 DEF CanaryCreates, workerVars, brokerVars, historyVars, StormCleanInv
<1>25. ASSUME CanaryCancels
      PROVE  (defs \cap Definitions \subseteq made /\ cancelled \subseteq made)'
  BY <1>25, <1>0 DEF CanaryCancels, workerVars, brokerVars, historyVars, StormCleanInv
<1>26. ASSUME WindowCloses
      PROVE  (defs \cap Definitions \subseteq made /\ cancelled \subseteq made)'
  BY <1>26, <1>0 DEF WindowCloses, Goes, workerVars, brokerVars, historyVars, StormCleanInv
<1>27. ASSUME PostStormCanary
      PROVE  (defs \cap Definitions \subseteq made /\ cancelled \subseteq made)'
  BY <1>27, <1>0 DEF PostStormCanary, Goes, workerVars, brokerVars, historyVars, StormCleanInv
<1>28. ASSUME StormVerdict
      PROVE  (defs \cap Definitions \subseteq made /\ cancelled \subseteq made)'
  BY <1>28, <1>0 DEF StormVerdict, Goes, workerVars, brokerVars, historyVars, StormCleanInv
<1>29. ASSUME StormFinally
      PROVE  (defs \cap Definitions \subseteq made /\ cancelled \subseteq made)'
  BY <1>29, <1>0 DEF StormFinally, workerVars, brokerVars, historyVars, StormCleanInv
<1>30. ASSUME NEW d \in Definitions, BrokerCreates(d)
      PROVE  (defs \cap Definitions \subseteq made /\ cancelled \subseteq made)'
  BY <1>30, <1>0 DEF BrokerCreates, workerVars, brokerVars, historyVars, StormCleanInv
<1>31. ASSUME NEW d \in Definitions, Fire(d)
      PROVE  (defs \cap Definitions \subseteq made /\ cancelled \subseteq made)'
  BY <1>31, <1>0 DEF Fire, workerVars, brokerVars, historyVars, StormCleanInv
<1>32. ASSUME Tick PROVE (defs \cap Definitions \subseteq made /\ cancelled \subseteq made)'
  BY <1>32, <1>0 DEF Tick, workerVars, brokerVars, historyVars, StormCleanInv
<1>33. ASSUME BrokerMisbehaves
      PROVE  (defs \cap Definitions \subseteq made /\ cancelled \subseteq made)'
  BY <1>33, <1>0
     DEF BrokerMisbehaves, Misbehaves, workerVars, brokerVars, historyVars, StormCleanInv
<1>34. ASSUME SiblingDisturbed
      PROVE  (defs \cap Definitions \subseteq made /\ cancelled \subseteq made)'
  BY <1>34, <1>0
     DEF SiblingDisturbed, Goes, Misbehaves, workerVars, brokerVars, historyVars, StormCleanInv
<1>35. ASSUME NEW d \in Definitions, CreateFails(d)
      PROVE  (defs \cap Definitions \subseteq made /\ cancelled \subseteq made)'
  BY <1>35, <1>0
     DEF CreateFails, Goes, Misbehaves, workerVars, brokerVars, historyVars, StormCleanInv
<1> QED
  BY <1>1, <1>2, <1>3, <1>4, <1>5, <1>6, <1>7, <1>8, <1>9, <1>10, <1>11, <1>12, <1>13, <1>14,
     <1>15, <1>16, <1>17, <1>18, <1>19, <1>20, <1>21, <1>22, <1>23, <1>24, <1>25, <1>26, <1>27,
     <1>28, <1>29, <1>30, <1>31, <1>32, <1>33, <1>34, <1>35, NextCases
     DEF TypeOK, StepKinds, Launches, Catches, Clients, Broker

(* What the worker of a storm still has to take back, if no request failed. *)
Tidy ==
    scenario = "storm" /\ ~Excused =>
        /\ cancelled \cap defs = {}
        /\ pc["worker"] \notin {"none", "creating"} => AllCreated
        /\ pc["worker"] \in {"finally", "closing"} => defs \cap Definitions \subseteq left
        /\ pc["worker"] \in {"done", "failed"} => defs \cap Definitions = {}

(* The worker of a storm takes its definitions back. *)
LEMMA TidyNext ==
    ASSUME TypeOK, Place, StormCleanInv, Regular
    PROVE  Tidy'
<1>0. /\ outcome = "none" /\ "worker" \notin Subscribers /\ "worker" \in Roles
      /\ AnySubscriber \in Roles /\ AnySubscriber # "worker" /\ UNCHANGED scenario
      /\ Definitions' = Definitions /\ pc \in [Roles -> PcNames]
      /\ Canary \notin Definitions /\ cancelled \subseteq Definitions
      /\ Definitions \subseteq AllDefinitions
      /\ create \in [AllDefinitions -> {"idle", "sent", "acked", "failed"}]
      /\ scenario \in {"delivery", "outage", "storm"}
  BY NextCases, Names, SameDefinitions, DefinitionNames DEF TypeOK, DriverType, ClientType
<1> SUFFICES ASSUME scenario = "storm", ~Excused' PROVE Tidy'
  BY <1>0 DEF Tidy
<1>1. ASSUME Observes PROVE Tidy'
  <2>1. ~Excused
    BY <1>1, <1>0 DEF Observes, World, workerVars, brokerVars, historyVars, Excused
  <2>2. /\ cancelled \cap defs = {}
        /\ pc["worker"] \notin {"none", "creating"} => AllCreated
        /\ pc["worker"] \in {"finally", "closing"} => defs \cap Definitions \subseteq left
        /\ pc["worker"] \in {"done", "failed"} => defs \cap Definitions = {}
        /\ defs \cap Definitions \subseteq made /\ cancelled \subseteq made
    BY <2>1 DEF StormCleanInv
  <2> QED
    BY <1>1, <1>0, <2>2 DEF Observes, World, workerVars, brokerVars, historyVars, Tidy, AllCreated
<1>2. ASSUME Running, Moves, StartSubscribers PROVE Tidy'
  <2>1. Head(todo) = "startSubscribers"
    BY <1>2 DEF StartSubscribers, Start, At
  <2> QED
    BY <1>2, <1>0, <2>1, Here DEF TypeOK, StormRow
<1>3. ASSUME Running, Moves, StartCreate PROVE Tidy'
  <2>1. Head(todo) = "create"
    BY <1>3 DEF StartCreate, Start, At
  <2> QED
    BY <1>3, <1>0, <2>1, Here DEF TypeOK, StormRow
<1>4. ASSUME Running, Moves, StartCanceller PROVE Tidy'
  <2>1. Head(todo) = "startCanceller"
    BY <1>4 DEF StartCanceller, Start, At
  <2> QED
    BY <1>4, <1>0, <2>1, Here DEF TypeOK, StormRow
<1>5. ASSUME Running, Moves, StartCleanup PROVE Tidy'
  <2>1. Head(todo) = "cleanup"
    BY <1>5 DEF StartCleanup, Start, At
  <2> QED
    BY <1>5, <1>0, <2>1, Here DEF TypeOK, StormRow
<1>6. ASSUME Running, Moves, StartStorm PROVE Tidy'
  <2>1. ~Excused
    BY <1>6, <1>0 DEF StartStorm, Start, workerVars, brokerVars, historyVars, Excused
  <2>2. /\ cancelled \cap defs = {}
        /\ pc["worker"] \notin {"none", "creating"} => AllCreated
        /\ pc["worker"] \in {"finally", "closing"} => defs \cap Definitions \subseteq left
        /\ pc["worker"] \in {"done", "failed"} => defs \cap Definitions = {}
        /\ defs \cap Definitions \subseteq made /\ cancelled \subseteq made
    BY <2>1 DEF StormCleanInv
  <2> QED
    BY <1>6, <1>0, <2>2
       DEF StartStorm, Start, workerVars, brokerVars, historyVars, Tidy, AllCreated
<1>7. ASSUME Running, Moves, StopFitz PROVE Tidy'
  <2>1. Head(todo) = "stop"
    BY <1>7 DEF StopFitz, At
  <2> QED
    BY <1>7, <1>0, <2>1, Here DEF TypeOK, StormRow
<1>8. ASSUME Running, Moves, RestartFitz PROVE Tidy'
  <2>1. Head(todo) = "start"
    BY <1>8 DEF RestartFitz, At
  <2> QED
    BY <1>8, <1>0, <2>1, Here DEF TypeOK, StormRow
<1>9. ASSUME Running, Moves, SignalSubscribers("signal") PROVE Tidy'
  <2>1. Head(todo) = "signal"
    BY <1>9 DEF SignalSubscribers, At
  <2> QED
    BY <1>9, <1>0, <2>1, Here DEF TypeOK, StormRow
<1>10. ASSUME Catches, SignalSubscribers("stopSubscribers") PROVE Tidy'
  BY <1>10, <1>0 DEF Catches
<1>11. ASSUME Catches, Rethrow PROVE Tidy'
  BY <1>11, <1>0 DEF Catches
<1>12. ASSUME Concludes PROVE Tidy'
  <2>1. ~Excused
    BY <1>12, <1>0 DEF Concludes, Quiesce, workerVars, brokerVars, historyVars, Excused
  <2>2. /\ cancelled \cap defs = {}
        /\ pc["worker"] \notin {"none", "creating"} => AllCreated
        /\ pc["worker"] \in {"finally", "closing"} => defs \cap Definitions \subseteq left
        /\ pc["worker"] \in {"done", "failed"} => defs \cap Definitions = {}
        /\ defs \cap Definitions \subseteq made /\ cancelled \subseteq made
    BY <2>1 DEF StormCleanInv
  <2> QED
    BY <1>12, <1>0, <2>2
       DEF Concludes, Quiesce, workerVars, brokerVars, historyVars, Tidy, AllCreated
<1>13. ASSUME NEW s \in Subscribers, Subscribe(s) PROVE Tidy'
  <2>1. ~Excused
    BY <1>13, <1>0 DEF Subscribe, Goes, workerVars, brokerVars, historyVars, Excused
  <2>2. /\ cancelled \cap defs = {}
        /\ pc["worker"] \notin {"none", "creating"} => AllCreated
        /\ pc["worker"] \in {"finally", "closing"} => defs \cap Definitions \subseteq left
        /\ pc["worker"] \in {"done", "failed"} => defs \cap Definitions = {}
        /\ defs \cap Definitions \subseteq made /\ cancelled \subseteq made
    BY <2>1 DEF StormCleanInv
  <2> QED
    BY <1>13, <1>0, <2>2
       DEF Subscribe, Goes, workerVars, brokerVars, historyVars, Tidy, AllCreated
<1>14. ASSUME NEW s \in Subscribers, SubscriberEnds(s) PROVE Tidy'
  <2>1. ~Excused
    BY <1>14, <1>0 DEF SubscriberEnds, Goes, workerVars, brokerVars, historyVars, Excused
  <2>2. /\ cancelled \cap defs = {}
        /\ pc["worker"] \notin {"none", "creating"} => AllCreated
        /\ pc["worker"] \in {"finally", "closing"} => defs \cap Definitions \subseteq left
        /\ pc["worker"] \in {"done", "failed"} => defs \cap Definitions = {}
        /\ defs \cap Definitions \subseteq made /\ cancelled \subseteq made
    BY <2>1 DEF StormCleanInv
  <2> QED
    BY <1>14, <1>0, <2>2
       DEF SubscriberEnds, Goes, workerVars, brokerVars, historyVars, Tidy, AllCreated
<1>15. ASSUME NEW s \in Subscribers, NEW n \in pending, Handle(s, n) PROVE Tidy'
  <2>1. ~Excused
    BY <1>15, <1>0 DEF Handle, workerVars, brokerVars, historyVars, Excused
  <2>2. /\ cancelled \cap defs = {}
        /\ pc["worker"] \notin {"none", "creating"} => AllCreated
        /\ pc["worker"] \in {"finally", "closing"} => defs \cap Definitions \subseteq left
        /\ pc["worker"] \in {"done", "failed"} => defs \cap Definitions = {}
        /\ defs \cap Definitions \subseteq made /\ cancelled \subseteq made
    BY <2>1 DEF StormCleanInv
  <2> QED
    BY <1>15, <1>0, <2>2 DEF Handle, workerVars, brokerVars, historyVars, Tidy, AllCreated
<1>16. ASSUME NEW d \in Definitions, SendCreate(d) PROVE Tidy'
  <2>1. ~Excused
    BY <1>16, <1>0 DEF SendCreate, workerVars, brokerVars, historyVars, Excused, Sendable
  <2>2. /\ cancelled \cap defs = {}
        /\ pc["worker"] \notin {"none", "creating"} => AllCreated
        /\ pc["worker"] \in {"finally", "closing"} => defs \cap Definitions \subseteq left
        /\ pc["worker"] \in {"done", "failed"} => defs \cap Definitions = {}
        /\ defs \cap Definitions \subseteq made /\ cancelled \subseteq made
    BY <2>1 DEF StormCleanInv
  <2> QED
    BY <1>16, <1>0, <2>2
       DEF SendCreate, workerVars, brokerVars, historyVars, Tidy, AllCreated, Sendable, Creating
<1>17. ASSUME NEW d \in Definitions, Cancel(d) PROVE Tidy'
  <2>1. ~Excused
    BY <1>17, <1>0 DEF Cancel, Goes, Misbehaves, workerVars, brokerVars, historyVars, Excused
  <2>2. /\ cancelled \cap defs = {}
        /\ pc["worker"] \notin {"none", "creating"} => AllCreated
        /\ pc["worker"] \in {"finally", "closing"} => defs \cap Definitions \subseteq left
        /\ pc["worker"] \in {"done", "failed"} => defs \cap Definitions = {}
        /\ defs \cap Definitions \subseteq made /\ cancelled \subseteq made
    BY <2>1 DEF StormCleanInv
  <2> QED
    BY <1>17, <1>0, <2>2
       DEF Cancel, Goes, Misbehaves, workerVars, brokerVars, historyVars, Tidy, AllCreated,
           Excused
<1>18. ASSUME NEW d \in Definitions, RaceCancel(d) PROVE Tidy'
  <2>1. d \in OfKind({"race"}) /\ Definitions = OfKind({"storm"})
    BY <1>18, DefinitionNames DEF RaceCancel, TypeOK
  <2> QED
    BY <2>1 DEF OfKind
<1>19. ASSUME CreationDone PROVE Tidy'
  <2>1. ~Excused
    BY <1>19, <1>0 DEF CreationDone, Goes, workerVars, brokerVars, historyVars, Excused
  <2>2. /\ cancelled \cap defs = {}
        /\ pc["worker"] \notin {"none", "creating"} => AllCreated
        /\ pc["worker"] \in {"finally", "closing"} => defs \cap Definitions \subseteq left
        /\ pc["worker"] \in {"done", "failed"} => defs \cap Definitions = {}
        /\ defs \cap Definitions \subseteq made /\ cancelled \subseteq made
    BY <2>1 DEF StormCleanInv
  <2> QED
    BY <1>19, <1>0, <2>2
       DEF CreationDone, Goes, workerVars, brokerVars, historyVars, Tidy, AllCreated
<1>20. ASSUME VerifyDefinitions PROVE Tidy'
  <2>1. ~Excused
    BY <1>20, <1>0 DEF VerifyDefinitions, Goes, workerVars, brokerVars, historyVars, Excused
  <2>2. /\ cancelled \cap defs = {}
        /\ pc["worker"] \notin {"none", "creating"} => AllCreated
        /\ pc["worker"] \in {"finally", "closing"} => defs \cap Definitions \subseteq left
        /\ pc["worker"] \in {"done", "failed"} => defs \cap Definitions = {}
        /\ defs \cap Definitions \subseteq made /\ cancelled \subseteq made
    BY <2>1 DEF StormCleanInv
  <2> QED
    BY <1>20, <1>0, <2>2
       DEF VerifyDefinitions, Goes, workerVars, brokerVars, historyVars, Tidy, AllCreated
<1>21. ASSUME CleanupDone PROVE Tidy'
  <2>1. ~Excused
    BY <1>21, <1>0 DEF CleanupDone, Goes, workerVars, brokerVars, historyVars, Excused
  <2>2. /\ cancelled \cap defs = {}
        /\ pc["worker"] \notin {"none", "creating"} => AllCreated
        /\ pc["worker"] \in {"finally", "closing"} => defs \cap Definitions \subseteq left
        /\ pc["worker"] \in {"done", "failed"} => defs \cap Definitions = {}
        /\ defs \cap Definitions \subseteq made /\ cancelled \subseteq made
    BY <2>1 DEF StormCleanInv
  <2> QED
    BY <1>21, <1>0, <2>2
       DEF CleanupDone, Goes, workerVars, brokerVars, historyVars, Tidy, AllCreated
<1>22. ASSUME RaceCancelDone PROVE Tidy'
  <2>1. ~Excused
    BY <1>22, <1>0 DEF RaceCancelDone, Goes, workerVars, brokerVars, historyVars, Excused
  <2>2. /\ cancelled \cap defs = {}
        /\ pc["worker"] \notin {"none", "creating"} => AllCreated
        /\ pc["worker"] \in {"finally", "closing"} => defs \cap Definitions \subseteq left
        /\ pc["worker"] \in {"done", "failed"} => defs \cap Definitions = {}
        /\ defs \cap Definitions \subseteq made /\ cancelled \subseteq made
    BY <2>1 DEF StormCleanInv
  <2> QED
    BY <1>22, <1>0, <2>2
       DEF RaceCancelDone, Goes, workerVars, brokerVars, historyVars, Tidy, AllCreated
<1>23. ASSUME OpenWindow PROVE Tidy'
  <2>1. ~Excused
    BY <1>23, <1>0 DEF OpenWindow, Goes, workerVars, brokerVars, historyVars, Excused
  <2>2. /\ cancelled \cap defs = {}
        /\ pc["worker"] \notin {"none", "creating"} => AllCreated
        /\ pc["worker"] \in {"finally", "closing"} => defs \cap Definitions \subseteq left
        /\ pc["worker"] \in {"done", "failed"} => defs \cap Definitions = {}
        /\ defs \cap Definitions \subseteq made /\ cancelled \subseteq made
    BY <2>1 DEF StormCleanInv
  <2> QED
    BY <1>23, <1>0, <2>2
       DEF OpenWindow, Goes, workerVars, brokerVars, historyVars, Tidy, AllCreated
<1>24. ASSUME CanaryCreates PROVE Tidy'
  <2>1. ~Excused
    BY <1>24, <1>0 DEF CanaryCreates, workerVars, brokerVars, historyVars, Excused
  <2>2. /\ cancelled \cap defs = {}
        /\ pc["worker"] \notin {"none", "creating"} => AllCreated
        /\ pc["worker"] \in {"finally", "closing"} => defs \cap Definitions \subseteq left
        /\ pc["worker"] \in {"done", "failed"} => defs \cap Definitions = {}
        /\ defs \cap Definitions \subseteq made /\ cancelled \subseteq made
    BY <2>1 DEF StormCleanInv
  <2> QED
    BY <1>24, <1>0, <2>2 DEF CanaryCreates, workerVars, brokerVars, historyVars, Tidy, AllCreated
<1>25. ASSUME CanaryCancels PROVE Tidy'
  <2>1. ~Excused
    BY <1>25, <1>0 DEF CanaryCancels, workerVars, brokerVars, historyVars, Excused
  <2>2. /\ cancelled \cap defs = {}
        /\ pc["worker"] \notin {"none", "creating"} => AllCreated
        /\ pc["worker"] \in {"finally", "closing"} => defs \cap Definitions \subseteq left
        /\ pc["worker"] \in {"done", "failed"} => defs \cap Definitions = {}
        /\ defs \cap Definitions \subseteq made /\ cancelled \subseteq made
    BY <2>1 DEF StormCleanInv
  <2> QED
    BY <1>25, <1>0, <2>2 DEF CanaryCancels, workerVars, brokerVars, historyVars, Tidy, AllCreated
<1>26. ASSUME WindowCloses PROVE Tidy'
  <2>1. ~Excused
    BY <1>26, <1>0 DEF WindowCloses, Goes, workerVars, brokerVars, historyVars, Excused
  <2>2. /\ cancelled \cap defs = {}
        /\ pc["worker"] \notin {"none", "creating"} => AllCreated
        /\ pc["worker"] \in {"finally", "closing"} => defs \cap Definitions \subseteq left
        /\ pc["worker"] \in {"done", "failed"} => defs \cap Definitions = {}
        /\ defs \cap Definitions \subseteq made /\ cancelled \subseteq made
    BY <2>1 DEF StormCleanInv
  <2> QED
    BY <1>26, <1>0, <2>2
       DEF WindowCloses, Goes, workerVars, brokerVars, historyVars, Tidy, AllCreated
<1>27. ASSUME PostStormCanary PROVE Tidy'
  <2>1. ~Excused
    BY <1>27, <1>0 DEF PostStormCanary, Goes, workerVars, brokerVars, historyVars, Excused
  <2>2. /\ cancelled \cap defs = {}
        /\ pc["worker"] \notin {"none", "creating"} => AllCreated
        /\ pc["worker"] \in {"finally", "closing"} => defs \cap Definitions \subseteq left
        /\ pc["worker"] \in {"done", "failed"} => defs \cap Definitions = {}
        /\ defs \cap Definitions \subseteq made /\ cancelled \subseteq made
    BY <2>1 DEF StormCleanInv
  <2> QED
    BY <1>27, <1>0, <2>2
       DEF PostStormCanary, Goes, workerVars, brokerVars, historyVars, Tidy, AllCreated
<1>28. ASSUME StormVerdict PROVE Tidy'
  <2>1. ~Excused
    BY <1>28, <1>0 DEF StormVerdict, Goes, workerVars, brokerVars, historyVars, Excused
  <2>2. /\ cancelled \cap defs = {}
        /\ pc["worker"] \notin {"none", "creating"} => AllCreated
        /\ pc["worker"] \in {"finally", "closing"} => defs \cap Definitions \subseteq left
        /\ pc["worker"] \in {"done", "failed"} => defs \cap Definitions = {}
        /\ defs \cap Definitions \subseteq made /\ cancelled \subseteq made
    BY <2>1 DEF StormCleanInv
  <2> QED
    BY <1>28, <1>0, <2>2
       DEF StormVerdict, Goes, workerVars, brokerVars, historyVars, Tidy, AllCreated,
           StormEvidence
<1>29. ASSUME StormFinally PROVE Tidy'
  <2>1. ~Excused
    BY <1>29, <1>0 DEF StormFinally, workerVars, brokerVars, historyVars, Excused
  <2>2. /\ cancelled \cap defs = {}
        /\ pc["worker"] \notin {"none", "creating"} => AllCreated
        /\ pc["worker"] \in {"finally", "closing"} => defs \cap Definitions \subseteq left
        /\ pc["worker"] \in {"done", "failed"} => defs \cap Definitions = {}
        /\ defs \cap Definitions \subseteq made /\ cancelled \subseteq made
    BY <2>1 DEF StormCleanInv
  <2> QED
    BY <1>29, <1>0, <2>2 DEF StormFinally, workerVars, brokerVars, historyVars, Tidy, AllCreated
<1>30. ASSUME NEW d \in Definitions, BrokerCreates(d) PROVE Tidy'
  <2>1. ~Excused
    BY <1>30, <1>0 DEF BrokerCreates, workerVars, brokerVars, historyVars, Excused
  <2>2. /\ cancelled \cap defs = {}
        /\ pc["worker"] \notin {"none", "creating"} => AllCreated
        /\ pc["worker"] \in {"finally", "closing"} => defs \cap Definitions \subseteq left
        /\ pc["worker"] \in {"done", "failed"} => defs \cap Definitions = {}
        /\ defs \cap Definitions \subseteq made /\ cancelled \subseteq made
    BY <2>1 DEF StormCleanInv
  <2> QED
    BY <1>30, <1>0, <2>2 DEF BrokerCreates, workerVars, brokerVars, historyVars, Tidy, AllCreated
<1>31. ASSUME NEW d \in Definitions, Fire(d) PROVE Tidy'
  <2>1. ~Excused
    BY <1>31, <1>0 DEF Fire, workerVars, brokerVars, historyVars, Excused
  <2>2. /\ cancelled \cap defs = {}
        /\ pc["worker"] \notin {"none", "creating"} => AllCreated
        /\ pc["worker"] \in {"finally", "closing"} => defs \cap Definitions \subseteq left
        /\ pc["worker"] \in {"done", "failed"} => defs \cap Definitions = {}
        /\ defs \cap Definitions \subseteq made /\ cancelled \subseteq made
    BY <2>1 DEF StormCleanInv
  <2> QED
    BY <1>31, <1>0, <2>2 DEF Fire, workerVars, brokerVars, historyVars, Tidy, AllCreated
<1>32. ASSUME Tick PROVE Tidy'
  <2>1. ~Excused
    BY <1>32, <1>0 DEF Tick, workerVars, brokerVars, historyVars, Excused
  <2>2. /\ cancelled \cap defs = {}
        /\ pc["worker"] \notin {"none", "creating"} => AllCreated
        /\ pc["worker"] \in {"finally", "closing"} => defs \cap Definitions \subseteq left
        /\ pc["worker"] \in {"done", "failed"} => defs \cap Definitions = {}
        /\ defs \cap Definitions \subseteq made /\ cancelled \subseteq made
    BY <2>1 DEF StormCleanInv
  <2> QED
    BY <1>32, <1>0, <2>2 DEF Tick, workerVars, brokerVars, historyVars, Tidy, AllCreated
<1>33. ASSUME BrokerMisbehaves PROVE Tidy'
  <2>1. ~Excused
    BY <1>33, <1>0 DEF BrokerMisbehaves, Misbehaves, workerVars, brokerVars, historyVars, Excused
  <2>2. /\ cancelled \cap defs = {}
        /\ pc["worker"] \notin {"none", "creating"} => AllCreated
        /\ pc["worker"] \in {"finally", "closing"} => defs \cap Definitions \subseteq left
        /\ pc["worker"] \in {"done", "failed"} => defs \cap Definitions = {}
        /\ defs \cap Definitions \subseteq made /\ cancelled \subseteq made
    BY <2>1 DEF StormCleanInv
  <2> QED
    BY <1>33, <1>0, <2>2
       DEF BrokerMisbehaves, Misbehaves, workerVars, brokerVars, historyVars, Tidy, AllCreated
<1>34. ASSUME SiblingDisturbed PROVE Tidy'
  <2>1. ~Excused
    BY <1>34, <1>0
       DEF SiblingDisturbed, Goes, Misbehaves, workerVars, brokerVars, historyVars, Excused
  <2>2. /\ cancelled \cap defs = {}
        /\ pc["worker"] \notin {"none", "creating"} => AllCreated
        /\ pc["worker"] \in {"finally", "closing"} => defs \cap Definitions \subseteq left
        /\ pc["worker"] \in {"done", "failed"} => defs \cap Definitions = {}
        /\ defs \cap Definitions \subseteq made /\ cancelled \subseteq made
    BY <2>1 DEF StormCleanInv
  <2> QED
    BY <1>34, <1>0, <2>2
       DEF SiblingDisturbed, Goes, Misbehaves, workerVars, brokerVars, historyVars, Tidy,
           AllCreated
<1>35. ASSUME NEW d \in Definitions, CreateFails(d) PROVE Tidy'
  <2>1. ~Excused
    BY <1>35, <1>0 DEF CreateFails, Goes, Misbehaves, workerVars, brokerVars, historyVars, Excused
  <2>2. /\ cancelled \cap defs = {}
        /\ pc["worker"] \notin {"none", "creating"} => AllCreated
        /\ pc["worker"] \in {"finally", "closing"} => defs \cap Definitions \subseteq left
        /\ pc["worker"] \in {"done", "failed"} => defs \cap Definitions = {}
        /\ defs \cap Definitions \subseteq made /\ cancelled \subseteq made
    BY <2>1 DEF StormCleanInv
  <2> QED
    BY <1>35, <1>0, <2>2
       DEF CreateFails, Goes, Misbehaves, workerVars, brokerVars, historyVars, Tidy, AllCreated,
           Excused
<1> QED
  BY <1>1, <1>2, <1>3, <1>4, <1>5, <1>6, <1>7, <1>8, <1>9, <1>10, <1>11, <1>12, <1>13, <1>14,
     <1>15, <1>16, <1>17, <1>18, <1>19, <1>20, <1>21, <1>22, <1>23, <1>24, <1>25, <1>26, <1>27,
     <1>28, <1>29, <1>30, <1>31, <1>32, <1>33, <1>34, <1>35, NextCases
     DEF TypeOK, StepKinds, Launches, Catches, Clients, Broker
-----------------------------------------------------------------------------
(* Steps of runs with a correct broker. *)

(* A wait or a check that lets the driver go on; a step beside the driver. *)
Sees == Moves /\ Passes /\ Head(todo) \in Observing /\ UNCHANGED World
Stays == UNCHANGED <<scenario, todo, verdict, outcome>> /\ Ahead' = Ahead

CalmKinds ==
    \/ Sees
    \/ /\ Moves
       /\ \/ StartSubscribers \/ StartCreate \/ StartCanceller \/ StartCleanup \/ StartStorm
          \/ StopFitz \/ RestartFitz \/ SignalSubscribers("signal")
    \/ Stays /\ (Clients \/ Broker \/ Tick)

(* What went wrong is not forgotten. *)
LEMMA NotForgotten ==
    ASSUME TypeOK, StepKinds
    PROVE  (misbehaved => misbehaved') /\ (overran => overran') /\ (tardy => tardy')
<1>1. Observes \/ Launches \/ Catches \/ Concludes => UNCHANGED historyVars
  BY Zenon
     DEF Observes, World, Launches, Catches, Concludes, StartSubscribers, StartCreate,
         StartCanceller, StartCleanup, StartStorm, Start, StopFitz, RestartFitz,
         SignalSubscribers, Rethrow, Quiesce
<1>2. ASSUME Clients PROVE (misbehaved => misbehaved') /\ (overran => overran') /\ (tardy => tardy')
  <2>1. \/ UNCHANGED historyVars
        \/ \E s \in Subscribers : SubscriberEnds(s)
        \/ \E d \in Definitions : Cancel(d) \/ RaceCancel(d)
        \/ CreationDone \/ OpenWindow
    BY <1>2, Zenon
       DEF Clients, Subscribe, Handle, SendCreate, VerifyDefinitions, CleanupDone, RaceCancelDone,
           CanaryCreates, CanaryCancels, WindowCloses, PostStormCanary, StormVerdict, StormFinally
  <2>2. ASSUME NEW s \in Subscribers, SubscriberEnds(s)
        PROVE  (misbehaved => misbehaved') /\ (overran => overran') /\ (tardy => tardy')
    BY <2>2 DEF SubscriberEnds
  <2>3. ASSUME NEW d \in Definitions, Cancel(d) \/ RaceCancel(d)
        PROVE  (misbehaved => misbehaved') /\ (overran => overran') /\ (tardy => tardy')
    BY <2>3 DEF Cancel, RaceCancel, Misbehaves
  <2>4. ASSUME CreationDone \/ OpenWindow
        PROVE  (misbehaved => misbehaved') /\ (overran => overran') /\ (tardy => tardy')
    <3>1. ASSUME CreationDone
          PROVE  UNCHANGED <<misbehaved, tardy>> /\ (overran => overran')
      <4>1. overran' = (overran \/ (scenario = "storm" /\ now >= Due))
        BY <3>1, Zenon DEF CreationDone
      <4>2. UNCHANGED <<misbehaved, tardy>>
        BY <3>1 DEF CreationDone
      <4> QED
        BY <4>1, <4>2
    <3>2. ASSUME OpenWindow
          PROVE  UNCHANGED <<misbehaved, tardy>> /\ (overran => overran')
      <4>1. overran' = (overran \/ now > Due)
        BY <3>2, Zenon DEF OpenWindow
      <4>2. UNCHANGED <<misbehaved, tardy>>
        BY <3>2 DEF OpenWindow
      <4> QED
        BY <4>1, <4>2
    <3> QED
      BY <2>4, <3>1, <3>2
  <2> QED
    BY <2>1, <2>2, <2>3, <2>4 DEF historyVars
<1>3. ASSUME Broker PROVE UNCHANGED historyVars
  BY <1>3, Zenon DEF Broker, BrokerCreates, Fire
<1>4. ASSUME Tick PROVE (misbehaved => misbehaved') /\ (overran => overran') /\ (tardy => tardy')
  BY <1>4 DEF Tick
<1>5. ASSUME BrokerMisbehaves \/ SiblingDisturbed \/ \E d \in Definitions : CreateFails(d)
      PROVE  misbehaved' = TRUE /\ UNCHANGED <<overran, tardy>>
  BY <1>5, Zenon DEF BrokerMisbehaves, SiblingDisturbed, CreateFails, Misbehaves
<1> QED
  BY <1>1, <1>2, <1>3, <1>4, <1>5 DEF StepKinds, historyVars, TypeOK, BrokerType

LEMMA Blemishes ==
    ASSUME TypeOK, StepKinds, Correct'
    PROVE  Correct
BY NotForgotten DEF Correct

(* What a step is that leaves a driver with a correct broker undecided. *)
LEMMA CalmCases ==
    ASSUME TypeOK, Place, Running', Correct', Regular
    PROVE  Running /\ Correct /\ CalmKinds
<1>1. StepKinds /\ outcome = "none" /\ UNCHANGED scenario
  BY NextCases DEF TypeOK
<1>2. Correct
  BY <1>1, Blemishes
<1>3. ~(BrokerMisbehaves \/ SiblingDisturbed \/ \E d \in Definitions : CreateFails(d))
  BY DEF BrokerMisbehaves, SiblingDisturbed, CreateFails, Misbehaves, Correct
<1>4. CASE Observes
  BY <1>2, <1>4 DEF Observes, Throws, Ends, Running, CalmKinds, Sees
<1>5. CASE Launches
  BY <1>2, <1>5 DEF Launches, CalmKinds
<1>6. ~Catches
  BY DEF Catches, Running
<1>7. ~Concludes
  BY DEF Concludes, Quiesce, Running
<1>8. CASE Clients \/ Broker \/ Tick
  <2>1. UNCHANGED <<scenario, todo, verdict, outcome>>
    BY <1>8, OthersStay DEF driverVars
  <2> QED
    BY <1>2, <1>8, <2>1 DEF CalmKinds, Stays, Running, Ahead
<1> QED
  BY <1>1, <1>3, <1>4, <1>5, <1>6, <1>7, <1>8 DEF StepKinds
-----------------------------------------------------------------------------
(* The counters of Fitz and the clients' reports. *)

(* Only an assertion of the margin and a restart touch a counter. *)
LEMMA CountersStay ==
    ASSUME Regular
    PROVE  UNCHANGED stackVars \/ Margin \/ RestartFitz
<1>1. Driver => UNCHANGED stackVars \/ Margin \/ RestartFitz
  BY Zenon
     DEF Driver, Start, Observe, WaitForScheduleCounts, StopFitz, SignalSubscribers, Quiesce, Rethrow
<1>2. Clients => UNCHANGED stackVars
  BY Zenon
     DEF Clients, Subscribe, SubscriberEnds, Handle, SendCreate, Cancel, RaceCancel, CreationDone,
         VerifyDefinitions, CleanupDone, RaceCancelDone, OpenWindow, CanaryCreates, CanaryCancels,
         WindowCloses, PostStormCanary, StormVerdict, StormFinally
<1>3. Broker => UNCHANGED stackVars
  BY Zenon DEF Broker, BrokerCreates, Fire
<1> QED
  BY <1>1, <1>2, <1>3, Zenon
     DEF Regular, DeadlinePasses, Tick, BrokerMisbehaves, SiblingDisturbed, CreateFails

(* What a driver does that is to assert its margin. *)
LEMMA OnlyMargin ==
    ASSUME Head(todo) = "margin", Driver \/ DeadlinePasses
    PROVE  Margin
<1>1. ~DeadlinePasses
  BY DEF DeadlinePasses
<1>2. ASSUME NEW step, step # "margin" PROVE ~At(step)
  BY <1>2 DEF At
<1> QED
  BY <1>1, <1>2
     DEF Driver, Start, Observe, WaitForScheduleCounts, StopFitz, RestartFitz, SignalSubscribers,
         Quiesce, Rethrow

(* A snapshot is taken of the process that has been started last. *)
LEMMA StackNext ==
    ASSUME TypeOK, Place, StackInv, Regular
    PROVE  StackType' /\ StackInv'
<1>0. /\ StepKinds /\ outcome = "none" /\ UNCHANGED scenario /\ DriverType' /\ Place'
      /\ cleanups \in Nat /\ baseline \in Nat /\ scenario \in {"delivery", "outage", "storm"}
  BY NextCases DEF TypeOK, StackType, DriverType
<1>1. saturated' => tardy'
  <2>1. saturated' = saturated
    BY <1>0, LedgersStay DEF ledgerVars, Handle
  <2> QED
    BY <1>0, <2>1, NotForgotten DEF StackInv
<1>2. CASE Margin
  <2>1. /\ UNCHANGED <<cleanups, astray>> /\ Head(todo) = "margin"
        /\ baseline' = IF scenario = "delivery" /\ ~MarginAhead' THEN cleanups ELSE baseline
    BY <1>2 DEF Margin, At
  <2>2. StackType'
    BY <1>0, <2>1 DEF TypeOK, StackType
  <2>3. scenario' # "delivery" => baseline' = 0
    BY <1>0, <2>1 DEF StackInv
  <2>4. ASSUME scenario' = "delivery", Running', Ahead' <= 6 PROVE baseline' <= cleanups'
    <3>1. ~MarginAhead'
      <4>1. todo' \in Seq(StepNames) /\ Remains(todo', DeliverySteps)
        BY <1>0, <2>4 DEF DriverType, Place, Steps
      <4>2. MarginAhead' <=> Len(todo') >= 7
        BY <4>1, DeliveryOrder DEF MarginAhead
      <4>3. Len(todo') \in 1..17 /\ Len(todo') <= 6
        BY <2>4, <4>1, DeliveryOrder DEF Ahead
      <4> QED
        BY ONLY <4>2, <4>3
    <3> QED
      BY <1>0, <2>1, <2>4, <3>1
  <2> QED
    BY <1>1, <2>2, <2>3, <2>4 DEF StackInv
<1>3. CASE RestartFitz
  <2>1. /\ UNCHANGED <<baseline, astray>> /\ cleanups' = 0 /\ Head(todo) = "start" /\ Proceed
    BY <1>3 DEF RestartFitz, At
  <2>2. Running
    BY <1>0, <2>1, Catching DEF TypeOK
  <2>3. Moves /\ (scenario = "delivery" => Ahead = 9)
    BY <2>1, <2>2, Proceeds, Here DEF TypeOK, DeliveryRow
  <2> QED
    BY <1>0, <1>1, <2>1, <2>3 DEF TypeOK, StackType, StackInv, Moves
<1>4. CASE UNCHANGED stackVars /\ ~Margin
  <2>1. UNCHANGED <<cleanups, baseline, astray>>
    BY <1>4 DEF stackVars
  <2>2. ASSUME scenario = "delivery", Running', Ahead' <= 6 PROVE Running /\ Ahead <= 6
    <3>1. CASE UNCHANGED driverVars
      BY <2>2, <3>1 DEF driverVars, Running, Ahead
    <3>2. CASE Driver \/ DeadlinePasses
      <4>1. Observes \/ Launches \/ Catches \/ Concludes
        BY <1>0, <3>2, DriverCases DEF TypeOK
      <4>2. Running /\ Moves
        BY <2>2, <4>1
           DEF Observes, Launches, Catches, Concludes, Throws, Ends, Quiesce, Running, Moves
      <4>3. Ahead \in 1..17 /\ DeliveryRow(Ahead, Head(todo)) /\ Head(todo) # "margin"
        BY <1>4, <2>2, <3>2, <4>2, Here, OnlyMargin DEF TypeOK
      <4> QED
        BY <2>2, <4>2, <4>3 DEF DeliveryRow, Moves
    <3> QED
      BY <1>0, <3>1, <3>2, OthersStay DEF Regular
  <2> QED
    BY <1>0, <1>1, <2>1, <2>2 DEF TypeOK, StackType, StackInv
<1> QED
  BY <1>2, <1>3, <1>4, CountersStay

(* Time only passes. *)
LEMMA TimeStays ==
    ASSUME Regular
    PROVE  UNCHANGED now \/ Tick
<1>1. Driver => UNCHANGED now
  BY Zenon
     DEF Driver, Start, Observe, WaitForScheduleCounts, Margin, StopFitz, RestartFitz,
         SignalSubscribers, Quiesce, Rethrow
<1>2. Clients => UNCHANGED now
  BY Zenon
     DEF Clients, Subscribe, SubscriberEnds, Handle, SendCreate, Cancel, RaceCancel, CreationDone,
         VerifyDefinitions, CleanupDone, RaceCancelDone, OpenWindow, CanaryCreates, CanaryCancels,
         WindowCloses, PostStormCanary, StormVerdict, StormFinally
<1>3. Broker => UNCHANGED now
  BY Zenon DEF Broker, BrokerCreates, Fire
<1> QED
  BY <1>1, <1>2, <1>3, Zenon
     DEF Regular, DeadlinePasses, BrokerMisbehaves, SiblingDisturbed, CreateFails

(* The first early delivery of the outage is an objection. *)
LEMMA EarlyNext ==
    ASSUME TypeOK, Place, EarlyInv, Regular
    PROVE  EarlyInv'
<1>0. StepKinds /\ UNCHANGED scenario /\ now \in Nat
  BY NextCases DEF TypeOK, ClientType, LastInstant
<1>1. CASE UNCHANGED ledgerVars
  <2>1. now' < Again => now < Again
    BY <1>0, TimeStays DEF Tick, Again
  <2> QED
    BY <1>0, <1>1, <2>1 DEF EarlyInv, ledgerVars
<1>2. ASSUME NEW s \in Subscribers, NEW n \in pending, Handle(s, n) PROVE EarlyInv'
  <2>1. UNCHANGED now
    BY <1>2 DEF Handle
  <2> SUFFICES ASSUME scenario = "outage", missed' = {}
               PROVE  early' = {} /\ (now < Again => \A t \in Subscribers : seen'[t] = {})
    BY <1>0, <2>1 DEF EarlyInv
  <2>2. CASE Valid(n) /\ now < Again
    <3>1. InTime
      BY DEF InTime
    <3>2. missed' = IF n[2] \notin seen[s] THEN missed \cup {s} ELSE missed
      BY <1>2, <2>2, <3>1 DEF Handle
    <3>3. n[2] \in seen[s] /\ missed = {}
      BY <3>2
    <3> QED
      BY <2>2, <3>3 DEF EarlyInv
  <2>3. CASE ~(Valid(n) /\ now < Again)
    <3>1. early' = early /\ missed' = missed /\ (now < Again => seen' = seen)
      BY <1>2, <2>3 DEF Handle
    <3> QED
      BY <3>1 DEF EarlyInv
  <2> QED
    BY <2>2, <2>3
<1> QED
  BY <1>0, <1>1, <1>2, LedgersStay
-----------------------------------------------------------------------------
(* Occurrences and notifications. *)

Scene ==
    /\ scenario = "delivery" => DeliveryInv
    /\ scenario = "outage" => OutageInv
    /\ scenario = "storm" => StormInv

(* The steps that touch occurrences, notifications or time. *)
LEMMA Traffic ==
    ASSUME CalmKinds
    PROVE  \/ UNCHANGED <<ledgerVars, fired, pending, now>>
           \/ \E s \in Subscribers, n \in pending : Handle(s, n)
           \/ \E d \in Definitions : Fire(d)
           \/ Tick
<1>1. ASSUME Sees PROVE UNCHANGED <<ledgerVars, fired, pending, now>>
  BY <1>1 DEF Sees, World, brokerVars
<1>2. ASSUME \/ StartSubscribers \/ StartCreate \/ StartCanceller \/ StartCleanup \/ StartStorm
             \/ StopFitz \/ RestartFitz \/ SignalSubscribers("signal")
      PROVE  UNCHANGED <<ledgerVars, fired, pending, now>>
  BY <1>2, Zenon
     DEF StartSubscribers, StartCreate, StartCanceller, StartCleanup, StartStorm, Start, StopFitz,
         RestartFitz, SignalSubscribers, brokerVars
<1>3. ASSUME Clients
      PROVE  \/ UNCHANGED <<ledgerVars, fired, pending, now>>
             \/ \E s \in Subscribers, n \in pending : Handle(s, n)
  BY <1>3, Zenon
     DEF Clients, Subscribe, SubscriberEnds, SendCreate, Cancel, RaceCancel, CreationDone,
         VerifyDefinitions, CleanupDone, RaceCancelDone, OpenWindow, CanaryCreates, CanaryCancels,
         WindowCloses, PostStormCanary, StormVerdict, StormFinally, brokerVars
<1>4. ASSUME NEW d \in Definitions, BrokerCreates(d)
      PROVE  UNCHANGED <<ledgerVars, fired, pending, now>>
  BY <1>4, Zenon DEF BrokerCreates
<1> QED
  BY <1>1, <1>2, <1>3, <1>4 DEF CalmKinds, Broker

(* The kinds of the definitions of a scenario. *)
LEMMA DefinitionKinds ==
    ASSUME DriverType, NEW d \in Definitions
    PROVE  /\ scenario = "delivery" => d[1] \in {"broadcast", "single", "cancelled"}
           /\ scenario = "outage" => d[1] \in {"repeated", "race"}
           /\ scenario = "storm" => d[1] = "storm"
           /\ \A kinds : d \in OfKind(kinds) <=> d[1] \in kinds
           /\ d[2] \in Sequences /\ d = <<d[1], d[2]>>
<1>1. scenario \in {"delivery", "outage", "storm"}
  BY DEF DriverType
<1>2. d \in Kinds[scenario] \X Sequences
  BY DEF Definitions, OfKind
<1>3. d[1] \in Kinds[scenario] /\ d[2] \in Sequences /\ d = <<d[1], d[2]>>
  BY <1>2
<1>4. \A kinds : d \in OfKind(kinds) <=> d[1] \in kinds
  BY <1>3 DEF OfKind
<1> QED
  BY <1>1, <1>3, <1>4 DEF Kinds

(* A definition fires at its instant, and those that it is for are subscribed. *)
LEMMA InPlace ==
    ASSUME TypeOK, Place, Running, StormCleanInv, CreatedInv, Scene, NEW d \in Definitions, IsDue(d)
    PROVE  /\ now = Instant /\ Audience \subseteq subs
           /\ scenario = "delivery" => Ahead = 6 /\ now = Due
           /\ scenario = "outage" => Ahead \in 7..9
           /\ scenario = "storm" => now = Due /\ subs \subseteq {AnySubscriber}
<1>1. /\ up /\ d \in defs /\ now \in FireTimes(d) /\ now \in 0..LastInstant
      /\ scenario \in {"delivery", "outage", "storm"} /\ Ahead \in 1..18
  BY Here DEF IsDue, TypeOK, ClientType, DriverType
<1>2. CASE scenario = "delivery"
  <2>1. now = Due
    BY <1>1, <1>2, DefinitionKinds DEF FireTimes, WholeMinute, TypeOK
  <2>2. DeliveryTime
    BY <1>2 DEF Scene, DeliveryInv
  <2>3. Ahead = 6
    BY <1>1, <2>1, <2>2 DEF DeliveryTime, Due
  <2> QED
    BY <1>2, <2>1, <2>2, <2>3 DEF DeliveryTime, Instant, Audience
<1>3. CASE scenario = "outage"
  <2>1. now = Due \/ now = Again
    BY <1>1, <1>3, DefinitionKinds DEF FireTimes, ConsecutiveMinutes, TypeOK
  <2>2. OutageTime
    BY <1>3 DEF Scene, OutageInv
  <2>3. now = Again /\ Ahead \in 7..9
    BY <1>1, <2>1, <2>2 DEF OutageTime, Due, Again, LastInstant
  <2> QED
    BY <1>1, <1>3, <2>2, <2>3 DEF OutageTime, Instant, Audience
<1>4. CASE scenario = "storm"
  <2>1. now = Due
    BY <1>1, <1>4, DefinitionKinds DEF FireTimes, WholeMinute, TypeOK
  <2>2. StormDefs
    BY <1>4 DEF Scene, StormInv
  <2>3. create[d] # "idle"
    BY <1>1 DEF StormCleanInv, CreatedInv
  <2>4. AnySubscriber \in subs /\ subs \subseteq {AnySubscriber}
    BY <1>1, <2>2, <2>3 DEF StormDefs
  <2> QED
    BY <1>4, <2>1, <2>4 DEF Instant, Audience
<1> QED
  BY <1>1, <1>2, <1>3, <1>4

(* A subset of the fleet with one member. *)
LEMMA OneMember ==
    ASSUME NEW to, to \subseteq Subscribers, Cardinality(to) = 1
    PROVE  \E s \in Subscribers : to = {s}
<1>1. IsFiniteSet(to)
  BY FS_Subset, SubscribersAssumption
<1>2. \E s : to = {s}
  BY <1>1, FS_Singleton
<1> QED
  BY <1>2

(* A firing reaches those that it is for. *)
LEMMA FireFires ==
    ASSUME TypeOK, Place, Running, StormCleanInv, CreatedInv, Scene, FireInv,
           UNCHANGED scenario, NEW d \in Definitions, Fire(d)
    PROVE  FireInv'
<1>1. /\ now = Instant /\ Audience \subseteq subs
      /\ scenario # "outage" => now = Due
      /\ subs \subseteq Subscribers /\ Definitions' = Definitions
      /\ scenario \in {"delivery", "outage", "storm"}
  BY InPlace, SameDefinitions DEF Fire, TypeOK, BrokerType, DriverType
<1>2. /\ fired' = fired \cup {<<d, now>>} /\ <<d, Instant>> \notin fired
      /\ UNCHANGED <<now, seen, duplicates, invalid, missed>>
  BY <1>1 DEF Fire, IsDue, ledgerVars
<1>3. PICK to \in SUBSET subs :
          /\ IF Broadcast(d) \/ subs = {} THEN to = subs ELSE Cardinality(to) = 1
          /\ pending' = pending \cup {<<s, d, "once">> : s \in to}
  BY DEF Fire
<1>4. Instant' = Instant /\ Audience' = Audience /\ now' = now
  BY <1>2 DEF Instant, Audience
<1>5. \A s \in Subscribers : ~Reached(s, d)
  BY <1>2 DEF FireInv
<1>6. ASSUME NEW s \in Subscribers, NEW e \in Definitions
      PROVE  Reached(s, e)' <=> (Reached(s, e) \/ (e = d /\ s \in to))
  BY <1>2, <1>3 DEF Reached
<1>7. \A n \in pending' : n[3] = "once" /\ n[2] \notin seen'[n[1]]
  <2> SUFFICES ASSUME NEW n \in pending' PROVE n[3] = "once" /\ n[2] \notin seen[n[1]]
    BY <1>2
  <2>1. CASE n \in pending
    BY <2>1 DEF FireInv
  <2>2. CASE n \notin pending
    <3>1. PICK s \in to : n = <<s, d, "once">>
      BY <1>3, <2>2
    <3> QED
      BY <1>1, <1>5, <3>1 DEF Reached
  <2> QED
    BY <2>1, <2>2
<1>8. ASSUME NEW e \in Definitions, <<e, Instant>> \notin fired', NEW s \in Subscribers
      PROVE  ~Reached(s, e)'
  <2>1. e # d /\ <<e, Instant>> \notin fired
    BY <1>1, <1>2, <1>8
  <2> QED
    BY <1>6, <2>1 DEF FireInv
<1>9. ASSUME NEW e \in Definitions, <<e, Instant>> \in fired'
      PROVE  IF Broadcast(e) THEN \A s \in Audience : Reached(s, e)'
             ELSE \E s \in Subscribers : \A t \in Subscribers : Reached(t, e)' <=> t = s
  <2>0. Audience \subseteq Subscribers
    BY <1>1
  <2>1. CASE e # d
    <3>1. <<e, Instant>> \in fired
      BY <1>2, <1>9, <2>1
    <3>2. \A s \in Subscribers : Reached(s, e)' <=> Reached(s, e)
      BY <1>6, <2>1
    <3> QED
      BY <3>1, <3>2, <2>0 DEF FireInv
  <2>2. CASE e = d /\ Broadcast(d)
    BY <1>1, <1>3, <1>6, <2>0, <2>2
  <2>3. CASE e = d /\ ~Broadcast(d)
    <3>1. scenario # "storm"
      BY <2>3, DefinitionKinds DEF Broadcast, TypeOK
    <3>2. subs # {}
      BY <1>1, <3>1, SubscribersAssumption DEF Audience
    <3>3. Cardinality(to) = 1 /\ to \subseteq Subscribers
      BY <1>1, <1>3, <2>3, <3>2
    <3>4. PICK s \in Subscribers : to = {s}
      BY <3>3, OneMember
    <3>5. \A t \in Subscribers : Reached(t, e)' <=> t = s
      BY <1>5, <1>6, <2>3, <3>4
    <3> QED
      BY <2>3, <3>5
  <2> QED
    BY <2>1, <2>2, <2>3
<1>10. /\ (duplicates = {} /\ invalid = {} /\ missed = {})'
       /\ (\A f \in fired : f[2] = Instant)'
       /\ (fired # {} => now >= Instant)'
       /\ (scenario # "outage" /\ pending # {} => now = Due)'
  <2>1. Instant \in {Due, Again}
    BY DEF Instant
  <2> QED
    BY <1>1, <1>2, <1>4, <2>1 DEF FireInv, Due, Again
<1> QED
  BY <1>1, <1>4, <1>7, <1>8, <1>9, <1>10 DEF FireInv

(* A notification that is handled is in time and new. *)
LEMMA FireHandled ==
    ASSUME TypeOK, FireInv, UNCHANGED scenario, NEW s \in Subscribers, NEW n \in pending, Handle(s, n)
    PROVE  FireInv'
<1>1. /\ n[1] = s /\ n[2] \in Definitions /\ n[3] = "once" /\ n = <<s, n[2], "once">>
      /\ n[2] \notin seen[s] /\ pending # {} /\ Definitions' = Definitions
      /\ scenario \in {"delivery", "outage", "storm"} /\ now \in Nat
  BY Notification, SameDefinitions DEF Handle, FireInv, TypeOK, DriverType, ClientType
<1>2. Reached(s, n[2])
  BY <1>1 DEF Reached
<1>3. now >= Instant
  BY <1>1, <1>2 DEF FireInv
<1>4. Valid(n) /\ InTime /\ ~(scenario = "outage" /\ now < Again)
  BY <1>1, <1>3 DEF Valid, InTime, FireInv, Instant, Again
<1>5. /\ pending' = pending \ {n} /\ seen' = [seen EXCEPT ![s] = @ \cup {n[2]}]
      /\ UNCHANGED <<now, fired, duplicates, invalid, missed>>
  BY <1>1, <1>4 DEF Handle
<1>6. Instant' = Instant /\ Audience' = Audience
  BY DEF Instant, Audience
<1>7. ASSUME NEW t \in Subscribers, NEW e \in Definitions PROVE Reached(t, e)' <=> Reached(t, e)
  <2>1. seen'[t] = IF t = s THEN seen[t] \cup {n[2]} ELSE seen[t]
    BY <1>5 DEF TypeOK, LedgerType
  <2>2. <<t, e, "once">> = n <=> t = s /\ e = n[2]
    BY <1>1
  <2> QED
    BY <1>1, <1>5, <2>1, <2>2 DEF Reached
<1>8. ASSUME NEW m \in pending' PROVE m[3] = "once" /\ m[2] \notin seen'[m[1]]
  <2>1. /\ m \in pending /\ m # n /\ m[1] \in Subscribers /\ m[3] = "once" /\ m[2] \notin seen[m[1]]
        /\ m = <<m[1], m[2], m[3]>>
    BY <1>5, Notification DEF FireInv
  <2>2. ~(m[1] = s /\ m[2] = n[2])
    BY <1>1, <2>1
  <2> QED
    BY <1>5, <2>1, <2>2 DEF TypeOK, LedgerType
<1>9. Audience \subseteq Subscribers
  BY Names DEF Audience
<1>10. /\ (duplicates = {} /\ invalid = {} /\ missed = {})'
       /\ (\A f \in fired : f[2] = Instant)'
       /\ (fired # {} => now >= Instant)'
       /\ (scenario # "outage" /\ pending # {} => now = Due)'
  BY <1>1, <1>3, <1>5, <1>6 DEF FireInv
<1>11. \A e \in Definitions : <<e, Instant>> \notin fired' => \A t \in Subscribers : ~Reached(t, e)'
  BY <1>5, <1>7 DEF FireInv
<1>12. \A e \in Definitions : <<e, Instant>> \in fired' =>
          IF Broadcast(e) THEN \A t \in Audience : Reached(t, e)'
          ELSE \E t \in Subscribers : \A u \in Subscribers : Reached(u, e)' <=> u = t
  <2> SUFFICES ASSUME NEW e \in Definitions, <<e, Instant>> \in fired
               PROVE  IF Broadcast(e) THEN \A t \in Audience : Reached(t, e)'
                      ELSE \E t \in Subscribers : \A u \in Subscribers : Reached(u, e)' <=> u = t
    BY <1>5
  <2>1. \A t \in Subscribers : Reached(t, e)' <=> Reached(t, e)
    BY <1>7
  <2> QED
    BY <1>9, <2>1 DEF FireInv
<1> QED
  BY <1>1, <1>6, <1>8, <1>10, <1>11, <1>12 DEF FireInv

(* Time passes with everything handled, and as the driver takes it for granted. *)
LEMMA TickStep ==
    ASSUME TypeOK, Correct', Tick
    PROVE  /\ UNCHANGED <<pc, workerVars, ledgerVars, brokerVars>>
           /\ now' = now + 1 /\ now \in 0..LastInstant
           /\ now < (IF scenario = "outage" THEN LastInstant ELSE Due + 1)
           /\ pending = {} \/ scenario = "outage"
           /\ ~Overruns(now + 1) /\ (MarginAhead => now = 0)
           /\ \A d \in defs : ~IsDue(d)
<1>1. /\ now' = now + 1 /\ overran' = (overran \/ Overruns(now'))
      /\ tardy' = (tardy \/ (pending # {} /\ scenario # "outage"))
      /\ UNCHANGED <<pc, workerVars, ledgerVars, brokerVars>>
      /\ (MarginAhead => now = 0) /\ \A d \in defs : ~IsDue(d)
      /\ now < (IF scenario = "outage" THEN LastInstant ELSE Due + 1)
  BY Zenon DEF Tick
<1>2. ~overran' /\ ~tardy'
  BY DEF Correct
<1>3. ~Overruns(now') /\ (pending = {} \/ scenario = "outage")
  BY <1>1, <1>2, Zenon
<1>4. ~Overruns(now + 1)
  BY <1>1, <1>3
<1> QED
  BY <1>1, <1>3, <1>4 DEF TypeOK, ClientType

(* Every occurrence reaches those that it is for, once. *)
LEMMA FireNext ==
    ASSUME TypeOK, Place, Running', Correct', Regular,
           StormCleanInv, CreatedInv, Scene, FireInv
    PROVE  FireInv'
<1>1. Running /\ CalmKinds /\ UNCHANGED scenario /\ Definitions' = Definitions
  BY CalmCases, NextCases, SameDefinitions DEF TypeOK
<1>2. CASE UNCHANGED <<ledgerVars, fired, pending, now>>
  BY <1>1, <1>2 DEF FireInv, Reached, Instant, Audience, ledgerVars
<1>3. CASE Tick
  <2>1. /\ UNCHANGED <<seen, duplicates, invalid, missed, fired, pending>>
        /\ now' = now + 1 /\ now \in Nat
        /\ pending = {} \/ scenario = "outage"
    BY <1>3, TickStep DEF ledgerVars, brokerVars
  <2>2. Instant' = Instant /\ Audience' = Audience /\ Instant \in Nat
    BY <1>1 DEF Instant, Audience, Due, Again
  <2> QED
    BY <1>1, <2>1, <2>2 DEF FireInv, Reached
<1> QED
  BY <1>1, <1>2, <1>3, Traffic, FireFires, FireHandled
-----------------------------------------------------------------------------
(* The definitions of a run with a correct broker. *)

(* Definitions are acknowledged as they are made. *)
LEMMA CreatedNext ==
    ASSUME TypeOK, Place, Running', Correct', Regular, StormCleanInv, CreatedInv, Scene
    PROVE  CreatedInv'
<1>0. /\ Running /\ CalmKinds /\ UNCHANGED scenario /\ Correct
      /\ "worker" \in Roles /\ "canceller" \in Roles /\ Subscribers \subseteq Roles
      /\ "worker" \notin Subscribers /\ AnySubscriber \in Subscribers
      /\ pc \in [Roles -> PcNames] /\ Canary \notin Definitions
      /\ Definitions' = Definitions /\ Definitions \subseteq AllDefinitions
      /\ create \in [AllDefinitions -> {"idle", "sent", "acked", "failed"}]
      /\ made \subseteq Definitions /\ left \subseteq AllDefinitions
      /\ scenario \in {"delivery", "outage", "storm"} /\ Ahead \in 1..18
  BY CalmCases, NextCases, SameDefinitions, DefinitionNames, Names, Here
     DEF TypeOK, ClientType, BrokerType, DriverType
<1>1. ASSUME Sees PROVE CreatedInv'
  BY <1>1, <1>0 DEF Sees, World, workerVars, brokerVars, historyVars, CreatedInv, AllCreated
<1>2. ASSUME Moves, StartSubscribers PROVE CreatedInv'
  BY <1>2, <1>0
     DEF StartSubscribers, Start, Starting, workerVars, brokerVars, historyVars, CreatedInv,
         AllCreated
<1>3. ASSUME Moves, StartCreate PROVE CreatedInv'
  <2>1. Head(todo) = "create"
    BY <1>3 DEF StartCreate, Start, At
  <2>2. pc["worker"] = "none" /\ defs = {}
    BY <1>0, <2>1, Here
       DEF TypeOK, DeliveryRow, OutageRow, StormRow, Scene, DeliveryInv, DeliveryRoles,
           DeliveryDefs, OutageInv, OutageRoles, OutageDefs, StormInv, StormRoles, StormDefs
  <2>3. made = {}
    BY <1>0, <2>2 DEF CreatedInv
  <2>4. pc'["worker"] = "creating" /\ UNCHANGED <<create, made, defs, canary>>
    BY <1>3, <1>0 DEF StartCreate, Start, Worker, brokerVars
  <2> QED
    BY <1>0, <2>2, <2>3, <2>4 DEF CreatedInv, AllCreated
<1>4. ASSUME Moves, StartCanceller PROVE CreatedInv'
  BY <1>4, <1>0
     DEF StartCanceller, Start, workerVars, brokerVars, historyVars, CreatedInv, AllCreated
<1>5. ASSUME Moves, StartCleanup PROVE CreatedInv'
  <2>1. Head(todo) = "cleanup"
    BY <1>5 DEF StartCleanup, Start, At
  <2>2. pc["worker"] = "done"
    BY <1>0, <2>1, Here
       DEF TypeOK, DeliveryRow, OutageRow, StormRow, Scene, DeliveryInv, DeliveryRoles,
           OutageInv, OutageRoles
  <2>3. pc'["worker"] = "cleaning" /\ UNCHANGED <<create, made, defs, canary>>
    BY <1>5, <1>0 DEF StartCleanup, Start, Worker, brokerVars
  <2> QED
    BY <1>0, <2>2, <2>3 DEF CreatedInv, AllCreated
<1>6. ASSUME Moves, StartStorm PROVE CreatedInv'
  <2>1. Head(todo) = "startStorm"
    BY <1>6 DEF StartStorm, Start, At
  <2>2. pc["worker"] = "none" /\ defs = {}
    BY <1>0, <2>1, Here
       DEF TypeOK, DeliveryRow, OutageRow, StormRow, Scene, DeliveryInv, DeliveryRoles,
           DeliveryDefs, OutageInv, OutageRoles, OutageDefs, StormInv, StormRoles, StormDefs
  <2>3. made = {}
    BY <1>0, <2>2 DEF CreatedInv
  <2>4. pc'["worker"] = "creating" /\ UNCHANGED <<create, made, defs, canary>>
    BY <1>6, <1>0 DEF StartStorm, Start, brokerVars
  <2> QED
    BY <1>0, <2>2, <2>3, <2>4 DEF CreatedInv, AllCreated
<1>7. ASSUME Moves, StopFitz PROVE CreatedInv'
  BY <1>7, <1>0 DEF StopFitz, workerVars, brokerVars, historyVars, CreatedInv, AllCreated
<1>8. ASSUME Moves, RestartFitz PROVE CreatedInv'
  BY <1>8, <1>0 DEF RestartFitz, workerVars, brokerVars, historyVars, CreatedInv, AllCreated
<1>9. ASSUME Moves, SignalSubscribers("signal") PROVE CreatedInv'
  BY <1>9, <1>0 DEF SignalSubscribers, workerVars, brokerVars, historyVars, CreatedInv, AllCreated
<1>10. ASSUME NEW s \in Subscribers, Stays, Subscribe(s) PROVE CreatedInv'
  BY <1>10, <1>0 DEF Subscribe, Goes, workerVars, brokerVars, historyVars, CreatedInv, AllCreated
<1>11. ASSUME NEW s \in Subscribers, Stays, SubscriberEnds(s) PROVE CreatedInv'
  BY <1>11, <1>0
     DEF SubscriberEnds, Goes, workerVars, brokerVars, historyVars, CreatedInv, AllCreated
<1>12. ASSUME NEW s \in Subscribers, NEW n \in pending, Stays, Handle(s, n) PROVE CreatedInv'
  BY <1>12, <1>0 DEF Handle, workerVars, brokerVars, historyVars, CreatedInv, AllCreated
<1>13. ASSUME NEW d \in Definitions, Stays, SendCreate(d) PROVE CreatedInv'
  BY <1>13, <1>0
     DEF SendCreate, workerVars, brokerVars, historyVars, CreatedInv, AllCreated, Sendable,
         Creating
<1>14. ASSUME NEW d \in Definitions, Stays, Cancel(d) PROVE CreatedInv'
  BY <1>14, <1>0
     DEF Cancel, Goes, Misbehaves, workerVars, brokerVars, historyVars, CreatedInv, AllCreated,
         Correct
<1>15. ASSUME NEW d \in Definitions, Stays, RaceCancel(d) PROVE CreatedInv'
  <2>1. d \in OfKind({"race"}) /\ pc["canceller"] = "running"
    BY <1>15 DEF RaceCancel
  <2>2. scenario = "outage"
    BY <1>0, <2>1, DefinitionKinds DEF TypeOK
  <2>3. pc["worker"] \notin {"none", "creating"}
    BY <1>0, <2>1, <2>2 DEF Scene, OutageInv, OutageRoles
  <2> QED
    BY <1>15, <1>0, <2>3 DEF RaceCancel, CreatedInv, AllCreated
<1>16. ASSUME Stays, CreationDone PROVE CreatedInv'
  <2>1. /\ pc["worker"] = "creating" /\ AllCreated /\ UNCHANGED <<create, made, defs, canary>>
        /\ pc'["worker"] \notin {"none", "creating"}
    BY <1>16, <1>0 DEF CreationDone, Goes, brokerVars
  <2> QED
    BY <1>0, <2>1 DEF CreatedInv, AllCreated
<1>17. ASSUME Stays, VerifyDefinitions PROVE CreatedInv'
  BY <1>17, <1>0
     DEF VerifyDefinitions, Goes, workerVars, brokerVars, historyVars, CreatedInv, AllCreated
<1>18. ASSUME Stays, CleanupDone PROVE CreatedInv'
  BY <1>18, <1>0
     DEF CleanupDone, Goes, workerVars, brokerVars, historyVars, CreatedInv, AllCreated
<1>19. ASSUME Stays, RaceCancelDone PROVE CreatedInv'
  BY <1>19, <1>0
     DEF RaceCancelDone, Goes, workerVars, brokerVars, historyVars, CreatedInv, AllCreated
<1>20. ASSUME Stays, OpenWindow PROVE CreatedInv'
  <2>1. scenario = "storm"
    BY <1>20, <1>0 DEF OpenWindow, Scene, DeliveryInv, DeliveryRoles, OutageInv, OutageRoles
  <2> QED
    BY <1>20, <1>0, <2>1
       DEF OpenWindow, Goes, workerVars, brokerVars, historyVars, CreatedInv, AllCreated
<1>21. ASSUME Stays, CanaryCreates PROVE CreatedInv'
  <2>1. scenario = "storm"
    BY <1>21, <1>0
       DEF CanaryCreates, CreatedInv, Scene, DeliveryInv, DeliveryRoles, OutageInv, OutageRoles
  <2>2. pc["worker"] \notin {"none", "creating"}
    BY <1>21, <1>0, <2>1 DEF CanaryCreates, Scene, StormInv, StormDefs
  <2>3. UNCHANGED <<create, made>> /\ pc'["worker"] \notin {"none", "creating"}
    BY <1>21, <1>0, <2>2 DEF CanaryCreates
  <2> QED
    BY <1>0, <2>1, <2>2, <2>3 DEF CreatedInv, AllCreated
<1>22. ASSUME Stays, CanaryCancels PROVE CreatedInv'
  <2>1. scenario = "storm"
    BY <1>22, <1>0
       DEF CanaryCancels, CreatedInv, Scene, DeliveryInv, DeliveryRoles, OutageInv, OutageRoles
  <2>2. pc["worker"] \notin {"none", "creating"}
    BY <1>22, <1>0, <2>1 DEF CanaryCancels, Scene, StormInv, StormDefs
  <2>3. UNCHANGED <<create, made>> /\ pc'["worker"] \notin {"none", "creating"}
    BY <1>22, <1>0, <2>2 DEF CanaryCancels
  <2> QED
    BY <1>0, <2>1, <2>2, <2>3 DEF CreatedInv, AllCreated
<1>23. ASSUME Stays, WindowCloses PROVE CreatedInv'
  BY <1>23, <1>0
     DEF WindowCloses, Goes, workerVars, brokerVars, historyVars, CreatedInv, AllCreated
<1>24. ASSUME Stays, PostStormCanary PROVE CreatedInv'
  BY <1>24, <1>0
     DEF PostStormCanary, Goes, workerVars, brokerVars, historyVars, CreatedInv, AllCreated
<1>25. ASSUME Stays, StormVerdict PROVE CreatedInv'
  BY <1>25, <1>0
     DEF StormVerdict, Goes, workerVars, brokerVars, historyVars, CreatedInv, AllCreated
<1>26. ASSUME Stays, StormFinally PROVE CreatedInv'
  <2>1. scenario = "storm"
    BY <1>26, <1>0
       DEF StormFinally, CreatedInv, Scene, DeliveryInv, DeliveryRoles, OutageInv, OutageRoles
  <2>2. pc["worker"] \notin {"none", "creating"}
    BY <1>26, <1>0, <2>1 DEF StormFinally, Scene, StormInv, StormDefs
  <2>3. UNCHANGED <<create, made>> /\ pc'["worker"] \notin {"none", "creating"}
    BY <1>26, <1>0, <2>2 DEF StormFinally
  <2> QED
    BY <1>0, <2>1, <2>2, <2>3 DEF CreatedInv, AllCreated
<1>27. ASSUME NEW d \in Definitions, Stays, BrokerCreates(d) PROVE CreatedInv'
  BY <1>27, <1>0 DEF BrokerCreates, workerVars, brokerVars, historyVars, CreatedInv, AllCreated
<1>28. ASSUME NEW d \in Definitions, Stays, Fire(d) PROVE CreatedInv'
  BY <1>28, <1>0 DEF Fire, workerVars, brokerVars, historyVars, CreatedInv, AllCreated
<1>29. ASSUME Stays, Tick PROVE CreatedInv'
  BY <1>29, <1>0 DEF Tick, workerVars, brokerVars, historyVars, CreatedInv, AllCreated
<1> QED
  BY <1>0, <1>1, <1>2, <1>3, <1>4, <1>5, <1>6, <1>7, <1>8, <1>9, <1>10, <1>11, <1>12, <1>13,
     <1>14, <1>15, <1>16, <1>17, <1>18, <1>19, <1>20, <1>21, <1>22, <1>23, <1>24, <1>25, <1>26,
     <1>27, <1>28, <1>29
     DEF CalmKinds, Clients, Broker
-----------------------------------------------------------------------------
(* schedule-delivery. *)

(* What the steps of schedule-delivery leave behind. *)
LEMMA DeliveryNext ==
    ASSUME TypeOK, Place, Running', Correct', Regular, StormCleanInv, CreatedInv, FireInv,
           scenario = "delivery", Scene, DeliveryInv
    PROVE  DeliveryInv'
<1>0. /\ Running /\ CalmKinds /\ UNCHANGED scenario /\ scenario = "delivery"
      /\ "worker" \in Roles /\ "canceller" \in Roles /\ Subscribers \subseteq Roles
      /\ "worker" \notin Subscribers /\ "canceller" \notin Subscribers
      /\ pc \in [Roles -> PcNames] /\ subs \subseteq Subscribers
      /\ Definitions' = Definitions /\ Kept' = Kept
      /\ OfKind({"cancelled"})' = OfKind({"cancelled"})
      /\ Definitions = Kept \cup OfKind({"cancelled"}) /\ Kept \cap OfKind({"cancelled"}) = {}
      /\ now \in 0..LastInstant /\ made \subseteq Definitions
  BY CalmCases, NextCases, SameDefinitions, DefinitionNames, Names
     DEF TypeOK, ClientType, BrokerType, Kept
<1>98. /\ Ahead \in 1..17 /\ DeliveryRow(Ahead, Head(todo)) /\ (MarginAhead <=> Ahead >= 7)
  BY <1>0, Here DEF TypeOK
<1>99. DeliveryRoles /\ DeliveryDefs /\ DeliveryTime
  BY DEF DeliveryInv
<1>1. ASSUME Sees PROVE DeliveryInv'
  <2>1. /\ UNCHANGED <<now, pc, left, defs, subs, up, fired>> /\ Ahead' = Ahead - 1 /\ Passes
        /\ Head(todo) \in Observing
    BY <1>1 DEF Sees, Moves, World, workerVars, brokerVars
  <2>2. Ahead \in {16, 15, 13, 12, 11, 8, 7, 6, 4, 2}
    BY <1>98, <2>1 DEF DeliveryRow, Observing
  <2>7. DeliveryRoles'
    BY <1>0, <1>98, <1>99, <2>1, <2>2 DEF DeliveryRow, DeliveryRoles, Passes, Finished
  <2>8. DeliveryDefs'
    BY <1>0, <1>98, <1>99, <2>1, <2>2 DEF DeliveryRow, DeliveryDefs, DeliveryRoles
  <2>9. DeliveryTime'
    BY <1>0, <1>98, <1>99, <2>1, <2>2 DEF DeliveryRow, DeliveryTime, Passes, Due
  <2> QED
    BY <2>7, <2>8, <2>9 DEF DeliveryInv
<1>2. ASSUME Moves, StartSubscribers PROVE DeliveryInv'
  <2>1. Head(todo) = "startSubscribers"
    BY <1>2 DEF StartSubscribers, Start, At
  <2>2. Ahead = 17 /\ Ahead' = 16
    BY <1>2, <1>98, <2>1 DEF DeliveryRow, Moves
  <2>7. DeliveryRoles'
    BY <1>2, <1>0, <1>99, <2>2
       DEF StartSubscribers, Start, Starting, workerVars, brokerVars, historyVars, DeliveryRoles
  <2>8. DeliveryDefs'
    BY <1>2, <1>0, <1>99, <2>2
       DEF StartSubscribers, Start, Starting, workerVars, brokerVars, historyVars, DeliveryDefs,
           DeliveryRoles, Kept
  <2>9. DeliveryTime'
    BY <1>2, <1>0, <1>99, <2>2
       DEF StartSubscribers, Start, Starting, workerVars, brokerVars, historyVars, DeliveryTime
  <2> QED
    BY <2>7, <2>8, <2>9 DEF DeliveryInv
<1>3. ASSUME Moves, StartCreate PROVE DeliveryInv'
  <2>1. Head(todo) = "create"
    BY <1>3 DEF StartCreate, Start, At
  <2>2. Ahead = 14 /\ Ahead' = 13
    BY <1>3, <1>98, <2>1 DEF DeliveryRow, Moves
  <2>7. DeliveryRoles'
    BY <1>3, <1>0, <1>99, <2>2
       DEF StartCreate, Start, Worker, workerVars, brokerVars, historyVars, DeliveryRoles
  <2>8. DeliveryDefs'
    BY <1>3, <1>0, <1>99, <2>2
       DEF StartCreate, Start, Worker, workerVars, brokerVars, historyVars, DeliveryDefs,
           DeliveryRoles, Kept
  <2>9. DeliveryTime'
    BY <1>3, <1>0, <1>99, <2>2
       DEF StartCreate, Start, Worker, workerVars, brokerVars, historyVars, DeliveryTime
  <2> QED
    BY <2>7, <2>8, <2>9 DEF DeliveryInv
<1>4. ASSUME Moves, StartCanceller PROVE DeliveryInv'
  <2>1. Head(todo) = "startCanceller"
    BY <1>4 DEF StartCanceller, Start, At
  <2> QED
    BY <1>98, <2>1 DEF DeliveryRow
<1>5. ASSUME Moves, StartCleanup PROVE DeliveryInv'
  <2>1. Head(todo) = "cleanup"
    BY <1>5 DEF StartCleanup, Start, At
  <2>2. Ahead = 3 /\ Ahead' = 2
    BY <1>5, <1>98, <2>1 DEF DeliveryRow, Moves
  <2>7. DeliveryRoles'
    BY <1>5, <1>0, <1>99, <2>2
       DEF StartCleanup, Start, Worker, workerVars, brokerVars, historyVars, DeliveryRoles
  <2>8. DeliveryDefs'
    BY <1>5, <1>0, <1>99, <2>2
       DEF StartCleanup, Start, Worker, workerVars, brokerVars, historyVars, DeliveryDefs,
           DeliveryRoles, Kept
  <2>9. DeliveryTime'
    BY <1>5, <1>0, <1>99, <2>2
       DEF StartCleanup, Start, Worker, workerVars, brokerVars, historyVars, DeliveryTime
  <2> QED
    BY <2>7, <2>8, <2>9 DEF DeliveryInv
<1>6. ASSUME Moves, StartStorm PROVE DeliveryInv'
  <2>1. Head(todo) = "startStorm"
    BY <1>6 DEF StartStorm, Start, At
  <2> QED
    BY <1>98, <2>1 DEF DeliveryRow
<1>7. ASSUME Moves, StopFitz PROVE DeliveryInv'
  <2>1. Head(todo) = "stop"
    BY <1>7 DEF StopFitz, At
  <2>2. Ahead = 10 /\ Ahead' = 9
    BY <1>7, <1>98, <2>1 DEF DeliveryRow, Moves
  <2>7. DeliveryRoles'
    BY <1>7, <1>0, <1>99, <2>2 DEF StopFitz, workerVars, brokerVars, historyVars, DeliveryRoles
  <2>8. DeliveryDefs'
    BY <1>7, <1>0, <1>99, <2>2
       DEF StopFitz, workerVars, brokerVars, historyVars, DeliveryDefs, DeliveryRoles, Kept
  <2>9. DeliveryTime'
    BY <1>7, <1>0, <1>99, <2>2 DEF StopFitz, workerVars, brokerVars, historyVars, DeliveryTime
  <2> QED
    BY <2>7, <2>8, <2>9 DEF DeliveryInv
<1>8. ASSUME Moves, RestartFitz PROVE DeliveryInv'
  <2>1. Head(todo) = "start"
    BY <1>8 DEF RestartFitz, At
  <2>2. Ahead = 9 /\ Ahead' = 8
    BY <1>8, <1>98, <2>1 DEF DeliveryRow, Moves
  <2>7. DeliveryRoles'
    BY <1>8, <1>0, <1>99, <2>2 DEF RestartFitz, workerVars, brokerVars, historyVars, DeliveryRoles
  <2>8. DeliveryDefs'
    BY <1>8, <1>0, <1>99, <2>2
       DEF RestartFitz, workerVars, brokerVars, historyVars, DeliveryDefs, DeliveryRoles, Kept
  <2>9. DeliveryTime'
    BY <1>8, <1>0, <1>99, <2>2 DEF RestartFitz, workerVars, brokerVars, historyVars, DeliveryTime
  <2> QED
    BY <2>7, <2>8, <2>9 DEF DeliveryInv
<1>9. ASSUME Moves, SignalSubscribers("signal") PROVE DeliveryInv'
  <2>1. Head(todo) = "signal"
    BY <1>9 DEF SignalSubscribers, At
  <2>2. Ahead = 5 /\ Ahead' = 4
    BY <1>9, <1>98, <2>1 DEF DeliveryRow, Moves
  <2>7. DeliveryRoles'
    BY <1>9, <1>0, <1>99, <2>2
       DEF SignalSubscribers, workerVars, brokerVars, historyVars, DeliveryRoles
  <2>8. DeliveryDefs'
    BY <1>9, <1>0, <1>99, <2>2
       DEF SignalSubscribers, workerVars, brokerVars, historyVars, DeliveryDefs, DeliveryRoles,
           Kept
  <2>9. DeliveryTime'
    BY <1>9, <1>0, <1>99, <2>2
       DEF SignalSubscribers, workerVars, brokerVars, historyVars, DeliveryTime
  <2> QED
    BY <2>7, <2>8, <2>9 DEF DeliveryInv
<1>10. ASSUME NEW s \in Subscribers, Stays, Subscribe(s) PROVE DeliveryInv'
  <2>7. DeliveryRoles'
    BY <1>10, <1>0, <1>98, <1>99
       DEF Subscribe, Goes, workerVars, brokerVars, historyVars, Stays, DeliveryRoles
  <2>8. DeliveryDefs'
    BY <1>10, <1>0, <1>98, <1>99
       DEF Subscribe, Goes, workerVars, brokerVars, historyVars, Stays, DeliveryDefs
  <2>9. DeliveryTime'
    BY <1>10, <1>0, <1>98, <1>99
       DEF Subscribe, Goes, workerVars, brokerVars, historyVars, Stays, DeliveryTime,
           DeliveryRoles
  <2> QED
    BY <2>7, <2>8, <2>9 DEF DeliveryInv
<1>11. ASSUME NEW s \in Subscribers, Stays, SubscriberEnds(s) PROVE DeliveryInv'
  <2>1. pc' = [pc EXCEPT ![s] = "done"] /\ pc[s] = "stopping"
    BY <1>11 DEF SubscriberEnds, Goes, Correct
  <2>2. UNCHANGED <<now, left, defs, subs, up, fired>> /\ Ahead' = Ahead
    BY <1>11 DEF SubscriberEnds, Stays, workerVars, brokerVars
  <2>7. DeliveryRoles'
    BY <1>0, <1>98, <1>99, <2>1, <2>2 DEF DeliveryRoles
  <2>8. DeliveryDefs'
    BY <1>0, <1>98, <1>99, <2>1, <2>2 DEF DeliveryDefs
  <2>9. DeliveryTime'
    BY <1>0, <1>98, <1>99, <2>1, <2>2 DEF DeliveryTime
  <2> QED
    BY <2>7, <2>8, <2>9 DEF DeliveryInv
<1>12. ASSUME NEW s \in Subscribers, NEW n \in pending, Stays, Handle(s, n) PROVE DeliveryInv'
  <2>7. DeliveryRoles'
    BY <1>12, <1>0, <1>98, <1>99 DEF Handle, workerVars, Stays, DeliveryRoles
  <2>8. DeliveryDefs'
    BY <1>12, <1>0, <1>98, <1>99 DEF Handle, workerVars, Stays, DeliveryDefs
  <2>9. DeliveryTime'
    BY <1>12, <1>0, <1>98, <1>99 DEF Handle, workerVars, Stays, DeliveryTime
  <2> QED
    BY <2>7, <2>8, <2>9 DEF DeliveryInv
<1>13. ASSUME NEW d \in Definitions, Stays, SendCreate(d) PROVE DeliveryInv'
  <2>7. DeliveryRoles'
    BY <1>13, <1>0, <1>98, <1>99
       DEF SendCreate, workerVars, brokerVars, historyVars, Stays, DeliveryRoles
  <2>8. DeliveryDefs'
    BY <1>13, <1>0, <1>98, <1>99
       DEF SendCreate, workerVars, brokerVars, historyVars, Stays, DeliveryDefs
  <2>9. DeliveryTime'
    BY <1>13, <1>0, <1>98, <1>99
       DEF SendCreate, workerVars, brokerVars, historyVars, Stays, DeliveryTime
  <2> QED
    BY <2>7, <2>8, <2>9 DEF DeliveryInv
<1>14. ASSUME NEW d \in Definitions, Stays, Cancel(d) PROVE DeliveryInv'
  <2>1. pc["worker"] \in {"cancelling", "cleaning"} /\ d \in left /\ d \in defs
    BY <1>14, <1>0, <1>98, <1>99 DEF Cancel, DeliveryRoles, DeliveryDefs
  <2>2. /\ left' = left \ {d} /\ defs' = defs \ {d} /\ Ahead' = Ahead
        /\ UNCHANGED <<now, pc, subs, up, fired>>
    BY <1>14, <2>1 DEF Cancel, Misbehaves, Correct, Stays
  <2>7. DeliveryRoles'
    BY <1>0, <1>98, <1>99, <2>1, <2>2 DEF DeliveryRoles
  <2>8. DeliveryDefs'
    BY <1>0, <1>98, <1>99, <2>1, <2>2 DEF DeliveryDefs
  <2>9. DeliveryTime'
    BY <1>0, <1>98, <1>99, <2>1, <2>2 DEF DeliveryTime
  <2> QED
    BY <2>7, <2>8, <2>9 DEF DeliveryInv
<1>15. ASSUME NEW d \in Definitions, Stays, RaceCancel(d) PROVE DeliveryInv'
  <2>1. d \in OfKind({"race"})
    BY <1>15 DEF RaceCancel
  <2> QED
    BY <1>0, <2>1, DefinitionKinds DEF TypeOK
<1>16. ASSUME Stays, CreationDone PROVE DeliveryInv'
  <2>1. /\ pc["worker"] = "creating" /\ pc' = [pc EXCEPT !["worker"] = "cancelling"] /\ AllCreated
        /\ left' = OfKind({"cancelled"}) /\ Ahead' = Ahead
        /\ UNCHANGED <<now, defs, subs, up, fired>>
    BY <1>16, <1>0 DEF CreationDone, Goes, Stays, brokerVars
  <2>2. defs = Definitions
    BY <1>0, <2>1 DEF CreatedInv, AllCreated
  <2>7. DeliveryRoles'
    BY <1>0, <1>98, <1>99, <2>1, <2>2 DEF DeliveryRoles
  <2>8. DeliveryDefs'
    BY <1>0, <1>98, <1>99, <2>1, <2>2 DEF DeliveryDefs
  <2>9. DeliveryTime'
    BY <1>0, <1>98, <1>99, <2>1, <2>2 DEF DeliveryTime
  <2> QED
    BY <2>7, <2>8, <2>9 DEF DeliveryInv
<1>17. ASSUME Stays, VerifyDefinitions PROVE DeliveryInv'
  <2>1. pc["worker"] \in {"cancelling", "cleaning"} /\ left = {}
    BY <1>17 DEF VerifyDefinitions
  <2>2. defs = IF pc["worker"] = "cancelling" THEN OfKind({"broadcast", "single"}) ELSE {}
    BY <1>99, <2>1 DEF DeliveryDefs, Kept
  <2>3. /\ pc' = [pc EXCEPT !["worker"] = "done"] /\ Ahead' = Ahead
        /\ UNCHANGED <<now, left, defs, subs, up, fired>>
    BY <1>17, <2>2 DEF VerifyDefinitions, Goes, Stays, workerVars, brokerVars
  <2>7. DeliveryRoles'
    BY <1>0, <1>98, <1>99, <2>1, <2>2, <2>3 DEF DeliveryRoles
  <2>8. DeliveryDefs'
    BY <1>0, <1>98, <1>99, <2>1, <2>2, <2>3 DEF DeliveryDefs, DeliveryRoles, Kept
  <2>9. DeliveryTime'
    BY <1>0, <1>98, <1>99, <2>1, <2>2, <2>3 DEF DeliveryTime
  <2> QED
    BY <2>7, <2>8, <2>9 DEF DeliveryInv
<1>18. ASSUME Stays, CleanupDone PROVE DeliveryInv'
  BY <1>18, <1>0 DEF CleanupDone
<1>19. ASSUME Stays, RaceCancelDone PROVE DeliveryInv'
  <2>7. DeliveryRoles'
    BY <1>19, <1>0, <1>98, <1>99
       DEF RaceCancelDone, Goes, workerVars, brokerVars, historyVars, Stays, DeliveryRoles
  <2>8. DeliveryDefs'
    BY <1>19, <1>0, <1>98, <1>99
       DEF RaceCancelDone, Goes, workerVars, brokerVars, historyVars, Stays, DeliveryDefs
  <2>9. DeliveryTime'
    BY <1>19, <1>0, <1>98, <1>99
       DEF RaceCancelDone, Goes, workerVars, brokerVars, historyVars, Stays, DeliveryTime
  <2> QED
    BY <2>7, <2>8, <2>9 DEF DeliveryInv
<1>20. ASSUME Stays, OpenWindow PROVE DeliveryInv'
  BY <1>20, <1>0, <1>98, <1>99 DEF OpenWindow, DeliveryRoles
<1>21. ASSUME Stays, CanaryCreates PROVE DeliveryInv'
  BY <1>21, <1>0 DEF CanaryCreates, CreatedInv
<1>22. ASSUME Stays, CanaryCancels PROVE DeliveryInv'
  BY <1>22, <1>0 DEF CanaryCancels, CreatedInv
<1>23. ASSUME Stays, WindowCloses PROVE DeliveryInv'
  BY <1>23, <1>0, <1>98, <1>99 DEF WindowCloses, DeliveryRoles
<1>24. ASSUME Stays, PostStormCanary PROVE DeliveryInv'
  BY <1>24, <1>0, <1>98, <1>99 DEF PostStormCanary, DeliveryRoles
<1>25. ASSUME Stays, StormVerdict PROVE DeliveryInv'
  BY <1>25, <1>0, <1>98, <1>99 DEF StormVerdict, DeliveryRoles
<1>26. ASSUME Stays, StormFinally PROVE DeliveryInv'
  BY <1>26, <1>0, <1>98, <1>99 DEF StormFinally, DeliveryRoles
<1>27. ASSUME NEW d \in Definitions, Stays, BrokerCreates(d) PROVE DeliveryInv'
  <2>1. pc["worker"] = "creating"
    BY <1>27, <1>0 DEF BrokerCreates, CreatedInv, AllCreated
  <2>7. DeliveryRoles'
    BY <1>27, <1>0, <1>98, <1>99, <2>1
       DEF BrokerCreates, workerVars, brokerVars, historyVars, Stays, DeliveryRoles
  <2>8. DeliveryDefs'
    BY <1>27, <1>0, <1>98, <1>99, <2>1
       DEF BrokerCreates, workerVars, brokerVars, historyVars, Stays, DeliveryDefs
  <2>9. DeliveryTime'
    BY <1>27, <1>0, <1>98, <1>99, <2>1
       DEF BrokerCreates, workerVars, brokerVars, historyVars, Stays, DeliveryTime
  <2> QED
    BY <2>7, <2>8, <2>9 DEF DeliveryInv
<1>28. ASSUME NEW d \in Definitions, Stays, Fire(d) PROVE DeliveryInv'
  <2>1. Ahead = 6 /\ d \in defs /\ fired' = fired \cup {<<d, now>>} /\ Ahead' = Ahead
    BY <1>28, <1>0, InPlace DEF Fire, IsDue, Stays
  <2>2. d \notin OfKind({"cancelled"}) /\ UNCHANGED <<now, pc, left, defs, subs, up>>
    BY <1>28, <1>0, <1>99, <2>1 DEF DeliveryRoles, DeliveryDefs, Fire, workerVars
  <2>7. DeliveryRoles'
    BY <1>0, <1>98, <1>99, <2>1, <2>2 DEF DeliveryRoles
  <2>8. DeliveryDefs'
    BY <1>0, <1>98, <1>99, <2>1, <2>2 DEF DeliveryDefs
  <2>9. DeliveryTime'
    BY <1>0, <1>98, <1>99, <2>1, <2>2 DEF DeliveryTime
  <2> QED
    BY <2>7, <2>8, <2>9 DEF DeliveryInv
<1>29. ASSUME Stays, Tick PROVE DeliveryInv'
  <2>1. /\ UNCHANGED <<pc, workerVars, ledgerVars, brokerVars>> /\ now' = now + 1
        /\ (MarginAhead => now = 0) /\ (\A d \in defs : ~IsDue(d)) /\ Ahead' = Ahead
    BY <1>29, TickStep DEF Stays
  <2>2. ASSUME now = Due, NEW d \in Kept PROVE <<d, Due>> \in fired
    <3>1. Ahead = 6
      BY <1>98, <1>99, <2>2 DEF DeliveryTime, Due
    <3>2. up /\ defs = Kept
      BY <1>0, <1>99, <3>1 DEF DeliveryRoles, DeliveryDefs, DeliveryTime
    <3>3. FireTimes(d) = {Due}
      BY <1>0, DefinitionKinds DEF Kept, FireTimes, WholeMinute, TypeOK
    <3> QED
      BY <2>1, <2>2, <3>2, <3>3 DEF IsDue
  <2>7. DeliveryRoles'
    BY <1>0, <1>98, <1>99, <2>1, <2>2 DEF workerVars, brokerVars, DeliveryRoles
  <2>8. DeliveryDefs'
    BY <1>0, <1>98, <1>99, <2>1, <2>2 DEF workerVars, brokerVars, DeliveryDefs
  <2>9. DeliveryTime'
    BY <1>0, <1>98, <1>99, <2>1, <2>2 DEF workerVars, brokerVars, DeliveryTime, Due
  <2> QED
    BY <2>7, <2>8, <2>9 DEF DeliveryInv
<1> QED
  BY <1>0, <1>1, <1>2, <1>3, <1>4, <1>5, <1>6, <1>7, <1>8, <1>9, <1>10, <1>11, <1>12, <1>13,
     <1>14, <1>15, <1>16, <1>17, <1>18, <1>19, <1>20, <1>21, <1>22, <1>23, <1>24, <1>25, <1>26,
     <1>27, <1>28, <1>29
     DEF CalmKinds, Clients, Broker
-----------------------------------------------------------------------------
(* schedule-outage. *)

(* What the steps of schedule-outage leave behind. *)
LEMMA OutageNext ==
    ASSUME TypeOK, Place, Running', Correct', Regular, StormCleanInv, CreatedInv, FireInv,
           scenario = "outage", Scene, OutageInv
    PROVE  OutageInv'
<1>0. /\ Running /\ CalmKinds /\ UNCHANGED scenario /\ scenario = "outage"
      /\ "worker" \in Roles /\ "canceller" \in Roles /\ Subscribers \subseteq Roles
      /\ "worker" \notin Subscribers /\ "canceller" \notin Subscribers /\ Subscribers # {}
      /\ pc \in [Roles -> PcNames] /\ subs \subseteq Subscribers
      /\ Definitions' = Definitions /\ Repeated' = Repeated /\ Race' = Race
      /\ Definitions = Repeated \cup Race /\ Repeated \cap Race = {}
      /\ now \in 0..LastInstant /\ made \subseteq Definitions
  BY CalmCases, NextCases, SameDefinitions, DefinitionNames, Names, SubscribersAssumption
     DEF TypeOK, ClientType, BrokerType, Repeated, Race
<1>98. /\ Ahead \in 1..18 /\ OutageRow(Ahead, Head(todo)) /\ (MarginAhead <=> Ahead >= 14)
  BY <1>0, Here DEF TypeOK
<1>99. OutageRoles /\ OutageDefs /\ OutageTime
  BY DEF OutageInv
<1>1. ASSUME Sees PROVE OutageInv'
  <2>1. /\ UNCHANGED <<now, pc, left, defs, subs, up, fired, pending>> /\ Ahead' = Ahead - 1
        /\ Passes /\ Head(todo) \in Observing
    BY <1>1 DEF Sees, Moves, World, workerVars, brokerVars
  <2>2. Ahead \in {17, 15, 14, 13, 11, 9, 7, 6, 4, 2}
    BY <1>98, <2>1 DEF OutageRow, Observing
  <2>7. OutageRoles'
    BY <1>0, <1>98, <1>99, <2>1, <2>2 DEF OutageRow, OutageRoles, Passes, Finished, Ended
  <2>8. OutageDefs'
    BY <1>0, <1>98, <1>99, <2>1, <2>2 DEF OutageRow, OutageDefs, OutageRoles
  <2>9. OutageTime'
    BY <1>0, <1>98, <1>99, <2>1, <2>2 DEF OutageRow, OutageTime, Passes, Due, LastInstant
  <2> QED
    BY <2>7, <2>8, <2>9 DEF OutageInv
<1>2. ASSUME Moves, StartSubscribers PROVE OutageInv'
  <2>1. Head(todo) = "startSubscribers"
    BY <1>2 DEF StartSubscribers, Start, At
  <2>2. Ahead = 18 /\ Ahead' = 17
    BY <1>2, <1>98, <2>1 DEF OutageRow, Moves
  <2>7. OutageRoles'
    BY <1>2, <1>0, <1>99, <2>2
       DEF StartSubscribers, Start, Starting, workerVars, brokerVars, historyVars, OutageRoles
  <2>8. OutageDefs'
    BY <1>2, <1>0, <1>99, <2>2
       DEF StartSubscribers, Start, Starting, workerVars, brokerVars, historyVars, OutageDefs,
           OutageRoles, Race
  <2>9. OutageTime'
    BY <1>2, <1>0, <1>99, <2>2
       DEF StartSubscribers, Start, Starting, workerVars, brokerVars, historyVars, OutageTime,
           Again, LastInstant, OutageRoles
  <2> QED
    BY <2>7, <2>8, <2>9 DEF OutageInv
<1>3. ASSUME Moves, StartCreate PROVE OutageInv'
  <2>1. Head(todo) = "create"
    BY <1>3 DEF StartCreate, Start, At
  <2>2. Ahead = 16 /\ Ahead' = 15
    BY <1>3, <1>98, <2>1 DEF OutageRow, Moves
  <2>7. OutageRoles'
    BY <1>3, <1>0, <1>99, <2>2
       DEF StartCreate, Start, Worker, workerVars, brokerVars, historyVars, OutageRoles
  <2>8. OutageDefs'
    BY <1>3, <1>0, <1>99, <2>2
       DEF StartCreate, Start, Worker, workerVars, brokerVars, historyVars, OutageDefs,
           OutageRoles, Race
  <2>9. OutageTime'
    BY <1>3, <1>0, <1>99, <2>2
       DEF StartCreate, Start, Worker, workerVars, brokerVars, historyVars, OutageTime, Again,
           LastInstant, OutageRoles
  <2> QED
    BY <2>7, <2>8, <2>9 DEF OutageInv
<1>4. ASSUME Moves, StartCanceller PROVE OutageInv'
  <2>1. Head(todo) = "startCanceller"
    BY <1>4 DEF StartCanceller, Start, At
  <2>2. Ahead = 8 /\ Ahead' = 7
    BY <1>4, <1>98, <2>1 DEF OutageRow, Moves
  <2>7. OutageRoles'
    BY <1>4, <1>0, <1>99, <2>2
       DEF StartCanceller, Start, workerVars, brokerVars, historyVars, OutageRoles
  <2>8. OutageDefs'
    BY <1>4, <1>0, <1>99, <2>2
       DEF StartCanceller, Start, workerVars, brokerVars, historyVars, OutageDefs, OutageRoles,
           Race
  <2>9. OutageTime'
    BY <1>4, <1>0, <1>99, <2>2
       DEF StartCanceller, Start, workerVars, brokerVars, historyVars, OutageTime, Again,
           LastInstant, OutageRoles
  <2> QED
    BY <2>7, <2>8, <2>9 DEF OutageInv
<1>5. ASSUME Moves, StartCleanup PROVE OutageInv'
  <2>1. Head(todo) = "cleanup"
    BY <1>5 DEF StartCleanup, Start, At
  <2>2. Ahead = 3 /\ Ahead' = 2
    BY <1>5, <1>98, <2>1 DEF OutageRow, Moves
  <2>7. OutageRoles'
    BY <1>5, <1>0, <1>99, <2>2
       DEF StartCleanup, Start, Worker, workerVars, brokerVars, historyVars, OutageRoles
  <2>8. OutageDefs'
    BY <1>5, <1>0, <1>99, <2>2
       DEF StartCleanup, Start, Worker, workerVars, brokerVars, historyVars, OutageDefs,
           OutageRoles, Race
  <2>9. OutageTime'
    BY <1>5, <1>0, <1>99, <2>2
       DEF StartCleanup, Start, Worker, workerVars, brokerVars, historyVars, OutageTime, Again,
           LastInstant, OutageRoles
  <2> QED
    BY <2>7, <2>8, <2>9 DEF OutageInv
<1>6. ASSUME Moves, StartStorm PROVE OutageInv'
  <2>1. Head(todo) = "startStorm"
    BY <1>6 DEF StartStorm, Start, At
  <2> QED
    BY <1>98, <2>1 DEF OutageRow
<1>7. ASSUME Moves, StopFitz PROVE OutageInv'
  <2>1. Head(todo) = "stop"
    BY <1>7 DEF StopFitz, At
  <2>2. Ahead = 12 /\ Ahead' = 11
    BY <1>7, <1>98, <2>1 DEF OutageRow, Moves
  <2>7. OutageRoles'
    BY <1>7, <1>0, <1>99, <2>2 DEF StopFitz, workerVars, brokerVars, historyVars, OutageRoles
  <2>8. OutageDefs'
    BY <1>7, <1>0, <1>99, <2>2
       DEF StopFitz, workerVars, brokerVars, historyVars, OutageDefs, OutageRoles, Race
  <2>9. OutageTime'
    BY <1>7, <1>0, <1>99, <2>2
       DEF StopFitz, workerVars, brokerVars, historyVars, OutageTime, Again, LastInstant,
           OutageRoles
  <2> QED
    BY <2>7, <2>8, <2>9 DEF OutageInv
<1>8. ASSUME Moves, RestartFitz PROVE OutageInv'
  <2>1. Head(todo) = "start"
    BY <1>8 DEF RestartFitz, At
  <2>2. Ahead = 10 /\ Ahead' = 9
    BY <1>8, <1>98, <2>1 DEF OutageRow, Moves
  <2>7. OutageRoles'
    BY <1>8, <1>0, <1>99, <2>2 DEF RestartFitz, workerVars, brokerVars, historyVars, OutageRoles
  <2>8. OutageDefs'
    BY <1>8, <1>0, <1>99, <2>2
       DEF RestartFitz, workerVars, brokerVars, historyVars, OutageDefs, OutageRoles, Race
  <2>9. OutageTime'
    BY <1>8, <1>0, <1>99, <2>2
       DEF RestartFitz, workerVars, brokerVars, historyVars, OutageTime, Again, LastInstant,
           OutageRoles
  <2> QED
    BY <2>7, <2>8, <2>9 DEF OutageInv
<1>9. ASSUME Moves, SignalSubscribers("signal") PROVE OutageInv'
  <2>1. Head(todo) = "signal"
    BY <1>9 DEF SignalSubscribers, At
  <2>2. Ahead = 5 /\ Ahead' = 4
    BY <1>9, <1>98, <2>1 DEF OutageRow, Moves
  <2>7. OutageRoles'
    BY <1>9, <1>0, <1>99, <2>2
       DEF SignalSubscribers, workerVars, brokerVars, historyVars, OutageRoles
  <2>8. OutageDefs'
    BY <1>9, <1>0, <1>99, <2>2
       DEF SignalSubscribers, workerVars, brokerVars, historyVars, OutageDefs, OutageRoles, Race
  <2>9. OutageTime'
    BY <1>9, <1>0, <1>99, <2>2
       DEF SignalSubscribers, workerVars, brokerVars, historyVars, OutageTime, Again, LastInstant,
           OutageRoles
  <2> QED
    BY <2>7, <2>8, <2>9 DEF OutageInv
<1>10. ASSUME NEW s \in Subscribers, Stays, Subscribe(s) PROVE OutageInv'
  <2>7. OutageRoles'
    BY <1>10, <1>0, <1>98, <1>99
       DEF Subscribe, Goes, workerVars, brokerVars, historyVars, Stays, OutageRoles
  <2>8. OutageDefs'
    BY <1>10, <1>0, <1>98, <1>99
       DEF Subscribe, Goes, workerVars, brokerVars, historyVars, Stays, OutageDefs
  <2>9. OutageTime'
    BY <1>10, <1>0, <1>98, <1>99
       DEF Subscribe, Goes, workerVars, brokerVars, historyVars, Stays, OutageTime, OutageRoles
  <2> QED
    BY <2>7, <2>8, <2>9 DEF OutageInv
<1>11. ASSUME NEW s \in Subscribers, Stays, SubscriberEnds(s) PROVE OutageInv'
  <2>1. /\ pc' = [pc EXCEPT ![s] = "done"] /\ pc[s] = "stopping"
        /\ {n \in pending : n[1] = s} = {}
    BY <1>11 DEF SubscriberEnds, Goes, Correct
  <2>2. UNCHANGED <<now, left, defs, subs, up, fired, pending>> /\ Ahead' = Ahead
    BY <1>11 DEF SubscriberEnds, Stays, workerVars, brokerVars
  <2>7. OutageRoles'
    BY <1>0, <1>98, <1>99, <2>1, <2>2 DEF OutageRoles
  <2>8. OutageDefs'
    BY <1>0, <1>98, <1>99, <2>1, <2>2 DEF OutageDefs
  <2>9. OutageTime'
    BY <1>0, <1>98, <1>99, <2>1, <2>2 DEF OutageTime
  <2> QED
    BY <2>7, <2>8, <2>9 DEF OutageInv
<1>12. ASSUME NEW s \in Subscribers, NEW n \in pending, Stays, Handle(s, n) PROVE OutageInv'
  <2>7. OutageRoles'
    BY <1>12, <1>0, <1>98, <1>99 DEF Handle, workerVars, Stays, OutageRoles
  <2>8. OutageDefs'
    BY <1>12, <1>0, <1>98, <1>99 DEF Handle, workerVars, Stays, OutageDefs
  <2>9. OutageTime'
    BY <1>12, <1>0, <1>98, <1>99 DEF Handle, workerVars, Stays, OutageTime
  <2> QED
    BY <2>7, <2>8, <2>9 DEF OutageInv
<1>13. ASSUME NEW d \in Definitions, Stays, SendCreate(d) PROVE OutageInv'
  <2>7. OutageRoles'
    BY <1>13, <1>0, <1>98, <1>99
       DEF SendCreate, workerVars, brokerVars, historyVars, Stays, OutageRoles
  <2>8. OutageDefs'
    BY <1>13, <1>0, <1>98, <1>99
       DEF SendCreate, workerVars, brokerVars, historyVars, Stays, OutageDefs
  <2>9. OutageTime'
    BY <1>13, <1>0, <1>98, <1>99
       DEF SendCreate, workerVars, brokerVars, historyVars, Stays, OutageTime
  <2> QED
    BY <2>7, <2>8, <2>9 DEF OutageInv
<1>14. ASSUME NEW d \in Definitions, Stays, Cancel(d) PROVE OutageInv'
  <2>1. pc["worker"] = "cleaning" /\ d \in left /\ d \in defs /\ Ahead = 2
    BY <1>14, <1>0, <1>98, <1>99 DEF Cancel, OutageRoles, OutageDefs
  <2>2. /\ left' = left \ {d} /\ defs' = defs \ {d} /\ Ahead' = Ahead
        /\ UNCHANGED <<now, pc, subs, up, fired, pending>>
    BY <1>14, <2>1 DEF Cancel, Misbehaves, Correct, Stays
  <2>7. OutageRoles'
    BY <1>0, <1>98, <1>99, <2>1, <2>2 DEF OutageRoles
  <2>8. OutageDefs'
    BY <1>0, <1>98, <1>99, <2>1, <2>2 DEF OutageDefs, OutageRoles
  <2>9. OutageTime'
    BY <1>0, <1>98, <1>99, <2>1, <2>2 DEF OutageTime
  <2> QED
    BY <2>7, <2>8, <2>9 DEF OutageInv
<1>15. ASSUME NEW d \in Definitions, Stays, RaceCancel(d) PROVE OutageInv'
  <2>1. /\ pc["canceller"] = "running" /\ d \in left /\ d \in Race /\ d \in defs
        /\ pc["worker"] = "done" /\ Ahead \in 6..7
    BY <1>15, <1>0, <1>98, <1>99 DEF RaceCancel, OutageRoles, OutageDefs, Race
  <2>2. /\ left' = left \ {d} /\ defs' = defs \ {d} /\ Ahead' = Ahead
        /\ UNCHANGED <<now, pc, subs, up, fired, pending>>
    BY <1>15, <2>1 DEF RaceCancel, Misbehaves, Correct, Stays
  <2>7. OutageRoles'
    BY <1>0, <1>98, <1>99, <2>1, <2>2 DEF OutageRoles
  <2>8. OutageDefs'
    BY <1>0, <1>98, <1>99, <2>1, <2>2 DEF OutageDefs
  <2>9. OutageTime'
    BY <1>0, <1>98, <1>99, <2>1, <2>2 DEF OutageTime
  <2> QED
    BY <2>7, <2>8, <2>9 DEF OutageInv
<1>16. ASSUME Stays, CreationDone PROVE OutageInv'
  <2>1. /\ pc["worker"] = "creating" /\ pc' = [pc EXCEPT !["worker"] = "done"] /\ AllCreated
        /\ Ahead' = Ahead /\ UNCHANGED <<now, left, defs, subs, up, fired, pending>>
    BY <1>16, <1>0 DEF CreationDone, Goes, Stays, brokerVars
  <2>2. defs = Definitions
    BY <1>0, <2>1 DEF CreatedInv, AllCreated
  <2>7. OutageRoles'
    BY <1>0, <1>98, <1>99, <2>1, <2>2 DEF OutageRoles
  <2>8. OutageDefs'
    BY <1>0, <1>98, <1>99, <2>1, <2>2 DEF OutageDefs, OutageRoles
  <2>9. OutageTime'
    BY <1>0, <1>98, <1>99, <2>1, <2>2 DEF OutageTime
  <2> QED
    BY <2>7, <2>8, <2>9 DEF OutageInv
<1>17. ASSUME Stays, VerifyDefinitions PROVE OutageInv'
  BY <1>17, <1>0 DEF VerifyDefinitions
<1>18. ASSUME Stays, CleanupDone PROVE OutageInv'
  <2>1. /\ pc["worker"] = "cleaning" /\ left = {} /\ pc' = [pc EXCEPT !["worker"] = "done"]
        /\ UNCHANGED <<now, left, defs, subs, up, fired, pending>> /\ Ahead' = Ahead
    BY <1>18 DEF CleanupDone, Goes, Stays, workerVars, brokerVars
  <2>7. OutageRoles'
    BY <1>0, <1>98, <1>99, <2>1 DEF OutageRoles
  <2>8. OutageDefs'
    BY <1>0, <1>98, <1>99, <2>1 DEF OutageDefs, OutageRoles
  <2>9. OutageTime'
    BY <1>0, <1>98, <1>99, <2>1 DEF OutageTime
  <2> QED
    BY <2>7, <2>8, <2>9 DEF OutageInv
<1>19. ASSUME Stays, RaceCancelDone PROVE OutageInv'
  <2>1. /\ pc["canceller"] = "running" /\ left = {} /\ pc' = [pc EXCEPT !["canceller"] = "done"]
        /\ UNCHANGED <<now, left, defs, subs, up, fired, pending>> /\ Ahead' = Ahead
    BY <1>19 DEF RaceCancelDone, Goes, Stays, workerVars, brokerVars
  <2>7. OutageRoles'
    BY <1>0, <1>98, <1>99, <2>1 DEF OutageRoles
  <2>8. OutageDefs'
    BY <1>0, <1>98, <1>99, <2>1 DEF OutageDefs, OutageRoles
  <2>9. OutageTime'
    BY <1>0, <1>98, <1>99, <2>1 DEF OutageTime
  <2> QED
    BY <2>7, <2>8, <2>9 DEF OutageInv
<1>20. ASSUME Stays, OpenWindow PROVE OutageInv'
  BY <1>20, <1>0, <1>98, <1>99 DEF OpenWindow, OutageRoles
<1>21. ASSUME Stays, CanaryCreates PROVE OutageInv'
  BY <1>21, <1>0 DEF CanaryCreates, CreatedInv
<1>22. ASSUME Stays, CanaryCancels PROVE OutageInv'
  BY <1>22, <1>0 DEF CanaryCancels, CreatedInv
<1>23. ASSUME Stays, WindowCloses PROVE OutageInv'
  BY <1>23, <1>0, <1>98, <1>99 DEF WindowCloses, OutageRoles
<1>24. ASSUME Stays, PostStormCanary PROVE OutageInv'
  BY <1>24, <1>0, <1>98, <1>99 DEF PostStormCanary, OutageRoles
<1>25. ASSUME Stays, StormVerdict PROVE OutageInv'
  BY <1>25, <1>0, <1>98, <1>99 DEF StormVerdict, OutageRoles
<1>26. ASSUME Stays, StormFinally PROVE OutageInv'
  BY <1>26, <1>0, <1>98, <1>99 DEF StormFinally, OutageRoles
<1>27. ASSUME NEW d \in Definitions, Stays, BrokerCreates(d) PROVE OutageInv'
  <2>1. pc["worker"] = "creating"
    BY <1>27, <1>0 DEF BrokerCreates, CreatedInv, AllCreated
  <2>7. OutageRoles'
    BY <1>27, <1>0, <1>98, <1>99, <2>1 DEF BrokerCreates, Stays, OutageRoles
  <2>8. OutageDefs'
    BY <1>27, <1>0, <1>98, <1>99, <2>1 DEF BrokerCreates, Stays, OutageDefs, OutageRoles
  <2>9. OutageTime'
    BY <1>27, <1>0, <1>98, <1>99, <2>1 DEF BrokerCreates, Stays, OutageTime
  <2> QED
    BY <2>7, <2>8, <2>9 DEF OutageInv
<1>28. ASSUME NEW d \in Definitions, Stays, Fire(d) PROVE OutageInv'
  <2>1. Ahead \in 7..9 /\ fired \subseteq fired' /\ Ahead' = Ahead
        /\ UNCHANGED <<now, pc, left, defs, subs, up>>
    BY <1>28, <1>0, InPlace DEF Fire, IsDue, Stays, workerVars
  <2>7. OutageRoles'
    BY <1>0, <1>98, <1>99, <2>1 DEF OutageRoles
  <2>8. OutageDefs'
    BY <1>0, <1>98, <1>99, <2>1 DEF OutageDefs
  <2>9. OutageTime'
    BY <1>0, <1>98, <1>99, <2>1 DEF OutageTime, OutageRoles
  <2> QED
    BY <2>7, <2>8, <2>9 DEF OutageInv
<1>29. ASSUME Stays, Tick PROVE OutageInv'
  <2>1. /\ UNCHANGED <<pc, workerVars, ledgerVars, brokerVars>> /\ now' = now + 1
        /\ (MarginAhead => now = 0) /\ (\A d \in defs : ~IsDue(d)) /\ Ahead' = Ahead
        /\ now < LastInstant /\ ~Overruns(now + 1)
    BY <1>29, <1>0, TickStep DEF Stays
  <2>2. ASSUME now = Again, NEW d \in Repeated PROVE <<d, Again>> \in fired
    <3>1. Ahead \in 7..9
      BY <1>98, <1>99, <2>2 DEF OutageTime, Again, LastInstant
    <3>2. up /\ d \in defs
      BY <1>0, <1>99, <3>1 DEF OutageRoles, OutageDefs, OutageTime
    <3>3. FireTimes(d) = {Due, Again}
      BY <1>0, DefinitionKinds DEF Repeated, FireTimes, ConsecutiveMinutes, TypeOK
    <3> QED
      BY <2>1, <2>2, <3>2, <3>3 DEF IsDue
  <2>3. ASSUME now + 1 = Due, Ahead < 14 PROVE ~up
    BY <1>0, <1>98, <2>1, <2>3 DEF Overruns
  <2>4. ASSUME now + 1 = Again, Ahead < 14 PROVE subs = Subscribers
    BY <1>0, <1>98, <2>1, <2>4 DEF Overruns
  <2>7. OutageRoles'
    BY <1>0, <1>98, <1>99, <2>1, <2>2, <2>3, <2>4 DEF workerVars, brokerVars, OutageRoles
  <2>8. OutageDefs'
    BY <1>0, <1>98, <1>99, <2>1, <2>2, <2>3, <2>4 DEF workerVars, brokerVars, OutageDefs
  <2>9. OutageTime'
    BY <1>0, <1>98, <1>99, <2>1, <2>2, <2>3, <2>4
       DEF workerVars, brokerVars, OutageTime, Due, Again, LastInstant
  <2> QED
    BY <2>7, <2>8, <2>9 DEF OutageInv
<1> QED
  BY <1>0, <1>1, <1>2, <1>3, <1>4, <1>5, <1>6, <1>7, <1>8, <1>9, <1>10, <1>11, <1>12, <1>13,
     <1>14, <1>15, <1>16, <1>17, <1>18, <1>19, <1>20, <1>21, <1>22, <1>23, <1>24, <1>25, <1>26,
     <1>27, <1>28, <1>29
     DEF CalmKinds, Clients, Broker
-----------------------------------------------------------------------------
(* schedule-due-storm-isolation. *)

(* What the steps of the storm leave behind. *)
LEMMA StormNext ==
    ASSUME TypeOK, Place, Running', Correct', Regular, StormCleanInv, CreatedInv, FireInv,
           scenario = "storm", Scene, StormInv
    PROVE  StormInv'
<1>0. /\ Running /\ CalmKinds /\ UNCHANGED scenario /\ scenario = "storm"
      /\ "worker" \in Roles /\ "canceller" \in Roles /\ Subscribers \subseteq Roles
      /\ "worker" \notin Subscribers /\ "canceller" \notin Subscribers
      /\ AnySubscriber \in Subscribers
      /\ pc \in [Roles -> PcNames] /\ subs \subseteq Subscribers
      /\ Definitions' = Definitions /\ Canary \notin Definitions
      /\ AllDefinitions = Definitions \cup {Canary} /\ Definitions \subseteq AllDefinitions
      /\ create \in [AllDefinitions -> {"idle", "sent", "acked", "failed"}]
      /\ now \in 0..LastInstant /\ made \subseteq Definitions /\ defs \subseteq AllDefinitions
      /\ seen \in [Subscribers -> SUBSET Definitions]
  BY CalmCases, NextCases, SameDefinitions, DefinitionNames, Names
     DEF TypeOK, ClientType, BrokerType, LedgerType
<1>98. Ahead \in 1..5 /\ StormRow(Ahead, Head(todo))
  BY <1>0, Here DEF TypeOK
<1>99. StormRoles /\ StormDefs /\ StormTime
  BY DEF StormInv
<1>1. ASSUME Sees PROVE StormInv'
  <2>1. /\ UNCHANGED <<now, pc, create, left, cancelled, canary, evidence, seen, up, defs, subs,
                      fired>>
        /\ Ahead' = Ahead - 1 /\ Passes /\ Head(todo) \in Observing
    BY <1>1 DEF Sees, Moves, World, workerVars, ledgerVars, brokerVars
  <2>2. Ahead \in {2, 3, 4} /\ (Ahead = 2 => pc["worker"] = "done")
    BY <1>98, <2>1 DEF StormRow, Observing, Passes, Finished
  <2>7. StormRoles'
    BY <1>0, <1>98, <1>99, <2>1, <2>2 DEF StormRoles
  <2>8. StormDefs'
    BY <1>0, <1>98, <1>99, <2>1, <2>2 DEF StormDefs
  <2>9. StormTime'
    BY <1>0, <1>98, <1>99, <2>1, <2>2 DEF StormTime, AllSeen
  <2> QED
    BY <2>7, <2>8, <2>9 DEF StormInv
<1>2. ASSUME Moves, StartSubscribers PROVE StormInv'
  <2>1. Head(todo) = "startSubscribers"
    BY <1>2 DEF StartSubscribers, Start, At
  <2> QED
    BY <1>98, <2>1 DEF StormRow
<1>3. ASSUME Moves, StartCreate PROVE StormInv'
  <2>1. Head(todo) = "create"
    BY <1>3 DEF StartCreate, Start, At
  <2> QED
    BY <1>98, <2>1 DEF StormRow
<1>4. ASSUME Moves, StartCanceller PROVE StormInv'
  <2>1. Head(todo) = "startCanceller"
    BY <1>4 DEF StartCanceller, Start, At
  <2> QED
    BY <1>98, <2>1 DEF StormRow
<1>5. ASSUME Moves, StartCleanup PROVE StormInv'
  <2>1. Head(todo) = "cleanup"
    BY <1>5 DEF StartCleanup, Start, At
  <2> QED
    BY <1>98, <2>1 DEF StormRow
<1>6. ASSUME Moves, StartStorm PROVE StormInv'
  <2>1. Head(todo) = "startStorm"
    BY <1>6 DEF StartStorm, Start, At
  <2>2. Ahead = 5 /\ Ahead' = 4 /\ \A q \in Roles : pc[q] = "none"
    BY <1>6, <1>98, <1>99, <2>1 DEF StormRow, Moves, StormRoles
  <2>3. /\ pc'["worker"] = "creating" /\ pc'[AnySubscriber] = "ready"
        /\ \A s \in Subscribers \ {AnySubscriber} : pc'[s] = "none"
        /\ UNCHANGED <<now, create, cancelled, canary, evidence, seen, up, defs, subs, fired>>
    BY <1>6, <1>0, <2>2 DEF StartStorm, Start, ledgerVars, brokerVars
  <2>4. \A d \in Definitions : create[d] = "idle"
    BY <1>0, <2>2 DEF CreatedInv
  <2>5. /\ pc["worker"] = "none" /\ defs = {} /\ cancelled = {} /\ canary = "off"
        /\ evidence = "none" /\ subs \subseteq {AnySubscriber}
    BY <1>0, <1>99, <2>2 DEF StormDefs, StormTime
  <2>7. StormRoles'
    BY <1>0, <1>99, <2>2, <2>3, <2>4 DEF StormRoles
  <2>8. StormDefs'
    BY <1>0, <2>3, <2>4, <2>5 DEF StormDefs
  <2>9. StormTime'
    BY <1>0, <1>99, <2>2, <2>3, <2>4 DEF StormTime, AllSeen
  <2> QED
    BY <2>7, <2>8, <2>9 DEF StormInv
<1>7. ASSUME Moves, StopFitz PROVE StormInv'
  <2>1. Head(todo) = "stop"
    BY <1>7 DEF StopFitz, At
  <2> QED
    BY <1>98, <2>1 DEF StormRow
<1>8. ASSUME Moves, RestartFitz PROVE StormInv'
  <2>1. Head(todo) = "start"
    BY <1>8 DEF RestartFitz, At
  <2> QED
    BY <1>98, <2>1 DEF StormRow
<1>9. ASSUME Moves, SignalSubscribers("signal") PROVE StormInv'
  <2>1. Head(todo) = "signal"
    BY <1>9 DEF SignalSubscribers, At
  <2> QED
    BY <1>98, <2>1 DEF StormRow
<1>10. ASSUME NEW s \in Subscribers, Stays, Subscribe(s) PROVE StormInv'
  <2>1. /\ s = AnySubscriber /\ pc[s] = "ready"
    BY <1>10, <1>0, <1>98, <1>99 DEF Subscribe, StormRoles
  <2>2. /\ subs' = subs \cup {AnySubscriber} /\ pc' = pc /\ Ahead' = Ahead
        /\ UNCHANGED <<now, create, left, cancelled, canary, evidence, seen, up, defs, fired>>
    BY <1>10, <1>0, <2>1 DEF Subscribe, Goes, Stays, workerVars, ledgerVars
  <2>7. StormRoles'
    BY <1>0, <1>98, <1>99, <2>1, <2>2 DEF StormRoles
  <2>8. StormDefs'
    BY <1>0, <1>98, <1>99, <2>1, <2>2 DEF StormDefs, StormRoles
  <2>9. StormTime'
    BY <1>0, <1>98, <1>99, <2>1, <2>2 DEF StormTime, AllSeen
  <2> QED
    BY <2>7, <2>8, <2>9 DEF StormInv
<1>11. ASSUME NEW s \in Subscribers, Stays, SubscriberEnds(s) PROVE StormInv'
  BY <1>11, <1>0, <1>98, <1>99 DEF SubscriberEnds, StormRoles
<1>12. ASSUME NEW s \in Subscribers, NEW n \in pending, Stays, Handle(s, n) PROVE StormInv'
  <2>1. /\ AllSeen => AllSeen'
    <3>1. n[2] \in Definitions
      BY Notification
    <3>2. seen' = seen \/ seen' = [seen EXCEPT ![s] = @ \cup {n[2]}]
      BY <1>12, Zenon DEF Handle
    <3>0. Definitions' = Definitions
      BY <1>0
    <3>3. CASE seen' = seen
      BY <3>0, <3>3 DEF AllSeen
    <3>4. CASE seen' = [seen EXCEPT ![s] = @ \cup {n[2]}]
      <4>1. seen[AnySubscriber] \subseteq Definitions
        BY <1>0
      <4>2. seen'[AnySubscriber] \in {seen[AnySubscriber], seen[AnySubscriber] \cup {n[2]}}
        BY <1>0, <3>4
      <4> QED
        BY <3>0, <3>1, <4>1, <4>2 DEF AllSeen
    <3> QED
      BY <3>2, <3>3, <3>4
  <2>2. /\ UNCHANGED <<now, pc, create, left, cancelled, canary, evidence, up, defs, subs, fired>>
        /\ Ahead' = Ahead
    BY <1>12 DEF Handle, Stays, workerVars
  <2>7. StormRoles'
    BY <1>0, <1>98, <1>99, <2>1, <2>2 DEF StormRoles
  <2>8. StormDefs'
    BY <1>0, <1>98, <1>99, <2>1, <2>2 DEF StormDefs
  <2>9. StormTime'
    BY <1>0, <1>98, <1>99, <2>1, <2>2 DEF StormTime
  <2> QED
    BY <2>7, <2>8, <2>9 DEF StormInv
<1>13. ASSUME NEW d \in Definitions, Stays, SendCreate(d) PROVE StormInv'
  <2>1. /\ AnySubscriber \in subs /\ pc["worker"] = "creating" /\ Ahead' = Ahead
        /\ UNCHANGED <<now, pc, left, cancelled, canary, evidence, seen, up, defs, subs, fired>>
    BY <1>13, <1>0, <1>98, <1>99
       DEF SendCreate, Creating, StormRoles, Stays, ledgerVars, brokerVars
  <2>7. StormRoles'
    BY <1>0, <1>98, <1>99, <2>1 DEF StormRoles
  <2>8. StormDefs'
    BY <1>0, <1>98, <1>99, <2>1 DEF StormDefs
  <2>9. StormTime'
    BY <1>0, <1>98, <1>99, <2>1 DEF StormTime, AllSeen
  <2> QED
    BY <2>7, <2>8, <2>9 DEF StormInv
<1>14. ASSUME NEW d \in Definitions, Stays, Cancel(d) PROVE StormInv'
  <2>1. pc["worker"] = "cancelStorm" /\ d \in left /\ d \in defs
    BY <1>14, <1>0, <1>98, <1>99 DEF Cancel, StormRoles, StormDefs
  <2>2. /\ left' = left \ {d} /\ defs' = defs \ {d} /\ cancelled' = cancelled \cup {d}
        /\ Ahead' = Ahead /\ UNCHANGED <<now, pc, create, canary, evidence, seen, up, subs, fired>>
    BY <1>14, <2>1 DEF Cancel, Misbehaves, Correct, Stays, ledgerVars
  <2>7. StormRoles'
    BY <1>0, <1>98, <1>99, <2>1, <2>2 DEF StormRoles
  <2>8. StormDefs'
    BY <1>0, <1>98, <1>99, <2>1, <2>2 DEF StormDefs
  <2>9. StormTime'
    BY <1>0, <1>98, <1>99, <2>1, <2>2 DEF StormTime, AllSeen
  <2> QED
    BY <2>7, <2>8, <2>9 DEF StormInv
<1>15. ASSUME NEW d \in Definitions, Stays, RaceCancel(d) PROVE StormInv'
  <2>1. d \in OfKind({"race"})
    BY <1>15 DEF RaceCancel
  <2> QED
    BY <1>0, <2>1, DefinitionKinds DEF TypeOK
<1>16. ASSUME Stays, CreationDone PROVE StormInv'
  <2>1. /\ pc["worker"] = "creating" /\ AllCreated /\ now < Due
        /\ Ahead' = Ahead
        /\ UNCHANGED <<now, create, cancelled, canary, evidence, seen, up, defs, subs, fired>>
    <3>1. overran' = (overran \/ (scenario = "storm" /\ now >= Due)) /\ ~overran'
      BY <1>16, Zenon DEF CreationDone, Correct
    <3>2. ~(now >= Due)
      BY <1>0, <3>1, Zenon
    <3> QED
      BY <1>16, <1>0, <3>2 DEF CreationDone, Stays, ledgerVars, brokerVars, Due
  <2>2. pc' = [pc EXCEPT !["worker"] = "armed"]
    BY <1>16, <1>0, <2>1 DEF CreationDone, Goes
  <2>3. defs = Definitions
    BY <1>0, <2>1 DEF CreatedInv, AllCreated
  <2>7. StormRoles'
    BY <1>0, <1>98, <1>99, <2>1, <2>2, <2>3 DEF StormRoles
  <2>8. StormDefs'
    BY <1>0, <1>98, <1>99, <2>1, <2>2, <2>3 DEF StormDefs
  <2>9. StormTime'
    BY <1>0, <1>98, <1>99, <2>1, <2>2, <2>3 DEF StormTime, AllSeen, Due
  <2> QED
    BY <2>7, <2>8, <2>9 DEF StormInv
<1>17. ASSUME Stays, VerifyDefinitions PROVE StormInv'
  BY <1>17, <1>0 DEF VerifyDefinitions
<1>18. ASSUME Stays, CleanupDone PROVE StormInv'
  BY <1>18, <1>0 DEF CleanupDone
<1>19. ASSUME Stays, RaceCancelDone PROVE StormInv'
  <2>1. /\ pc["canceller"] = "running" /\ pc' = [pc EXCEPT !["canceller"] = "done"]
        /\ Ahead' = Ahead
        /\ UNCHANGED <<now, create, left, cancelled, canary, evidence, seen, up, defs, subs, fired>>
    BY <1>19 DEF RaceCancelDone, Goes, Stays, workerVars, ledgerVars, brokerVars
  <2>7. StormRoles'
    BY <1>0, <1>98, <1>99, <2>1 DEF StormRoles
  <2>8. StormDefs'
    BY <1>0, <1>98, <1>99, <2>1 DEF StormDefs
  <2>9. StormTime'
    BY <1>0, <1>98, <1>99, <2>1 DEF StormTime, AllSeen
  <2> QED
    BY <2>7, <2>8, <2>9 DEF StormInv
<1>20. ASSUME Stays, OpenWindow PROVE StormInv'
  <2>1. pc["worker"] = "armed" /\ now <= Due /\ now >= 1
    <3>1. overran' = (overran \/ now > Due) /\ ~overran'
      BY <1>20, Zenon DEF OpenWindow, Correct
    <3>2. ~(now > Due)
      BY <3>1, Zenon
    <3> QED
      BY <1>20, <1>0, <3>2 DEF OpenWindow, Due
  <2>2. /\ pc' = [pc EXCEPT !["worker"] = "window"] /\ canary' = "create" /\ evidence' = "clean"
        /\ Ahead' = Ahead
        /\ UNCHANGED <<now, create, left, cancelled, seen, up, defs, subs, fired>>
    BY <1>20, <2>1 DEF OpenWindow, Goes, Stays, ledgerVars, brokerVars
  <2>7. StormRoles'
    BY <1>0, <1>98, <1>99, <2>1, <2>2 DEF StormRoles
  <2>8. StormDefs'
    BY <1>0, <1>98, <1>99, <2>1, <2>2 DEF StormDefs
  <2>9. StormTime'
    BY <1>0, <1>98, <1>99, <2>1, <2>2 DEF StormTime, AllSeen
  <2> QED
    BY <2>7, <2>8, <2>9 DEF StormInv
<1>21. ASSUME Stays, CanaryCreates PROVE StormInv'
  <2>1. pc["worker"] = "window"
    BY <1>21, <1>0, <1>98, <1>99 DEF CanaryCreates, StormRoles, StormDefs
  <2>2. /\ Ahead' = Ahead
        /\ UNCHANGED <<now, pc, create, left, cancelled, evidence, seen, up, subs, fired>>
    BY <1>21 DEF CanaryCreates, Stays, ledgerVars
  <2>7. StormRoles'
    BY <1>21, <1>0, <1>98, <1>99, <2>1, <2>2 DEF StormRoles
  <2>8. StormDefs'
    BY <1>21, <1>0, <1>98, <1>99, <2>1, <2>2 DEF StormDefs, CanaryCreates
  <2>9. StormTime'
    BY <1>21, <1>0, <1>98, <1>99, <2>1, <2>2 DEF StormTime, AllSeen
  <2> QED
    BY <2>7, <2>8, <2>9 DEF StormInv
<1>22. ASSUME Stays, CanaryCancels PROVE StormInv'
  <2>1. pc["worker"] = "window"
    BY <1>22, <1>0, <1>98, <1>99 DEF CanaryCancels, StormRoles, StormDefs
  <2>2. /\ Ahead' = Ahead
        /\ UNCHANGED <<now, pc, create, left, cancelled, evidence, seen, up, subs, fired>>
    BY <1>22 DEF CanaryCancels, Stays, ledgerVars
  <2>7. StormRoles'
    BY <1>22, <1>0, <1>98, <1>99, <2>1, <2>2 DEF StormRoles
  <2>8. StormDefs'
    BY <1>22, <1>0, <1>98, <1>99, <2>1, <2>2 DEF StormDefs, CanaryCancels
  <2>9. StormTime'
    BY <1>22, <1>0, <1>98, <1>99, <2>1, <2>2 DEF StormTime, AllSeen
  <2> QED
    BY <2>7, <2>8, <2>9 DEF StormInv
<1>23. ASSUME Stays, WindowCloses PROVE StormInv'
  <2>1. pc["worker"] = "window" /\ now > Due
    BY <1>23 DEF WindowCloses
  <2>2. AllSeen
    <3>1. \A d \in Definitions : <<d, Due>> \in fired
      BY <1>99, <2>1 DEF StormTime
    <3>2. pending = {}
      BY <1>0, <2>1 DEF FireInv, Due
    <3>3. ASSUME NEW d \in Definitions PROVE d \in seen[AnySubscriber]
      <4>1. Broadcast(d)
        BY <1>0, DefinitionKinds DEF Broadcast, TypeOK
      <4>2. Instant = Due /\ Audience = {AnySubscriber}
        BY <1>0 DEF Instant, Audience
      <4>3. Reached(AnySubscriber, d)
        BY <3>1, <4>1, <4>2 DEF FireInv
      <4> QED
        BY <3>2, <4>3 DEF Reached
    <3> QED
      BY <1>0, <3>3 DEF AllSeen
  <2>3. /\ pc' = [pc EXCEPT !["worker"] = "post"] /\ canary = "stopped" /\ Ahead' = Ahead
        /\ UNCHANGED <<now, create, left, cancelled, canary, evidence, seen, up, defs, subs, fired>>
    BY <1>23, <2>2 DEF WindowCloses, Goes, Stays, ledgerVars, brokerVars
  <2>7. StormRoles'
    BY <1>0, <1>98, <1>99, <2>1, <2>2, <2>3 DEF StormRoles
  <2>8. StormDefs'
    BY <1>0, <1>98, <1>99, <2>1, <2>2, <2>3 DEF StormDefs
  <2>9. StormTime'
    BY <1>0, <1>98, <1>99, <2>1, <2>2, <2>3 DEF StormTime, AllSeen
  <2> QED
    BY <2>7, <2>8, <2>9 DEF StormInv
<1>24. ASSUME Stays, PostStormCanary PROVE StormInv'
  <2>1. /\ pc["worker"] = "post" /\ pc' = [pc EXCEPT !["worker"] = "cancelStorm"]
        /\ left' = Definitions /\ Ahead' = Ahead
        /\ UNCHANGED <<now, create, cancelled, canary, evidence, seen, up, defs, subs, fired>>
    BY <1>24 DEF PostStormCanary, Goes, Stays, ledgerVars, brokerVars
  <2>7. StormRoles'
    BY <1>0, <1>98, <1>99, <2>1 DEF StormRoles
  <2>8. StormDefs'
    BY <1>0, <1>98, <1>99, <2>1 DEF StormDefs
  <2>9. StormTime'
    BY <1>0, <1>98, <1>99, <2>1 DEF StormTime, AllSeen
  <2> QED
    BY <2>7, <2>8, <2>9 DEF StormInv
<1>25. ASSUME Stays, StormVerdict PROVE StormInv'
  <2>1. pc["worker"] = "cancelStorm" /\ left = {}
    BY <1>25 DEF StormVerdict
  <2>2. StormEvidence /\ cancelled = Definitions
    BY <1>0, <1>99, <2>1 DEF StormEvidence, StormDefs, StormTime, FireInv
  <2>3. /\ pc' = [pc EXCEPT !["worker"] = "closing"] /\ left' = {} /\ Ahead' = Ahead
        /\ UNCHANGED <<now, create, cancelled, canary, evidence, seen, up, defs, subs, fired>>
    BY <1>25, <2>2 DEF StormVerdict, Goes, Stays, ledgerVars, brokerVars
  <2>7. StormRoles'
    BY <1>0, <1>98, <1>99, <2>1, <2>2, <2>3 DEF StormRoles
  <2>8. StormDefs'
    BY <1>0, <1>98, <1>99, <2>1, <2>2, <2>3 DEF StormDefs
  <2>9. StormTime'
    BY <1>0, <1>98, <1>99, <2>1, <2>2, <2>3 DEF StormTime, AllSeen
  <2> QED
    BY <2>7, <2>8, <2>9 DEF StormInv
<1>26. ASSUME Stays, StormFinally PROVE StormInv'
  <2>1. pc["worker"] = "closing" /\ canary = "stopped" /\ defs = {} /\ left = {}
    BY <1>26, <1>0, <1>98, <1>99 DEF StormFinally, StormRoles, StormDefs
  <2>2. /\ pc' = [pc EXCEPT !["worker"] = "done", ![AnySubscriber] = "done"]
        /\ defs' = {} /\ subs' = {} /\ canary' = "stopped" /\ Ahead' = Ahead
        /\ UNCHANGED <<now, create, left, cancelled, evidence, seen, up, fired>>
    BY <1>26, <2>1 DEF StormFinally, Stays, ledgerVars
  <2>7. StormRoles'
    BY <1>0, <1>98, <1>99, <2>1, <2>2 DEF StormRoles
  <2>8. StormDefs'
    BY <1>0, <1>98, <1>99, <2>1, <2>2 DEF StormDefs
  <2>9. StormTime'
    BY <1>0, <1>98, <1>99, <2>1, <2>2 DEF StormTime, AllSeen
  <2> QED
    BY <2>7, <2>8, <2>9 DEF StormInv
<1>27. ASSUME NEW d \in Definitions, Stays, BrokerCreates(d) PROVE StormInv'
  <2>1. pc["worker"] = "creating"
    BY <1>27, <1>0 DEF BrokerCreates, CreatedInv, AllCreated
  <2>2. /\ defs' = defs \cup {d} /\ Ahead' = Ahead /\ create[d] # "idle"
        /\ UNCHANGED <<now, pc, left, cancelled, canary, evidence, seen, up, subs, fired>>
    BY <1>27 DEF BrokerCreates, Stays, ledgerVars
  <2>7. StormRoles'
    BY <1>0, <1>98, <1>99, <2>1, <2>2 DEF StormRoles
  <2>8. StormDefs'
    BY <1>0, <1>98, <1>99, <2>1, <2>2 DEF StormDefs
  <2>9. StormTime'
    BY <1>0, <1>98, <1>99, <2>1, <2>2 DEF StormTime, AllSeen
  <2> QED
    BY <2>7, <2>8, <2>9 DEF StormInv
<1>28. ASSUME NEW d \in Definitions, Stays, Fire(d) PROVE StormInv'
  <2>1. /\ fired \subseteq fired' /\ Ahead' = Ahead
        /\ UNCHANGED <<now, pc, create, left, cancelled, canary, evidence, seen, up, defs, subs>>
    BY <1>28 DEF Fire, Stays, workerVars, ledgerVars
  <2>7. StormRoles'
    BY <1>0, <1>98, <1>99, <2>1 DEF StormRoles
  <2>8. StormDefs'
    BY <1>0, <1>98, <1>99, <2>1 DEF StormDefs
  <2>9. StormTime'
    BY <1>0, <1>98, <1>99, <2>1 DEF StormTime, AllSeen
  <2> QED
    BY <2>7, <2>8, <2>9 DEF StormInv
<1>29. ASSUME Stays, Tick PROVE StormInv'
  <2>1. /\ UNCHANGED <<pc, create, left, cancelled, canary, evidence, seen, up, defs, subs, fired>>
        /\ now' = now + 1 /\ (\A d \in defs : ~IsDue(d)) /\ Ahead' = Ahead
    BY <1>29, TickStep DEF Stays, workerVars, ledgerVars, brokerVars
  <2>2. ASSUME now = Due, NEW d \in Definitions, pc["worker"] \in {"armed", "window"}
        PROVE  <<d, Due>> \in fired
    <3>1. up /\ d \in defs
      BY <1>0, <1>99, <2>2 DEF StormRoles, StormDefs
    <3>2. FireTimes(d) = {Due}
      BY <1>0, DefinitionKinds DEF FireTimes, WholeMinute, TypeOK
    <3> QED
      BY <2>1, <2>2, <3>1, <3>2 DEF IsDue
  <2>7. StormRoles'
    BY <1>0, <1>98, <1>99, <2>1, <2>2 DEF StormRoles
  <2>8. StormDefs'
    BY <1>0, <1>98, <1>99, <2>1, <2>2 DEF StormDefs, Due
  <2>9. StormTime'
    BY <1>0, <1>98, <1>99, <2>1, <2>2 DEF StormTime, AllSeen, Due
  <2> QED
    BY <2>7, <2>8, <2>9 DEF StormInv
<1> QED
  BY <1>0, <1>1, <1>2, <1>3, <1>4, <1>5, <1>6, <1>7, <1>8, <1>9, <1>10, <1>11, <1>12, <1>13,
     <1>14, <1>15, <1>16, <1>17, <1>18, <1>19, <1>20, <1>21, <1>22, <1>23, <1>24, <1>25, <1>26,
     <1>27, <1>28, <1>29
     DEF CalmKinds, Clients, Broker
-----------------------------------------------------------------------------
(* No correct broker is rejected. *)

(* A definition that one subscriber has logged counts once. *)
LEMMA CountsOnce ==
    ASSUME NEW d, NEW s \in Subscribers, \A t \in Subscribers : d \in seen[t] <=> t = s
    PROVE  FleetCount(d) = 1
<1>1. {t \in Subscribers : d \in seen[t]} = {s}
  OBVIOUS
<1> QED
  BY <1>1, FS_Singleton DEF FleetCount

(* A definition that nobody has logged counts nothing. *)
LEMMA CountsNothing ==
    ASSUME NEW d, \A t \in Subscribers : d \notin seen[t]
    PROVE  FleetCount(d) = 0
<1>1. {t \in Subscribers : d \in seen[t]} = {}
  OBVIOUS
<1> QED
  BY <1>1, FS_EmptySet DEF FleetCount

(* The ledgers of schedule-delivery after the signal. *)
LEMMA DeliveryIsAccepted ==
    ASSUME TypeOK, FireInv, DeliveryInv, scenario = "delivery", Ahead \in 1..5, ~saturated
    PROVE  Accepted
<1>1. /\ now > Due /\ duplicates = {} /\ invalid = {} /\ seen \in [Subscribers -> SUBSET Definitions]
      /\ Instant = Due /\ Audience = Subscribers
      /\ \A d \in Kept : <<d, Due>> \in fired
      /\ \A d \in OfKind({"cancelled"}) : <<d, Due>> \notin fired
  BY DEF DeliveryInv, DeliveryTime, FireInv, TypeOK, LedgerType, Instant, Audience
<1>2. pending = {}
  BY <1>1 DEF FireInv, Due
<1>3. /\ Definitions = OfKind({"broadcast"}) \cup OfKind({"single"}) \cup OfKind({"cancelled"})
      /\ Kept = OfKind({"broadcast"}) \cup OfKind({"single"})
      /\ OfKind({"broadcast"}) \cap OfKind({"single"}) = {}
  BY DefinitionNames DEF TypeOK, Kept
<1>4. ASSUME NEW s \in Subscribers, NEW d \in Definitions PROVE Reached(s, d) <=> d \in seen[s]
  BY <1>2 DEF Reached
<1>5. ASSUME NEW s \in Subscribers, NEW d \in OfKind({"broadcast"}) PROVE d \in seen[s]
  <2>1. Broadcast(d)
    BY <1>3, DefinitionKinds DEF Broadcast, TypeOK
  <2>2. Reached(s, d)
    BY <1>1, <1>3, <2>1 DEF FireInv
  <2> QED
    BY <1>3, <1>4, <2>2
<1>6. ASSUME NEW s \in Subscribers, NEW d \in OfKind({"cancelled"}) PROVE d \notin seen[s]
  BY <1>1, <1>3, <1>4 DEF FireInv
<1>7. ASSUME NEW d \in OfKind({"single"}) PROVE FleetCount(d) = 1
  <2>1. ~Broadcast(d)
    BY <1>3, DefinitionKinds DEF Broadcast, TypeOK
  <2>2. PICK s \in Subscribers : \A t \in Subscribers : Reached(t, d) <=> t = s
    BY <1>1, <1>3, <2>1 DEF FireInv
  <2>3. \A t \in Subscribers : d \in seen[t] <=> t = s
    BY <1>3, <1>4, <2>2
  <2> QED
    BY <2>3, CountsOnce
<1>8. ASSUME NEW s \in Subscribers PROVE seen[s] \ OfKind({"single"}) = OfKind({"broadcast"})
  BY <1>1, <1>3, <1>5, <1>6
<1> QED
  BY <1>1, <1>7, <1>8 DEF Accepted, DeliveryAccepted

(* The ledgers of the outage once its subscribers are gone. *)
LEMMA OutageIsAccepted ==
    ASSUME TypeOK, FireInv, OutageInv, scenario = "outage", Ahead \in 1..4, Finished(Subscribers)
    PROVE  Accepted
<1>1. /\ now = LastInstant /\ duplicates = {} /\ missed = {} /\ Instant = Again
      /\ \A d \in Repeated : <<d, Again>> \in fired
  BY DEF OutageInv, OutageTime, FireInv, Instant, LastInstant, Again
<1>2. pending = {}
  BY Notification DEF OutageInv, OutageTime, Finished
<1>3. Definitions = Repeated \cup Race
  BY DefinitionNames DEF TypeOK, Repeated, Race
<1>4. ASSUME NEW s \in Subscribers, NEW d \in Definitions PROVE Reached(s, d) <=> d \in seen[s]
  BY <1>2 DEF Reached
<1>5. ASSUME NEW d \in Definitions, <<d, Again>> \in fired PROVE FleetCount(d) = 1
  <2>1. ~Broadcast(d)
    BY DefinitionKinds DEF Broadcast, TypeOK
  <2>2. PICK s \in Subscribers : \A t \in Subscribers : Reached(t, d) <=> t = s
    BY <1>1, <1>5, <2>1 DEF FireInv
  <2>3. \A t \in Subscribers : d \in seen[t] <=> t = s
    BY <1>4, <2>2
  <2> QED
    BY <2>3, CountsOnce
<1>6. ASSUME NEW d \in Definitions, <<d, Again>> \notin fired PROVE FleetCount(d) = 0
  <2>1. \A t \in Subscribers : ~Reached(t, d)
    BY <1>1, <1>6 DEF FireInv
  <2>2. \A t \in Subscribers : d \notin seen[t]
    BY <1>4, <2>1
  <2> QED
    BY <2>2, CountsNothing
<1>7. ASSUME NEW d \in Definitions PROVE FleetCount(d) <= 1
  <2>1. FleetCount(d) = 1 \/ FleetCount(d) = 0
    BY <1>5, <1>6
  <2> QED
    BY <2>1
<1> QED
  BY <1>1, <1>3, <1>5, <1>7 DEF Accepted, OutageAccepted, Repeated, Race

(* The checks of the driver find nothing to object to. *)
LEMMA NeverRejects ==
    ASSUME TypeOK, Place, Running, FireInv, CreatedInv, Scene, ~saturated
    PROVE  ~Rejects
<1>1. scenario \in {"delivery", "outage", "storm"} /\ missed = {} /\ Ahead \in 1..18
  BY Here DEF TypeOK, DriverType, FireInv
<1>2. CASE scenario = "delivery"
  <2>1. Ahead \in 1..17 /\ DeliveryRow(Ahead, Head(todo)) /\ DeliveryInv /\ DeliveryRoles
    BY <1>2, Here DEF TypeOK, Scene, DeliveryInv
  <2>2. CASE Ahead = 4
    <3>1. Ended(Subscribers) => Finished(Subscribers)
      BY <2>1, <2>2 DEF DeliveryRoles, Ended, Finished
    <3>2. Accepted
      BY <1>2, <2>1, <2>2, DeliveryIsAccepted
    <3> QED
      BY <2>1, <2>2, <3>1, <3>2 DEF DeliveryRow, Rejects
  <2>3. CASE Ahead # 4
    BY <1>1, <2>1, <2>3 DEF DeliveryRow, Rejects, DeliveryRoles, Ended, Finished
  <2> QED
    BY <2>2, <2>3
<1>3. CASE scenario = "outage"
  <2>1. OutageRow(Ahead, Head(todo)) /\ OutageInv /\ OutageRoles
    BY <1>3, Here DEF TypeOK, Scene, OutageInv
  <2>2. CASE Ahead = 4
    <3>1. Ended(Subscribers) => Finished(Subscribers)
      BY <2>1, <2>2 DEF OutageRoles, Ended, Finished
    <3>2. Finished(Subscribers) => Accepted
      BY <1>3, <2>1, <2>2, OutageIsAccepted
    <3> QED
      BY <2>1, <2>2, <3>1, <3>2 DEF OutageRow, Rejects
  <2>3. CASE Ahead # 4
    BY <1>1, <2>1, <2>3 DEF OutageRow, Rejects, OutageRoles, Ended, Finished
  <2> QED
    BY <2>2, <2>3
<1>4. CASE scenario = "storm"
  <2>1. Ahead \in 1..5 /\ StormRow(Ahead, Head(todo)) /\ StormRoles /\ StormDefs
    BY <1>4, Here DEF TypeOK, Scene, StormInv
  <2>2. Ended({"worker"}) => Finished({"worker"}) \/ Ahead = 5
    BY <2>1 DEF StormRoles, Ended, Finished
  <2>3. Finished({"worker"}) => Armed
    BY <2>1 DEF StormDefs, Armed, Finished
  <2> QED
    BY <1>1, <2>1, <2>2, <2>3 DEF StormRow, Rejects
<1> QED
  BY <1>1, <1>2, <1>3, <1>4

(* A driver with a correct broker does not reject it. *)
LEMMA CorrectNext ==
    ASSUME TypeOK, Place, StormCleanInv, StackInv, CorrectInv, Regular
    PROVE  CorrectInv'
<1> SUFFICES ASSUME Correct' PROVE CorrectInv'
  BY DEF CorrectInv
<1>1. StepKinds /\ outcome = "none" /\ UNCHANGED scenario
  BY NextCases DEF TypeOK
<1>2. Correct /\ verdict # "rejected" /\ ~saturated
  BY <1>1, Blemishes DEF CorrectInv, StackInv, Correct
<1>3. ASSUME Running PROVE FireInv /\ CreatedInv /\ Scene
  BY <1>2, <1>3 DEF CorrectInv, Scene
<1>4. verdict' # "rejected" /\ outcome' # "rejected"
  <2>1. CASE Observes
    <3>1. ~Rejects
      BY <1>2, <1>3, <2>1, NeverRejects DEF Observes
    <3> QED
      BY <1>2, <2>1, <3>1 DEF Observes, Moves, Throws, Ends, Running
  <2>2. CASE Launches
    BY <1>2, <2>2 DEF Launches, Moves, Running
  <2>3. CASE Catches
    BY <1>2, <2>3 DEF Catches, Rethrow
  <2>4. CASE Concludes
    <3>1. Running /\ Ahead = 1
      BY <2>4 DEF Concludes
    <3>2. defs = {} /\ subs = {}
      <4>1. scenario \in {"delivery", "outage", "storm"} /\ Scene
        BY <1>3, <3>1 DEF TypeOK, DriverType
      <4> QED
        BY <3>1, <4>1
           DEF Scene, DeliveryInv, DeliveryRoles, DeliveryDefs, DeliveryTime, OutageInv,
               OutageRoles, OutageDefs, OutageTime, StormInv, StormRoles, StormDefs
    <3>3. cleanups >= baseline
      BY <3>1 DEF StackInv, TypeOK, StackType
    <3> QED
      BY <1>2, <2>4, <3>2, <3>3 DEF Concludes, Quiesce, Quiescent, NoneLost, Correct
  <2>5. CASE Clients \/ Broker \/ Tick
    <3>1. UNCHANGED <<verdict, outcome>>
      BY <2>5, OthersStay DEF driverVars
    <3> QED
      BY <1>1, <1>2, <3>1
  <2>6. ~(BrokerMisbehaves \/ SiblingDisturbed \/ \E d \in Definitions : CreateFails(d))
    BY DEF BrokerMisbehaves, SiblingDisturbed, CreateFails, Misbehaves, Correct
  <2> QED
    BY <1>1, <2>1, <2>2, <2>3, <2>4, <2>5, <2>6 DEF StepKinds
<1>5. ASSUME Running' PROVE FireInv' /\ CreatedInv' /\ Scene'
  <2>1. Running
    BY <1>5, CalmCases
  <2>2. FireInv /\ CreatedInv /\ Scene
    BY <1>3, <2>1
  <2>3. FireInv' /\ CreatedInv'
    BY <1>5, <2>2, FireNext, CreatedNext
  <2>4. /\ scenario = "delivery" => DeliveryInv'
        /\ scenario = "outage" => OutageInv'
        /\ scenario = "storm" => StormInv'
    BY <1>5, <2>2, DeliveryNext, OutageNext, StormNext DEF Scene
  <2> QED
    BY <1>1, <2>3, <2>4 DEF Scene
<1> QED
  BY <1>4, <1>5 DEF CorrectInv, Scene
-----------------------------------------------------------------------------
(* The theorems. *)

(* The invariant holds initially. *)
LEMMA InitIInv == Init => IInv
<1> SUFFICES ASSUME Init PROVE IInv
  OBVIOUS
<1>0. /\ scenario \in {"delivery", "outage", "storm"} /\ todo = Steps[scenario]
      /\ verdict = "none" /\ outcome = "none" /\ now = 0
      /\ pc = [r \in Roles |-> "none"]
      /\ create = [d \in AllDefinitions |-> "idle"] /\ left = {} /\ cancelled = {}
      /\ seen = [s \in Subscribers |-> {}] /\ duplicates = {} /\ invalid = {} /\ missed = {}
      /\ canary = "off" /\ evidence = "none"
      /\ up = TRUE /\ defs = {} /\ subs = {} /\ made = {} /\ fired = {} /\ pending = {}
      /\ misbehaved = FALSE /\ refused = {} /\ overran = FALSE /\ tardy = FALSE
      /\ delivered = [p \in Subscribers \X AllDefinitions |-> 0]
      /\ saturated = FALSE /\ early = {} /\ unjudged = {}
      /\ cleanups = 0 /\ baseline = 0 /\ astray = {}
      /\ "worker" \in Roles /\ "canceller" \in Roles /\ Subscribers \subseteq Roles
      /\ AnySubscriber \in Subscribers /\ Definitions \subseteq AllDefinitions
  BY ScenariosAssumption, Names DEF Init, AllDefinitions
<1>1. DriverType /\ Place
  <2>1. Steps[scenario] \in Seq(StepNames) /\ Len(Steps[scenario]) \in Nat \ {0}
    <3>1. CASE scenario = "delivery"
      <4>1. Steps[scenario] = DeliverySteps
        BY <3>1 DEF Steps
      <4> QED
        BY <4>1, DeliveryScript
    <3>2. CASE scenario = "outage"
      <4>1. Steps[scenario] = OutageSteps
        BY <3>2 DEF Steps
      <4> QED
        BY <4>1, OutageScript
    <3>3. CASE scenario = "storm"
      <4>1. Steps[scenario] = StormSteps
        BY <3>3 DEF Steps
      <4> QED
        BY <4>1, StormScript
    <3> QED
      BY <1>0, <3>1, <3>2, <3>3
  <2>2. Remains(todo, Steps[scenario])
    BY <1>0, <2>1, WholeRemains
  <2> QED
    BY <1>0, <2>1, <2>2 DEF DriverType, Place
<1>2. ClientType
  BY <1>0 DEF ClientType, PcNames, LastInstant
<1>3. LedgerType /\ BrokerType /\ StackType
  BY <1>0 DEF LedgerType, BrokerType, StackType
<1>4. TypeOK
  BY <1>1, <1>2, <1>3 DEF TypeOK
<1>5. /\ scenario = "delivery" => Ahead = 17
      /\ scenario = "outage" => Ahead = 18
      /\ scenario = "storm" => Ahead = 5
  <2>1. /\ scenario = "delivery" => todo = DeliverySteps
        /\ scenario = "outage" => todo = OutageSteps
        /\ scenario = "storm" => todo = StormSteps
    BY <1>0 DEF Steps
  <2>2. Len(DeliverySteps) = 17 /\ Len(OutageSteps) = 18 /\ Len(StormSteps) = 5
    BY DeliveryScript, OutageScript, StormScript
  <2> QED
    BY ONLY <2>1, <2>2, Zenon DEF Ahead
<1>6. FleetInv
  BY <1>0, <1>5 DEF FleetInv, Collected, Dismissed, Told
<1>7. LedgerInv /\ EarlyInv /\ StackInv
  BY <1>0, <1>5 DEF LedgerInv, EarlyInv, StackInv
<1>8. StormSeenInv /\ StormCleanInv
  BY <1>0, <1>5 DEF StormSeenInv, StormCleanInv
<1>9. FireInv /\ CreatedInv
  BY <1>0 DEF FireInv, CreatedInv, Reached
<1>10. scenario = "delivery" => DeliveryInv
  <2> SUFFICES ASSUME scenario = "delivery" PROVE DeliveryInv
    OBVIOUS
  <2>1. Ahead = 17 /\ pc["worker"] = "none" /\ \A s \in Subscribers : pc[s] = "none"
    BY <1>0, <1>5
  <2>2. DeliveryRoles
    BY <2>1 DEF DeliveryRoles
  <2>3. DeliveryDefs
    BY <1>0, <2>1 DEF DeliveryDefs
  <2>4. DeliveryTime
    BY <1>0, <2>1 DEF DeliveryTime, Due
  <2> QED
    BY <2>2, <2>3, <2>4 DEF DeliveryInv
<1>11. scenario = "outage" => OutageInv
  BY <1>0, <1>5 DEF OutageInv, OutageRoles, OutageDefs, OutageTime, Again
<1>12. scenario = "storm" => StormInv
  BY <1>0, <1>5 DEF StormInv, StormRoles, StormDefs, StormTime
<1>13. CorrectInv
  BY <1>0, <1>9, <1>10, <1>11, <1>12 DEF CorrectInv
<1> QED
  BY <1>1, <1>4, <1>6, <1>7, <1>8, <1>13 DEF IInv

(* A step that at most counts a cleanup preserves it. *)
LEMMA CounterIInv ==
    ASSUME IInv, cleanups' \in Nat, cleanups' >= cleanups,
           UNCHANGED <<driverVars, now, pc, workerVars, ledgerVars, brokerVars, baseline, astray,
                       historyVars>>
    PROVE  IInv'
<1>1. /\ UNCHANGED <<scenario, todo, verdict, outcome, now, pc>>
      /\ UNCHANGED <<create, left, cancelled, canary, evidence>>
      /\ UNCHANGED <<seen, duplicates, invalid, missed, saturated, delivered, early, unjudged>>
      /\ UNCHANGED <<up, defs, subs, made, fired, pending, baseline, astray>>
      /\ UNCHANGED <<misbehaved, refused, overran, tardy>>
  BY DEF driverVars, workerVars, ledgerVars, brokerVars, historyVars
<1>2. /\ Definitions' = Definitions /\ AllDefinitions' = AllDefinitions /\ Fires' = Fires
      /\ \A kinds : OfKind(kinds)' = OfKind(kinds)
  BY <1>1, SameDefinitions
<1>3. /\ Running' = Running /\ Ahead' = Ahead /\ AllCreated' = AllCreated
      /\ AllSeen' = AllSeen /\ Excused' = Excused
  BY <1>1, <1>2 DEF Running, Ahead, AllCreated, AllSeen, Excused
<1>4. TypeOK' /\ Place'
  BY <1>1, <1>2, <1>3
     DEF IInv, TypeOK, DriverType, ClientType, LedgerType, BrokerType, StackType, Place
<1>5. FleetInv'
  <2>1. Collected' = Collected /\ Unstarted' = Unstarted /\ Dismissed' = Dismissed
    BY <1>1, <1>3 DEF Collected, Unstarted, Dismissed
  <2>2. /\ Accepted' = Accepted /\ Finished(Subscribers)' = Finished(Subscribers)
        /\ AllTold' = AllTold /\ \A s \in Subscribers : Told(s)' = Told(s)
    BY <1>1, FleetStays DEF ledgerVars
  <2> QED
    BY <1>1, <2>1, <2>2 DEF IInv, FleetInv
<1>6. LedgerInv' /\ EarlyInv' /\ StormSeenInv' /\ StormCleanInv'
  BY <1>1, <1>2, <1>3 DEF IInv, LedgerInv, EarlyInv, StormSeenInv, StormCleanInv
<1>7. FireInv' = FireInv
  <2>1. /\ Instant' = Instant /\ Audience' = Audience
        /\ \A d : Broadcast(d)' = Broadcast(d)
        /\ \A s, d : Reached(s, d)' = Reached(s, d)
    BY <1>1, <1>2 DEF Instant, Audience, Broadcast, Reached
  <2> QED
    BY <1>1, <1>2, <2>1, Zenon DEF FireInv
<1>8. CreatedInv' = CreatedInv
  BY <1>1, <1>2, <1>3, Zenon DEF CreatedInv
<1>9. DeliveryInv' = DeliveryInv
  BY <1>1, <1>2, <1>3, Zenon DEF DeliveryInv, DeliveryRoles, DeliveryDefs, DeliveryTime, Kept
<1>10. OutageInv' = OutageInv
  BY <1>1, <1>2, <1>3, Zenon
     DEF OutageInv, OutageRoles, OutageDefs, OutageTime, Race, Repeated
<1>11. StormInv' = StormInv
  BY <1>1, <1>2, <1>3, Zenon DEF StormInv, StormRoles, StormDefs, StormTime
<1>12. CorrectInv'
  BY <1>1, <1>3, <1>7, <1>8, <1>9, <1>10, <1>11 DEF IInv, CorrectInv, Correct
<1>13. StackInv'
  <2>1. cleanups \in Nat /\ baseline \in Nat
    BY DEF IInv, TypeOK, StackType
  <2> QED
    BY <1>1, <1>3, <2>1 DEF IInv, StackInv
<1> QED
  BY <1>4, <1>5, <1>6, <1>12, <1>13 DEF IInv

(* A client that is saturated preserves it. *)
LEMMA SaturatedIInv ==
    ASSUME IInv, NEW s \in Subscribers, Saturates(s)
    PROVE  IInv'
<1>1. /\ UNCHANGED <<scenario, todo, verdict, outcome, now, pc>>
      /\ UNCHANGED <<create, left, cancelled, canary, evidence>>
      /\ UNCHANGED <<seen, duplicates, invalid, missed, delivered, early, unjudged>>
      /\ UNCHANGED <<up, defs, subs, made, fired, pending, cleanups, baseline, astray>>
      /\ UNCHANGED <<misbehaved, refused, overran>>
      /\ saturated' = TRUE /\ tardy' = TRUE /\ pc[s] # "done"
  BY DEF Saturates, driverVars, workerVars, brokerVars, stackVars
<1>2. Definitions' = Definitions /\ AllDefinitions' = AllDefinitions
  BY <1>1, SameDefinitions
<1>3. /\ Running' = Running /\ Ahead' = Ahead /\ AllCreated' = AllCreated
      /\ AllSeen' = AllSeen /\ Excused' = Excused
  BY <1>1, <1>2 DEF Running, Ahead, AllCreated, AllSeen, Excused
<1>4. TypeOK' /\ Place'
  BY <1>1, <1>2, <1>3
     DEF IInv, TypeOK, DriverType, ClientType, LedgerType, BrokerType, StackType, Place
<1>5. FleetInv'
  <2>1. Collected' = Collected /\ Unstarted' = Unstarted /\ Dismissed' = Dismissed
    BY <1>1, <1>3 DEF Collected, Unstarted, Dismissed
  <2>2. AllTold' = AllTold /\ \A t \in Subscribers : Told(t)' = Told(t)
    BY <1>1 DEF AllTold, Told
  <2>3. scenario # "storm" => ~Collected
    BY <1>1 DEF IInv, FleetInv, Finished
  <2> QED
    BY <1>1, <2>1, <2>2, <2>3 DEF IInv, FleetInv
<1>6. LedgerInv' /\ EarlyInv' /\ StormSeenInv' /\ StormCleanInv'
  BY <1>1, <1>2, <1>3 DEF IInv, LedgerInv, EarlyInv, StormSeenInv, StormCleanInv
<1>7. StackInv' /\ CorrectInv'
  BY <1>1, <1>3 DEF IInv, StackInv, CorrectInv, Correct
<1> QED
  BY <1>4, <1>5, <1>6, <1>7 DEF IInv

(* A docker command that fails preserves it. *)
LEMMA FailingCommandIInv ==
    ASSUME IInv, outcome = "none",
           StartFails \/ SignalMisses("signal") \/ SignalMisses("stopSubscribers")
    PROVE  IInv'
<1>0. /\ TypeOK /\ DriverType /\ Place /\ FleetInv /\ pc \in [Roles -> PcNames]
      /\ Subscribers \subseteq Roles /\ "worker" \notin Subscribers /\ "worker" \in Roles
      /\ scenario \in {"delivery", "outage", "storm"}
  BY Names DEF IInv, TypeOK, DriverType, ClientType
<1>1. /\ UNCHANGED <<now, create, left, cancelled, canary, evidence>>
      /\ UNCHANGED <<seen, duplicates, invalid, missed, saturated, delivered, early, unjudged>>
      /\ UNCHANGED <<up, defs, made, fired, pending, cleanups, baseline>>
      /\ UNCHANGED <<misbehaved, refused, overran, tardy>>
  BY DEF StartFails, SignalMisses, workerVars, ledgerVars, brokerVars, historyVars
(* What it does to the fleet. *)
<1>2. /\ UNCHANGED scenario /\ scenario # "storm" /\ ~Running' /\ outcome' # "passed"
      /\ DriverType' /\ Place' /\ (Dismissed' => AllTold')
      /\ verdict # "rejected" => verdict' # "rejected" /\ outcome' # "rejected"
      /\ astray' \in SUBSET Subscribers /\ subs' \in SUBSET Subscribers
      /\ pc' \in [Roles -> PcNames] /\ pc'["worker"] = pc["worker"]
  <2>1. CASE StartFails
    <3>1. PICK started \in SUBSET Subscribers :
              /\ pc' = [r \in Roles |-> IF r \in started THEN "starting" ELSE pc[r]]
              /\ astray' = started
      BY <2>1 DEF StartFails
    <3>2. /\ UNCHANGED <<scenario, todo, verdict, subs>> /\ outcome' = "timeout"
          /\ Head(todo) = "startSubscribers"
      BY <2>1 DEF StartFails, At, brokerVars
    <3>3. Running
      BY <1>0, <3>2, Catching
    <3>4. Unstarted
      BY <1>0, <3>2, <3>3, Here DEF DeliveryRow, OutageRow, StormRow, Unstarted
    <3>5. scenario # "storm" /\ \A s \in Subscribers : Told(s)
      BY <1>0, <3>4 DEF FleetInv, Unstarted
    <3>6. AllTold'
      BY <1>0, <3>1, <3>5 DEF AllTold, Told
    <3>7. DriverType' /\ Place' /\ ~Running'
      BY <1>0, <3>2, <3>3 DEF DriverType, Place, Running, Verdicts
    <3>8. pc' \in [Roles -> PcNames] /\ pc'["worker"] = pc["worker"]
      BY <1>0, <3>1 DEF PcNames
    <3> QED
      BY <3>1, <3>2, <3>3, <3>5, <3>6, <3>7, <3>8 DEF Running, IInv, TypeOK, BrokerType
  <2>2. ASSUME NEW step, SignalMisses(step)
        PROVE  /\ astray' \in SUBSET Subscribers /\ subs' \in SUBSET Subscribers
               /\ pc' \in [Roles -> PcNames] /\ pc'["worker"] = pc["worker"] /\ AllTold'
    <3>1. PICK reached \in SUBSET Subscribers :
              /\ pc' = [r \in Roles |-> IF r \in reached /\ pc[r] \in {"starting", "ready"}
                                        THEN "stopping" ELSE pc[r]]
              /\ subs' = subs \ reached /\ astray' = Subscribers \ reached
      BY <2>2 DEF SignalMisses
    <3> QED
      BY <1>0, <3>1 DEF AllTold, Told, PcNames, TypeOK, BrokerType
  <2>3. CASE SignalMisses("signal")
    <3>1. Head(todo) = "signal" /\ Fail("timeout")
      BY <2>3 DEF SignalMisses, At
    <3>2. Running
      BY <1>0, <3>1, Catching
    <3>3. scenario # "storm" /\ Ahead >= 4
      BY <1>0, <3>1, <3>2, Here DEF DeliveryRow, OutageRow, StormRow
    <3>4. (Throws("timeout") \/ Ends("timeout")) /\ DriverType' /\ Place'
      BY <1>0, <3>1, <3>2, Fails DEF Verdicts
    <3> QED
      BY <2>2, <2>3, <3>2, <3>3, <3>4 DEF Throws, Ends, Running
  <2>4. CASE SignalMisses("stopSubscribers")
    <3>1. Head(todo) = "stopSubscribers" /\ Proceed
      BY <2>4 DEF SignalMisses, At
    <3>2. ~Running
      BY <1>0, <3>1, Here
    <3>3. /\ verdict # "none" /\ scenario # "storm" /\ todo' = <<"awaitStopped">>
          /\ todo' \in Seq(StepNames) /\ UNCHANGED <<scenario, verdict, outcome>>
      BY <1>0, <3>1, <3>2, Catching DEF Proceed
    <3>4. DriverType' /\ Place' /\ ~Running'
      BY <1>0, <3>3 DEF DriverType, Place, Running
    <3> QED
      BY <2>2, <2>4, <3>3, <3>4
  <2> QED
    BY <2>1, <2>3, <2>4
<1>3. Definitions' = Definitions /\ AllDefinitions' = AllDefinitions
  BY <1>2, SameDefinitions
<1>4. TypeOK'
  <2>1. ClientType' /\ LedgerType'
    BY <1>0, <1>1, <1>2, <1>3 DEF TypeOK, ClientType, LedgerType
  <2>2. BrokerType' /\ StackType'
    BY <1>0, <1>1, <1>2, <1>3 DEF TypeOK, BrokerType, StackType
  <2> QED
    BY <1>2, <2>1, <2>2 DEF TypeOK
<1>5. FleetInv'
  BY <1>2 DEF FleetInv, Collected, Unstarted
<1>6. LedgerInv' /\ EarlyInv' /\ StormSeenInv'
  BY <1>1, <1>2, <1>3 DEF IInv, LedgerInv, EarlyInv, StormSeenInv
<1>7. StormCleanInv'
  BY <1>1, <1>2, <1>3 DEF IInv, StormCleanInv
<1>8. StackInv' /\ CorrectInv'
  BY <1>1, <1>2 DEF IInv, StackInv, CorrectInv, Correct
<1> QED
  BY <1>2, <1>4, <1>5, <1>6, <1>7, <1>8 DEF IInv

(* Every step preserves it. *)
LEMMA NextIInv ==
    ASSUME IInv, [Next]_vars
    PROVE  IInv'
<1>1. CASE Regular
  <2>1. /\ TypeOK /\ DriverType /\ Place /\ FleetInv /\ LedgerInv /\ EarlyInv /\ StormSeenInv
        /\ StormCleanInv /\ StackInv /\ CorrectInv
    BY DEF IInv, TypeOK
  <2>2. DriverType' /\ Place' /\ ClientType' /\ LedgerType' /\ BrokerType'
    BY <1>1, <2>1, NextCases, WorldTypes
  <2>3. FleetInv' /\ LedgerInv' /\ EarlyInv' /\ StormSeenInv'
    BY <1>1, <2>1, FleetNext, LedgerNext, EarlyNext, StormSeenNext
  <2>4. (defs \cap Definitions \subseteq made /\ cancelled \subseteq made)'
    BY <1>1, <2>1, MadeNext
  <2>5. Tidy'
    BY <1>1, <2>1, TidyNext
  <2>6. StormCleanInv'
    BY <2>4, <2>5 DEF StormCleanInv, Tidy
  <2>7. StackType' /\ StackInv' /\ CorrectInv'
    BY <1>1, <2>1, StackNext, CorrectNext
  <2> QED
    BY <2>2, <2>3, <2>6, <2>7 DEF IInv, TypeOK
<1>2. CASE CountsCleanup \/ UNCHANGED vars
  <2>1. /\ cleanups' \in Nat /\ cleanups' >= cleanups
        /\ UNCHANGED <<driverVars, now, pc, workerVars, ledgerVars, brokerVars, baseline, astray,
                       historyVars>>
    <3>1. cleanups \in Nat
      BY DEF IInv, TypeOK, StackType
    <3>2. CASE CountsCleanup
      BY <3>1, <3>2 DEF CountsCleanup
    <3>3. CASE UNCHANGED vars
      BY <3>1, <3>3 DEF vars, stackVars
    <3> QED
      BY <1>2, <3>2, <3>3
  <2> QED
    BY <2>1, CounterIInv
<1>3. CASE \E s \in Subscribers : Saturates(s)
  BY <1>3, SaturatedIInv
<1>4. CASE /\ outcome = "none"
           /\ StartFails \/ SignalMisses("signal") \/ SignalMisses("stopSubscribers")
  BY <1>4, FailingCommandIInv
<1> QED
  BY <1>1, <1>2, <1>3, <1>4 DEF Next, Regular

(* The invariant holds in every state that can be reached. *)
THEOREM Invariance == Spec => []IInv
<1>1. Init => IInv
  BY InitIInv
<1>2. IInv /\ [Next]_vars => IInv'
  BY NextIInv
<1> QED
  BY <1>1, <1>2, PTL DEF Spec

(* Every variable keeps its type. *)
THEOREM TypeCorrect == Spec => []TypeOK
<1>1. IInv => TypeOK
  BY DEF IInv
<1> QED
  BY <1>1, Invariance, PTL

(* A driver whose broker is correct, and that met every instant that it takes
   for granted with handlers that kept up, never rejects: neither the restart
   with its counters nor the creation side by side nor the race of a cancellation
   with its fire is taken for a fault, for any number of subscribers, definitions
   and lanes. *)
THEOREM CorrectBrokersPass == Spec => []NoFalseAlarm
<1>1. IInv => NoFalseAlarm
  BY DEF IInv, CorrectInv, Correct, NoFalseAlarm
<1> QED
  BY <1>1, Invariance, PTL

(* A definition that counts once has been logged by one subscriber. *)
LEMMA LoggedOnce ==
    ASSUME NEW d, FleetCount(d) = 1
    PROVE  \E s \in Subscribers : \A t \in Subscribers : d \in seen[t] <=> t = s
<1> DEFINE L == {s \in Subscribers : d \in seen[s]}
<1>1. L \subseteq Subscribers /\ Cardinality(L) = 1
  BY DEF FleetCount
<1>2. PICK s \in Subscribers : L = {s}
  <2> HIDE DEF L
  <2> QED
    BY <1>1, OneMember
<1>3. \A t \in Subscribers : t \in L <=> t = s
  BY <1>2
<1> QED
  BY <1>3

(* A definition that counts at most once has not been logged by two. *)
LEMMA NotLoggedTwice ==
    ASSUME NEW d, FleetCount(d) <= 1, NEW s \in Subscribers, NEW t \in Subscribers, s # t
    PROVE  ~(d \in seen[s] /\ d \in seen[t])
<1> SUFFICES ASSUME d \in seen[s], d \in seen[t] PROVE FALSE
  OBVIOUS
<1> DEFINE L == {u \in Subscribers : d \in seen[u]}
<1>1. L \subseteq Subscribers /\ {s, t} \subseteq L /\ Cardinality(L) <= 1
  BY DEF FleetCount
<1>2. IsFiniteSet(L)
  BY <1>1, FS_Subset, SubscribersAssumption
<1>3. Cardinality({s, t}) <= Cardinality(L) /\ Cardinality(L) \in Nat
  BY <1>1, <1>2, FS_Subset, FS_CardinalityType
<1>4. Cardinality({s, t}) = 2
  <2>1. IsFiniteSet({s}) /\ Cardinality({s}) = 1
    BY FS_Singleton
  <2>2. {s} \cup {t} = {s, t} /\ t \notin {s}
    OBVIOUS
  <2>3. Cardinality({s} \cup {t}) = 1 + 1
    BY <2>1, <2>2, FS_AddElement
  <2> QED
    BY <2>2, <2>3
<1> HIDE DEF L
<1> QED
  BY <1>1, <1>3, <1>4

(* What the ledgers of a fleet without objections say was delivered. *)
LEMMA AcceptedWasDelivered ==
    ASSUME TypeOK, FleetInv, LedgerInv, EarlyInv, StormSeenInv
    PROVE  AcceptedIsExact
<1> SUFFICES ASSUME outcome = "passed" PROVE AcceptedIsExact
  BY DEF AcceptedIsExact
<1>1. Collected /\ scenario \in {"delivery", "outage", "storm"}
  BY DEF Collected, TypeOK, DriverType
<1>2. CASE scenario = "delivery"
  <2>1. /\ duplicates = {} /\ invalid = {}
        /\ \A s \in Subscribers : seen[s] \ OfKind({"single"}) = OfKind({"broadcast"})
        /\ \A d \in OfKind({"single"}) : FleetCount(d) = 1
    BY <1>1, <1>2 DEF FleetInv, Accepted, DeliveryAccepted
  <2>2. /\ OfKind({"broadcast"}) \subseteq Definitions /\ OfKind({"single"}) \subseteq Definitions
        /\ OfKind({"cancelled"}) \subseteq Definitions
        /\ OfKind({"cancelled"}) \cap (OfKind({"broadcast"}) \cup OfKind({"single"})) = {}
    BY <1>2, DefinitionNames DEF TypeOK
  <2>3. \A s \in Subscribers, d \in Definitions :
            delivered[<<s, d>>] = IF d \in seen[s] THEN 1 ELSE 0
    BY <2>1 DEF LedgerInv
  <2>4. \A s \in Subscribers, d \in OfKind({"broadcast"}) : delivered[<<s, d>>] = 1
    BY <2>1, <2>2, <2>3
  <2>5. \A s \in Subscribers, d \in OfKind({"cancelled"}) : delivered[<<s, d>>] = 0
    BY <2>1, <2>2, <2>3
  <2>6. ASSUME NEW d \in OfKind({"single"}) PROVE OnceInTheFleet(d)
    BY <2>1, <2>2, <2>3, LoggedOnce DEF OnceInTheFleet
  <2> QED
    BY <1>2, <2>4, <2>5, <2>6 DEF AcceptedIsExact
<1>3. CASE scenario = "outage"
  <2>1. /\ duplicates = {} /\ invalid = {}
        /\ \A d \in OfKind({"repeated"}) : FleetCount(d) = 1
        /\ \A d \in OfKind({"race"}) : FleetCount(d) <= 1
    BY <1>1, <1>3 DEF FleetInv, Accepted, OutageAccepted, LedgerInv
  <2>2. OfKind({"repeated"}) \subseteq Definitions /\ OfKind({"race"}) \subseteq Definitions
    BY <1>3, DefinitionNames DEF TypeOK
  <2>3. \A s \in Subscribers, d \in Definitions :
            delivered[<<s, d>>] = IF d \in seen[s] THEN 1 ELSE 0
    BY <2>1 DEF LedgerInv
  <2>4. ASSUME NEW d \in OfKind({"repeated"}) PROVE OnceInTheFleet(d)
    BY <2>1, <2>2, <2>3, LoggedOnce DEF OnceInTheFleet
  <2>5. ASSUME NEW d \in OfKind({"race"}), NEW s \in Subscribers, NEW t \in Subscribers
        PROVE  delivered[<<s, d>>] + (IF s = t THEN 0 ELSE delivered[<<t, d>>]) <= 1
    <3>1. s # t => ~(d \in seen[s] /\ d \in seen[t])
      BY <2>1, NotLoggedTwice
    <3>2. /\ delivered[<<s, d>>] = IF d \in seen[s] THEN 1 ELSE 0
          /\ delivered[<<t, d>>] = IF d \in seen[t] THEN 1 ELSE 0
      BY <2>2, <2>3
    <3> QED
      BY <3>1, <3>2
  <2> QED
    <3>1. early = {}
      BY <1>1, <1>3 DEF FleetInv, Accepted, OutageAccepted, EarlyInv
    <3> QED
      BY <1>3, <2>4, <2>5, <3>1 DEF AcceptedIsExact
<1>4. CASE scenario = "storm"
  <2>1. \A d \in Definitions : delivered[<<AnySubscriber, d>>] = 1 \/ d \in unjudged
    BY <1>4 DEF StormSeenInv
  <2> QED
    BY <1>4, <2>1 DEF AcceptedIsExact
<1> QED
  BY <1>1, <1>2, <1>3, <1>4

(* A run that passes has delivered each occurrence to those that it is for, once,
   and the missed one never, whatever the broker did; of a storm, up to what its
   subscription gets after the evidence was read. *)
THEOREM AcceptedRunsAreExact == Spec => []AcceptedIsExact
<1>1. IInv => AcceptedIsExact
  BY AcceptedWasDelivered DEF IInv
<1> QED
  BY <1>1, Invariance, PTL

(* However a run ends, the fleet has been told to stop and a storm taken back,
   except where the very command for it has failed. *)
THEOREM RunsLeaveNothing == Spec => []NothingIsLeft
<1>1. IInv => SubscribersAreTold
  BY DEF IInv, FleetInv, Dismissed, AllTold, SubscribersAreTold
<1>2. IInv => StormCleansUp
  BY DEF IInv, StormCleanInv, StormCleansUp, Excused, Ended
<1>3. IInv => NothingIsLeft
  BY <1>1, <1>2 DEF NothingIsLeft
<1> QED
  BY <1>3, Invariance, PTL
=============================================================================
