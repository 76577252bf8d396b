--------------------------- MODULE LeaseScenarios ---------------------------
(***************************************************************************)
(* The lease-contention and lease-waiter-disconnect-races scenarios        *)
(* (orchestration/ and workloads/lease-contention.ts, workloads/           *)
(* lease-waiter-disconnect-races.ts).                                      *)
(*                                                                         *)
(* Contention: clients take turns in critical sections; then an owner is   *)
(* killed inside of one, and a waiter must follow it with a higher token.  *)
(* Waiter races: in each round one process owns the lease, queues waiters, *)
(* and closes them before (even rounds) or while (odd rounds) it releases. *)
(*                                                                         *)
(* The broker is external.  It grants the lease in the order of arrival,   *)
(* numbers the grants, and notices a dead session later.  Once in a run it *)
(* may misbehave: keep a lease that was released, keep what a dead session *)
(* has, or grant an old number.  Time-outs of the clients are long: they   *)
(* expire when the broker has gone wrong.                                  *)
(***************************************************************************)
EXTENDS Naturals, FiniteSets, SequencesExt

CONSTANTS
    Clients,       \* the contenders, or the waiters of a round
    Operations,    \* critical sections of a contender
    Rounds,
    Scenarios,     \* a subset of {"contention", "waiter-races"}
    MayMisbehave

ASSUME ClientsAssumption ==
    IsFiniteSet(Clients) /\ Clients # {} /\ Clients \cap {"owner", "waiter", "main", "none"} = {}
ASSUME BoundsAssumption == Operations \in Nat \ {0} /\ Rounds \in Nat \ {0}
ASSUME ScenariosAssumption == Scenarios \subseteq {"contention", "waiter-races"}

VARIABLES
    scenario,
    round,         \* of the waiter races
    todo,          \* steps left of the driver, or of the round
    outcome,       \* "none", "passed", "rejected", "timeout"
    client,        \* "none", "starting", "idle", "acquiring", "entered", "done",
                   \* "failed", "killed", "closed"
    sequence,      \* critical sections that a client has completed
    admissions,    \* lease_entered: [participant, sequence, token]
    fulfilled,     \* waiters whose acquisition was granted to them
    ghosts,        \* ghostAcquisitions
    holder, waiters, token,   \* the lease: its owner, the queue, the last number
    arriving,      \* acquisitions that are on their way to the broker
    reply,         \* the number that is on its way to a client, or 0
    retained,      \* sessions that the broker keeps wrongly
    misbehaved,    \* history: the broker has misbehaved
    lucky          \* history: a waiter was granted the lease while it was connected

driverVars == <<scenario, round, todo, outcome, ghosts>>
clientVars == <<client, sequence, admissions, fulfilled>>
brokerVars == <<holder, waiters, token, arriving, reply, retained, misbehaved, lucky>>
vars == <<driverVars, clientVars, brokerVars>>

Participants == Clients \cup {"owner", "waiter", "main"}
Dead(p) == client[p] \in {"killed", "closed"}
-----------------------------------------------------------------------------
(* runLeaseContentionScenario *)
ContentionSteps == <<"contend", "startOwner", "awaitEntered", "startWaiter", "awaitReady",
                     "killOwner", "finishWaiter", "probe">>

(* A round of runLeaseWaiterDisconnectRaces; rounds count from 0. *)
RoundSteps(r) ==
    IF r % 2 = 0
    THEN <<"acquire", "connect", "awaitDepth", "close", "release", "settle", "awaitEmpty",
           "replace", "release", "endRound">>
    ELSE <<"acquire", "connect", "awaitDepth", "closeAndRelease", "settle", "awaitEmpty",
           "replace", "release", "endRound">>

Init ==
    /\ scenario \in Scenarios
    /\ round = 0
    /\ todo = IF scenario = "contention" THEN ContentionSteps ELSE RoundSteps(0)
    /\ outcome = "none"
    /\ client = [p \in Participants |->
                    IF scenario = "contention" /\ p \in Clients THEN "idle" ELSE "none"]
    /\ sequence = [p \in Participants |-> 0]
    /\ admissions = {} /\ fulfilled = {} /\ ghosts = 0
    /\ holder = "none" /\ waiters = <<>> /\ token = 0
    /\ arriving = {} /\ reply = [p \in Participants |-> 0]
    /\ retained = {} /\ misbehaved = FALSE /\ lucky = FALSE
-----------------------------------------------------------------------------
(* The clients. *)

OperationsOf(p) == IF p \in {"owner", "waiter"} THEN 1 ELSE Operations

ClientConnects(p) ==
    /\ client[p] = "starting"
    /\ client' = [client EXCEPT ![p] = "idle"]
    /\ UNCHANGED <<driverVars, sequence, admissions, fulfilled, brokerVars>>

(* withLease asks for the lease. *)
Acquire(p) ==
    /\ client[p] = "idle" /\ sequence[p] < OperationsOf(p)
    /\ client' = [client EXCEPT ![p] = "acquiring"]
    /\ arriving' = arriving \cup {p}
    /\ UNCHANGED <<driverVars, sequence, admissions, fulfilled, holder, waiters, token, reply,
                   retained, misbehaved, lucky>>

(* The grant arrives: the callback runs and logs lease_entered. *)
Enter(p) ==
    /\ client[p] = "acquiring" /\ reply[p] > 0
    /\ client' = [client EXCEPT ![p] = "entered"]
    /\ reply' = [reply EXCEPT ![p] = 0]
    /\ IF scenario = "contention"
       THEN /\ admissions' = admissions \cup
                  {[participant |-> p, sequence |-> sequence[p], token |-> reply[p]]}
            /\ UNCHANGED <<fulfilled, lucky>>
       ELSE fulfilled' = fulfilled \cup {p} /\ lucky' = TRUE /\ UNCHANGED admissions
    /\ UNCHANGED <<driverVars, sequence, holder, waiters, token, arriving, retained, misbehaved>>

(* The callback returns and withLease releases; the owner never returns, and
   a waiter of a round keeps what it got. *)
Leave(p) ==
    /\ scenario = "contention" /\ p # "owner"
    /\ client[p] = "entered"
    /\ client' = [client EXCEPT ![p] = "idle"]
    /\ sequence' = [sequence EXCEPT ![p] = @ + 1]
    /\ \/ /\ holder' = "none"
          /\ UNCHANGED <<retained, misbehaved>>
       \/ /\ MayMisbehave /\ ~misbehaved
          /\ misbehaved' = TRUE /\ retained' = {p}
          /\ UNCHANGED holder
    /\ UNCHANGED <<driverVars, admissions, fulfilled, waiters, token, arriving, reply,
                   lucky>>

ClientExits(p) ==
    /\ client[p] = "idle" /\ sequence[p] = OperationsOf(p)
    /\ client' = [client EXCEPT ![p] = "done"]
    /\ UNCHANGED <<driverVars, sequence, admissions, fulfilled, brokerVars>>

(* Mutant: an acquisition has no time-out. *)
AcquireTimesOutNever(p) ==
    /\ FALSE
    /\ UNCHANGED vars

(* waitSeconds, operationSignal *)
AcquireTimesOut(p) ==
    /\ client[p] = "acquiring" /\ reply[p] = 0
    /\ holder \in retained
    /\ client' = [client EXCEPT ![p] = "failed"]
    /\ UNCHANGED <<driverVars, sequence, admissions, fulfilled, brokerVars>>
-----------------------------------------------------------------------------
(* External: the broker. *)

BrokerReceives(p) ==
    /\ p \in arriving
    /\ arriving' = arriving \ {p}
    /\ waiters' = Append(waiters, p)
    /\ UNCHANGED <<driverVars, clientVars, holder, token, reply, retained, misbehaved,
                   lucky>>

(* The next waiter owns the lease, under a new number or, once, an old one. *)
BrokerGrants ==
    /\ holder = "none" /\ waiters # <<>>
    /\ holder' = Head(waiters) /\ waiters' = Tail(waiters)
    /\ \/ /\ token' = token + 1
          /\ reply' = [reply EXCEPT ![Head(waiters)] = token + 1]
          /\ UNCHANGED misbehaved
       \/ /\ MayMisbehave /\ ~misbehaved
          /\ \E old \in 1..token : reply' = [reply EXCEPT ![Head(waiters)] = old]
          /\ misbehaved' = TRUE
          /\ UNCHANGED token
    /\ UNCHANGED <<driverVars, clientVars, arriving, retained, lucky>>

(* The end of a session is noticed, or what it has is kept for good. *)
BrokerNotices(p) ==
    /\ Dead(p) /\ p \notin retained
    /\ holder = p \/ p \in ToSet(waiters)
    /\ \/ /\ holder' = IF holder = p THEN "none" ELSE holder
          /\ \/ p \notin ToSet(waiters) /\ UNCHANGED waiters
             \/ \E i \in DOMAIN waiters : waiters[i] = p /\ waiters' = RemoveAt(waiters, i)
          /\ UNCHANGED <<retained, misbehaved>>
       \/ /\ MayMisbehave /\ ~misbehaved
          /\ misbehaved' = TRUE /\ retained' = {p}
          /\ UNCHANGED <<holder, waiters>>
    /\ UNCHANGED <<driverVars, clientVars, token, arriving, reply, lucky>>
-----------------------------------------------------------------------------
(* The driver of the contention. *)

At(step) == outcome = "none" /\ Head(todo) = step
Done == todo' = Tail(todo)

(* Mutant: the fencing tokens are not compared. *)
LeaseAdmissionsCounted(entered) == Cardinality(entered) = Cardinality(Clients) * Operations

(* assertLeaseAdmissions *)
LeaseAdmissionsAccepted(entered) ==
    /\ Cardinality(entered) = Cardinality(Clients) * Operations
    /\ Cardinality({a.token : a \in entered}) = Cardinality(entered)
    /\ {a.participant : a \in entered} = Clients
    /\ \A p \in Clients : {a.sequence : a \in {b \in entered : b.participant = p}}
                              = 0..(Operations - 1)

Ended(p) == client[p] \in {"done", "failed"}

(* finishRoleContainers throws when a contender has failed. *)
Contend ==
    /\ At("contend") /\ Done
    /\ \A p \in Clients : Ended(p)
    /\ outcome' = IF /\ \A p \in Clients : client[p] = "done"
                     /\ LeaseAdmissionsAccepted(admissions)
                  THEN "none" ELSE "rejected"
    /\ UNCHANGED <<scenario, round, ghosts, clientVars, brokerVars>>

StartRole(step, p) ==
    /\ At(step) /\ Done
    /\ client' = [client EXCEPT ![p] = "starting"]
    /\ UNCHANGED <<scenario, round, outcome, ghosts, sequence, admissions, fulfilled, brokerVars>>

(* lease_entered, or the owner has exited without it. *)
AwaitEntered ==
    /\ At("awaitEntered") /\ Done
    /\ client["owner"] \in {"entered", "failed"}
    /\ outcome' = IF client["owner"] = "entered" THEN "none" ELSE "rejected"
    /\ UNCHANGED <<scenario, round, ghosts, clientVars, brokerVars>>

(* lease_contender_ready is logged before the lease is asked for. *)
AwaitReady ==
    /\ At("awaitReady") /\ Done
    /\ client["waiter"] # "starting"
    /\ UNCHANGED <<scenario, round, outcome, ghosts, clientVars, brokerVars>>

KillOwner ==
    /\ At("killOwner") /\ Done
    /\ client' = [client EXCEPT !["owner"] = "killed"]
    /\ UNCHANGED <<scenario, round, outcome, ghosts, sequence, admissions, fulfilled, brokerVars>>

TokensOf(p) == {a.token : a \in {b \in admissions : b.participant = p}}

FinishWaiter ==
    /\ At("finishWaiter") /\ Done
    /\ Ended("waiter")
    /\ outcome' = IF /\ client["waiter"] = "done"
                     /\ \A t \in TokensOf("waiter"), u \in TokensOf("owner") : t > u
                  THEN "none" ELSE "rejected"
    /\ UNCHANGED <<scenario, round, ghosts, clientVars, brokerVars>>

(* The query of the probe. *)
Probe ==
    /\ At("probe")
    /\ outcome' = IF holder = "none" /\ waiters = <<>> THEN "passed" ELSE "rejected"
    /\ UNCHANGED <<scenario, round, todo, ghosts, clientVars, brokerVars>>
-----------------------------------------------------------------------------
(* The rounds of the waiter races. *)

(* acquire with waitSeconds 0, by the owner or its replacement: granted at
   once, or refused, which throws. *)
AcquireNow(step) ==
    /\ At(step)
    /\ \/ /\ holder = "none"
          /\ Done /\ holder' = "main"
          /\ token' = token + 1
          /\ UNCHANGED outcome
       \/ /\ holder # "none"
          /\ outcome' = "rejected"
          /\ UNCHANGED <<todo, holder, token>>
    /\ UNCHANGED <<scenario, round, ghosts, clientVars, waiters, arriving, reply, retained, misbehaved,
                   lucky>>

(* The waiters have connected; all of them ask for the lease. *)
ConnectWaiters ==
    /\ At("connect") /\ Done
    /\ client' = [p \in Participants |-> IF p \in Clients THEN "acquiring" ELSE client[p]]
    /\ arriving' = Clients
    /\ fulfilled' = {} /\ reply' = [p \in Participants |-> 0]
    /\ UNCHANGED <<scenario, round, outcome, ghosts, sequence, admissions, holder, waiters, token,
                   retained, misbehaved, lucky>>

(* Mutant: a lease that is still held does not matter. *)
DepthReachedByQueue(expected) == Len(waiters) = expected

(* waitForWaiterDepth *)
DepthReached(expected) == Len(waiters) = expected /\ (expected > 0 \/ holder = "none")

AwaitDepth(step, expected) ==
    /\ At(step)
    /\ \/ DepthReached(expected) /\ Done /\ UNCHANGED outcome
       \/ ~DepthReached(expected) /\ retained # {} /\ outcome' = "rejected" /\ UNCHANGED todo
    /\ UNCHANGED <<scenario, round, ghosts, clientVars, brokerVars>>

(* close rejects an acquisition that is still waiting. *)
CloseWaiter(p) ==
    /\ At("close") \/ At("closeAndRelease")
    /\ client[p] \in {"acquiring", "entered", "failed"}
    /\ client' = [client EXCEPT ![p] = "closed"]
    /\ reply' = [reply EXCEPT ![p] = 0]
    /\ UNCHANGED <<driverVars, sequence, admissions, fulfilled, holder, waiters, token, arriving,
                   retained, misbehaved, lucky>>

Release ==
    /\ At("release") \/ At("closeAndRelease")
    /\ holder = "main"
    /\ todo' = IF Head(todo) = "release" THEN Tail(todo) ELSE todo
    /\ \/ /\ holder' = "none"
          /\ UNCHANGED <<retained, misbehaved>>
       \/ /\ MayMisbehave /\ ~misbehaved /\ Head(todo) = "release"
          /\ misbehaved' = TRUE /\ retained' = {"main"}
          /\ UNCHANGED holder
    /\ UNCHANGED <<scenario, round, outcome, ghosts, clientVars, waiters, token, arriving, reply,
                   lucky>>

(* Promise.all of the closes, and of the release in odd rounds. *)
AllClosed ==
    /\ At("close") \/ (At("closeAndRelease") /\ holder # "main")
    /\ \A p \in Clients : client[p] = "closed"
    /\ Done
    /\ UNCHANGED <<scenario, round, outcome, ghosts, clientVars, brokerVars>>

(* Every acquisition that was fulfilled is a ghost; its client is closed, so
   that it cannot release any more. *)
Settle ==
    /\ At("settle") /\ Done
    /\ ghosts' = ghosts + Cardinality(fulfilled)
    /\ UNCHANGED <<scenario, round, outcome, clientVars, brokerVars>>

(* The next round, or assertLeaseWaiterRaceEvidence with the final query. *)
EndRound ==
    /\ At("endRound")
    /\ IF round + 1 < Rounds
       THEN round' = round + 1 /\ todo' = RoundSteps(round + 1) /\ UNCHANGED outcome
       ELSE /\ outcome' = IF ghosts = 0 /\ waiters = <<>> THEN "passed" ELSE "rejected"
            /\ UNCHANGED <<round, todo>>
    /\ UNCHANGED <<scenario, ghosts, clientVars, brokerVars>>
-----------------------------------------------------------------------------
(* A wait reaches its deadline for no fault of the broker. *)
DeadlinePasses ==
    /\ outcome = "none"
    /\ Head(todo) \in {"contend", "awaitEntered", "awaitReady", "finishWaiter", "awaitDepth",
                       "awaitEmpty"}
    /\ outcome' = "timeout"
    /\ UNCHANGED <<scenario, round, todo, ghosts, clientVars, brokerVars>>

Driver ==
    \/ Contend \/ StartRole("startOwner", "owner") \/ AwaitEntered
    \/ StartRole("startWaiter", "waiter") \/ AwaitReady \/ KillOwner \/ FinishWaiter \/ Probe
    \/ AcquireNow("acquire") \/ AcquireNow("replace") \/ ConnectWaiters
    \/ AwaitDepth("awaitDepth", Cardinality(Clients)) \/ AwaitDepth("awaitEmpty", 0)
    \/ (\E p \in Clients : CloseWaiter(p)) \/ Release \/ AllClosed \/ Settle \/ EndRound

Others ==
    \/ BrokerGrants
    \/ \E p \in Participants :
          \/ ClientConnects(p) \/ Acquire(p) \/ Enter(p) \/ Leave(p) \/ ClientExits(p)
          \/ AcquireTimesOut(p) \/ BrokerReceives(p) \/ BrokerNotices(p)

Next == outcome = "none" /\ (Driver \/ Others \/ DeadlinePasses)

Spec == Init /\ [][Next]_vars

FairSpec ==
    /\ Spec
    /\ WF_vars(outcome = "none" /\ Driver)
    /\ WF_vars(outcome = "none" /\ Others)
-----------------------------------------------------------------------------
(* No correct broker is rejected, however late it notices that an owner or a
   waiter is gone, unless a waiter was granted the lease before it was closed
   (ghostAcquisitions counts it). *)
NoFalseAlarm == outcome = "rejected" => misbehaved \/ lucky

(* A run that passes leaves no owner and no waiter behind, also when the
   broker keeps a lease that was released, or what a dead client had.  The
   exception is the last release of the waiter races: the final query's isHeld
   is not looked at. *)
AcceptedIsReleased ==
    outcome = "passed" =>
        /\ waiters = <<>>
        /\ holder = "none" \/ (scenario = "waiter-races" /\ holder = "main")

(* "requires every critical section to receive a unique fencing token ... and
   requires a waiting client to acquire with a higher token" (README.md): so
   it is for the contenders, and for the owner and its successor, in every run
   that passes. *)
AcceptedIsFenced ==
    outcome = "passed" /\ scenario = "contention" =>
        /\ \A a, b \in admissions : a.participant \in Clients /\ b.participant \in Clients
                                       /\ a.token = b.token => a = b
        /\ \E a, b \in admissions : /\ a.participant = "owner" /\ b.participant = "waiter"
                                    /\ a.token < b.token

(* A run that assertLeaseAdmissions, the probe and the final query let pass has
   left no owner or waiter behind, and its admissions were fenced. *)
AcceptedIsTrue == AcceptedIsReleased /\ AcceptedIsFenced

(* Every run ends: a dead owner blocks nobody, and no close or release waits
   for another one. *)
RunEnds == <>(outcome # "none")
=============================================================================
