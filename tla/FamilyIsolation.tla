--------------------------- MODULE FamilyIsolation ---------------------------
(***************************************************************************)
(* The scenarios about route families: two or three authenticated          *)
(* identities use the same routes and must not meet                        *)
(* (route-family-isolation-matrix), the actor of one family is made to     *)
(* panic and the others must not notice (family-actor-partial-failure-     *)
(* isolation, same-shard-family-failure-isolation, family-actor-inflight-  *)
(* concurrent-failure, -exhaustion-readiness, -degradation-observability,  *)
(* actor-supervision-failpoint), and one family is noisy                   *)
(* (same-shard-family-fairness).                                           *)
(*                                                                         *)
(* A scenario is a script: the driver and the role containers that it      *)
(* starts one after the other are one sequential process.  The broker is   *)
(* external and concurrent: actors panic, counters grow, readiness is      *)
(* withdrawn, Notices arrive and sessions are cleaned up at any later      *)
(* moment, but within the sleeps and deadlines of the scripts.  A run has  *)
(* one broker, correct or with one lasting defect.                         *)
(***************************************************************************)
EXTENDS Integers, Sequences, FiniteSets

CONSTANTS
    ShardCount,     \* DESTROYER_FAMILY_ACTOR_SHARD_COUNT
    Clients,        \* of the active fault
    Cycles,         \* of the in-flight failure
    Scenarios,
    Defects         \* of the broker; "none" is a correct one

ASSUME ShardAssumption == ShardCount \in Nat \ {0, 1}
ASSUME ClientsAssumption == IsFiniteSet(Clients)
ASSUME CyclesAssumption == Cycles \in Nat \ {0}
ASSUME ScenariosAssumption ==
    Scenarios \subseteq {"matrix", "partial", "sameShard", "inflight", "exhaustion",
                         "degradation", "supervision", "fairness"}

Durable == {"kv", "queue", "stream", "schedule"}
Live == {"notice", "lease", "rpc"}
Domains == Durable \cup Live
Sessions == {"A", "B", "P"}     \* two holders or workers, and a probe or canary
Identities == {"a", "b", "c"}

VARIABLES
    scenario, todo,
    verdict,        \* of the run, once its finally block has begun
    outcome,        \* "none", "passed", "rejected", "timeout"
    actor,          \* of a family in a domain: "up", "ordered" (to panic), "down", "counted"
    ready,          \* what /readyz says
    failedClosed,   \* fitz_<domain>_family_failed_closed_total
    kept,           \* durable content of a family in a domain: who wrote it
    open,           \* families with an uncommitted Stream session
    workers, listeners,     \* of a family: pairs of a session and its identity
    lease,          \* of a family: the session that holds it
    session,        \* "none", "up", "gone" (not cleaned up yet)
    mail,           \* Notices under way: session, its identity and that of the publisher
    own, foreign,   \* Notices that a session has received
    handled,        \* RPC requests that the worker of a session has answered
    baseline,       \* what the driver has read of failedClosed
    shortfall,      \* a counter of the evidence is not what it must be
    erred,          \* clients whose errors the driver has seen
    defect,         \* of the broker
    shared,         \* the domain in which it does not tell families apart
    raced,          \* history: a request overtook a panic that had been confirmed, or a
                    \* canary of the fairness was slow though each of its waits was in time
    early           \* history: the survivor was probed before the killed holder was cleaned up

driverVars == <<scenario, todo, verdict, outcome>>
seen == <<baseline, shortfall, erred>>
actors == <<actor, ready, failedClosed, open>>
routes == <<workers, listeners, lease, session>>
traffic == <<mail, own, foreign, handled>>
history == <<defect, shared, raced, early>>
vars == <<driverVars, actors, kept, routes, traffic, seen, history>>
-----------------------------------------------------------------------------
(* family-shard-topology.ts and FITZ_ROUTE_FAMILY_MAP *)

PrimaryFamily == 1
(* Mutant: the family before the one that shares the shard. *)
SameShardFamilyOffByOne == ShardCount
SameShardFamily == ShardCount + 1
Families == 1..SameShardFamily
Shard(f) == (f - 1) % ShardCount

Provisioned == IF scenario \in {"sameShard", "inflight", "fairness"} THEN Families ELSE 1..2

Family(i) == CASE i = "a" -> PrimaryFamily
               [] i = "b" -> (IF scenario \in {"sameShard", "fairness"} THEN SameShardFamily ELSE 2)
               [] i = "c" -> SameShardFamily

(* The family whose state a request meets. *)
Slot(i, d) == IF d = shared THEN PrimaryFamily ELSE Family(i)
-----------------------------------------------------------------------------
(* The scripts. *)

Hold(s, i) ==
    <<<<"subscribe", s, i>>, <<"register", s, i>>, <<"acquire", s, i>>,
      <<"seed", i, "kv">>, <<"seed", i, "queue">>, <<"seed", i, "stream">>,
      <<"seed", i, "schedule">>, <<"publish", i>>, <<"awaitNotice", s>>,
      <<"leaseHeld", i>>, <<"callOwn", i>>>>

Verify(i) ==
    <<<<"verify", i, "kv">>, <<"verify", i, "queue">>, <<"verify", i, "stream">>,
      <<"verify", i, "schedule">>, <<"subscribe", "P", i>>, <<"publish", i>>,
      <<"awaitNotice", "P">>, <<"leave", "P">>>>

ProbeSurvivor(i) == <<<<"leaseHeld", i>>>> \o Verify(i) \o <<<<"callOwn", i>>, <<"sleep">>>>

ProbeClosed(i) ==
    <<<<"leaseReleased", i>>, <<"callRefused", i>>>> \o Verify(i)
    \o <<<<"acquire", "P", i>>, <<"leave", "P">>, <<"register", "P", i>>, <<"callOwn", i>>,
         <<"leave", "P">>, <<"sleep">>>>

Matrix ==
    Hold("A", "a") \o Hold("B", "b") \o <<<<"sleep">>, <<"noForeign">>, <<"kill", "A">>>>
    \o ProbeSurvivor("b") \o ProbeClosed("a") \o <<<<"leave", "B">>, <<"holderEvidence">>, <<"finally">>>>

OneFamilyFails ==
    <<<<"register", "A", "a">>, <<"register", "B", "b">>, <<"append", "a", 0>>,
      <<"append", "b", 0>>, <<"inject", {"a"}, "stream">>, <<"refused", "a", "stream">>,
      <<"append", "b", 1>>, <<"peek", "b", 2>>, <<"ready">>,
      <<"inject", {"a"}, "rpc">>, <<"refused", "a", "rpc">>, <<"leave", "B">>, <<"sleep">>,
      <<"register", "P", "b">>, <<"callSibling", "b">>, <<"leave", "P">>, <<"ready">>,
      <<"evidence">>>>

(* The same steps, on one shard. *)
SameShardFamilyFails == OneFamilyFails

InflightCycle ==
    <<<<"baseline", "stream">>, <<"baseline", "rpc">>, <<"begin">>,
      <<"inject", {"a", "b"}, "stream">>, <<"sleep">>, <<"commitRefused", "a">>,
      <<"commitRefused", "b">>, <<"append", "c", 0>>, <<"peek", "c", 1>>, <<"ready">>,
      <<"register", "A", "a">>, <<"register", "B", "b">>, <<"register", "P", "c">>,
      <<"startCalls">>, <<"inject", {"a", "b"}, "rpc">>, <<"callSibling", "c">>, <<"endCalls">>,
      <<"ready">>, <<"metric", "stream", 2>>, <<"metric", "rpc", 2>>, <<"restart">>,
      <<"canary", "c", Domains>>>>

Prepare(d) == IF d = "stream" THEN <<<<"append", "a", 0>>, <<"append", "b", 0>>>>
              ELSE <<<<"register", "A", "a">>, <<"register", "B", "b">>>>

Exhaust(d) ==
    Prepare(d)
    \o <<<<"inject", {"a"}, d>>, <<"refused", "a", d>>, <<"ready">>,
         <<"inject", {"b"}, d>>, <<"refused", "b", d>>, <<"unready">>, <<"restart">>,
         <<"canary", "a", Domains>>>>

Degrade(d) ==
    <<<<"baseline", d>>, <<"inject", {"a"}, d>>, <<"metric", d, 1>>, <<"inject", {"a"}, d>>,
      <<"sleep">>, <<"repeated", d, 1>>, <<"ready">>, <<"canary", "b", Domains>>, <<"restart">>,
      <<"metricReset", d>>>>

(* After Notice a fan-out of Notices, after Queue a redelivery, then the canary. *)
Supervise(d) ==
    <<<<"injectAll", {d}>>, <<"unready">>, <<"restart">>,
      <<"canary", "a", IF d \in {"notice", "queue"} THEN {d} ELSE Domains>>>>

ActiveFault ==
    <<<<"injectAll", Domains>>, <<"unready">>, <<"clientErrors">>, <<"restart">>,
      <<"canary", "a", Domains>>>>

(* The loops over cycles and over canaries. *)
Repeat(script, n) == [k \in 1..(n * Len(script)) |-> script[((k - 1) % Len(script)) + 1]]
Evidence == <<<<"evidence">>>>

Noise == <<<<"publish", "a">>, <<"publish", "b">>, <<"awaitCanary">>, <<"awaitNoise">>>>

Script(s) ==
    CASE s = "matrix" -> Matrix
      [] s = "partial" -> OneFamilyFails
      [] s = "sameShard" -> SameShardFamilyFails
      [] s = "inflight" -> Repeat(InflightCycle, Cycles) \o Evidence
      [] s = "exhaustion" -> Exhaust("stream") \o Exhaust("rpc") \o Evidence
      [] s = "degradation" -> Degrade("stream") \o Degrade("rpc") \o Evidence
      [] s = "supervision" ->
            Supervise("notice") \o Supervise("queue") \o Supervise("kv") \o Supervise("lease")
            \o Supervise("schedule") \o Supervise("stream") \o Supervise("rpc")
            \o ActiveFault \o Evidence
      [] s = "fairness" -> <<<<"subscribe", "P", "b">>>> \o Repeat(Noise, Cycles) \o Evidence

Init ==
    /\ scenario \in Scenarios /\ todo = Script(scenario) /\ verdict = "none" /\ outcome = "none"
    /\ actor = [f \in Families |-> [d \in Domains |-> "up"]]
    /\ ready = TRUE /\ failedClosed = [d \in Domains |-> 0] /\ open = {}
    /\ kept = [f \in Families |-> [d \in Durable |-> <<>>]]
    /\ workers = [f \in Families |-> {}] /\ listeners = [f \in Families |-> {}]
    /\ lease = [f \in Families |-> "none"] /\ session = [s \in Sessions |-> "none"]
    /\ mail = {} /\ own = [s \in Sessions |-> 0] /\ foreign = [s \in Sessions |-> 0]
    /\ handled = [s \in Sessions |-> 0]
    /\ baseline = [d \in Domains |-> 0] /\ shortfall = FALSE /\ erred = {}
    /\ defect \in Defects
    /\ shared \in (IF defect = "shared" THEN Domains ELSE {"none"})
    /\ raced = FALSE /\ early = FALSE
-----------------------------------------------------------------------------
(* The broker. *)

Failed(f, d) == actor[f][d] \in {"down", "counted"}
SomeFailed == \E f \in Families, d \in Domains : Failed(f, d)
Withdrawable ==
    /\ ready /\ defect # "stubborn"
    /\ \/ \E d \in Domains : \A f \in Provisioned : Failed(f, d)
       \/ defect = "eager" /\ SomeFailed

(* Whatever was under way has happened: the sleeps and deadlines are long
   enough for it. *)
Settled ==
    /\ \A f \in Families, d \in Domains : actor[f][d] \in {"up", "counted"}
    /\ ~Withdrawable /\ mail = {} /\ \A s \in Sessions : session[s] # "gone"

(* Those who fail with family f. *)
Stricken(f) ==
    {f} \cup {g \in Provisioned : \/ defect = "shardwide" /\ Shard(g) = Shard(f)
                                 \/ defect = "domainwide"
                                 \/ scenario = "supervision"}   \* the actor of the domain

Panic(f, d) ==
    /\ actor[f][d] = "ordered"
    /\ actor' = [g \in Families |-> [e \in Domains |->
                    IF e # d \/ g \notin Stricken(f) \/ Failed(g, e) THEN actor[g][e]
                    ELSE IF defect = "ignored" THEN "up"
                    ELSE IF scenario = "supervision" THEN "counted" ELSE "down"]]
    /\ open' = IF d = "stream" /\ defect # "ignored" THEN open \ Stricken(f) ELSE open
    /\ kept' = IF d = "stream" /\ defect = "committed" /\ f \in open
               THEN [kept EXCEPT ![f]["stream"] = Append(@, <<"uncommitted", 1>>)] ELSE kept
    /\ UNCHANGED <<driverVars, ready, failedClosed, routes, traffic, seen, history>>

Count(f, d) ==
    /\ actor[f][d] = "down"
    /\ actor' = [actor EXCEPT ![f][d] = "counted"]
    /\ failedClosed' = IF defect = "uncounted" THEN failedClosed
                       ELSE [failedClosed EXCEPT ![d] = @ + 1]
    /\ UNCHANGED <<driverVars, ready, open, kept, routes, traffic, seen, history>>

Withdraw ==
    /\ Withdrawable /\ ready' = FALSE
    /\ UNCHANGED <<driverVars, actor, failedClosed, open, kept, routes, traffic, seen, history>>

Deliver(m) ==
    /\ m \in mail /\ mail' = mail \ {m}
    /\ own' = IF m[2] = m[3] THEN [own EXCEPT ![m[1]] = @ + 1] ELSE own
    /\ foreign' = IF m[2] # m[3] THEN [foreign EXCEPT ![m[1]] = @ + 1] ELSE foreign
    /\ UNCHANGED <<driverVars, actors, kept, routes, handled, seen, history>>

(* What a session that is gone had, one kind after the other. *)
Of(s, pairs) == {p \in pairs : p[1] = s}
Leftover(s, f) ==
    \/ lease[f] = s /\ defect # "leakLease"
    \/ Of(s, workers[f]) # {} /\ defect # "leakWorker"
    \/ Of(s, listeners[f]) # {}

Cleanup(s) ==
    /\ session[s] = "gone"
    /\ \E f \in Families : LET g == IF defect = "overclean" THEN Families ELSE {f} IN
        \/ /\ lease[f] = s /\ defect # "leakLease"
           /\ lease' = [h \in Families |-> IF h \in g THEN "none" ELSE lease[h]]
           /\ UNCHANGED <<workers, listeners, session>>
        \/ /\ Of(s, workers[f]) # {} /\ defect # "leakWorker"
           /\ workers' = [h \in Families |->
                    IF h = f THEN workers[h] \ Of(s, workers[h])
                    ELSE IF h \in g THEN {} ELSE workers[h]]
           /\ UNCHANGED <<lease, listeners, session>>
        \/ /\ Of(s, listeners[f]) # {}
           /\ listeners' = [h \in Families |-> listeners[h] \ Of(s, listeners[h])]
           /\ UNCHANGED <<lease, workers, session>>
        \/ /\ \A h \in Families : ~Leftover(s, h)
           /\ session' = [session EXCEPT ![s] = "none"]
           /\ UNCHANGED <<lease, workers, listeners>>
    /\ UNCHANGED <<driverVars, actors, kept, traffic, seen, history>>
-----------------------------------------------------------------------------
(* The driver. *)

Step == Head(todo)
At(name) == outcome = "none" /\ Step[1] = name

Proceed ==
    /\ IF Len(todo) = 1 THEN outcome' = "passed" /\ UNCHANGED todo
       ELSE todo' = Tail(todo) /\ UNCHANGED outcome
    /\ UNCHANGED <<scenario, verdict>>

(* An error ends the run, that of the matrix through its finally block. *)
Fail(why) ==
    IF scenario = "matrix"
    THEN verdict' = why /\ todo' = <<<<"finally">>>> /\ UNCHANGED <<scenario, outcome>>
    ELSE outcome' = why /\ UNCHANGED <<scenario, todo, verdict>>

Check(accepted) == IF accepted THEN Proceed ELSE Fail("rejected")

(* A step that only observes: it waits until it is decided. *)
Observe(name, decided, accepted) ==
    /\ At(name) /\ decided /\ Check(accepted)
    /\ UNCHANGED <<actors, kept, routes, traffic, seen, history>>

(* A check whose result is a counter of the evidence. *)
Tally(name, decided, exact) ==
    /\ At(name) /\ decided /\ Proceed
    /\ shortfall' = (shortfall \/ ~exact)
    /\ UNCHANGED <<actors, kept, routes, traffic, baseline, erred, history>>

Subscribe ==
    /\ At("subscribe") /\ Proceed
    /\ LET s == Step[2]  i == Step[3] IN
        /\ session' = [session EXCEPT ![s] = "up"]
        /\ listeners' = [listeners EXCEPT ![Slot(i, "notice")] = @ \cup {<<s, i>>}]
        /\ own' = [own EXCEPT ![s] = 0] /\ foreign' = [foreign EXCEPT ![s] = 0]
    /\ UNCHANGED <<actors, kept, workers, lease, mail, handled, seen, history>>

RegisterWorker ==
    /\ At("register") /\ Proceed
    /\ LET s == Step[2]  i == Step[3] IN
        /\ session' = [session EXCEPT ![s] = "up"]
        /\ workers' = [workers EXCEPT ![Slot(i, "rpc")] = @ \cup {<<s, i>>}]
    /\ UNCHANGED <<actors, kept, listeners, lease, traffic, seen, history>>

(* waitSeconds is 0. *)
Acquire ==
    /\ At("acquire")
    /\ LET s == Step[2]  f == Slot(Step[3], "lease") IN
        /\ Check(lease[f] = "none")
        /\ lease' = IF lease[f] = "none" THEN [lease EXCEPT ![f] = s] ELSE lease
        /\ session' = [session EXCEPT ![s] = "up"]
    /\ UNCHANGED <<actors, kept, workers, listeners, traffic, seen, history>>

(* verifyLeaseState and waitForLeaseRelease *)
Free(i) == lease[Slot(i, "lease")] = "none"
LeaseHeld ==
    /\ At("leaseHeld") /\ Check(~Free(Step[2]))
    /\ early' = (early \/ session["A"] = "gone")
    /\ UNCHANGED <<actors, kept, routes, traffic, seen, defect, shared, raced>>

(* Mutant: the loop has no deadline. *)
LeaseReleasedUnbounded == Observe("leaseReleased", Free(Step[2]), TRUE)

LeaseReleased == Observe("leaseReleased", Free(Step[2]) \/ Settled, Free(Step[2]))

(* unsubscribe, release and close; a failure is ignored *)
Without(s) ==
    /\ workers' = [f \in Families |-> workers[f] \ Of(s, workers[f])]
    /\ listeners' = [f \in Families |-> listeners[f] \ Of(s, listeners[f])]
    /\ lease' = [f \in Families |-> IF lease[f] = s THEN "none" ELSE lease[f]]
    /\ mail' = {m \in mail : m[1] # s}

Leave ==
    /\ At("leave") /\ Proceed
    /\ Without(Step[2]) /\ session' = [session EXCEPT ![Step[2]] = "none"]
    /\ UNCHANGED <<actors, kept, own, foreign, handled, seen, history>>

KillHolder ==
    /\ At("kill") /\ Proceed
    /\ session' = [session EXCEPT !["A"] = "gone"]
    /\ mail' = {m \in mail : m[1] # "A"}
    /\ UNCHANGED <<actors, kept, workers, listeners, lease, own, foreign, handled, seen, history>>

Publish ==
    /\ At("publish") /\ Proceed
    /\ mail' = IF defect = "starved" /\ scenario = "fairness" THEN mail
               ELSE mail \cup {<<l[1], l[2], Step[2]>> : l \in listeners[Slot(Step[2], "notice")]}
    /\ UNCHANGED <<actors, kept, routes, own, foreign, handled, seen, history>>

(* The holder waits for its own Notice, the probe for the first one. *)
AwaitNotice ==
    LET s == Step[2] IN
    \/ Observe("awaitNotice", own[s] > 0, TRUE)
    \/ Observe("awaitNotice", s = "P" /\ foreign[s] > 0, FALSE)
    \/ Observe("awaitNotice", own[s] = 0 /\ Settled, FALSE)

(* A canary of the fairness: Notices that are not its own are not looked at.  The
   publish and the delivery have a limit each, longestCanaryMs is their sum: it may
   reach the limit although neither does (slow). *)
AwaitCanary ==
    /\ At("awaitCanary") /\ (own["P"] > 0 \/ Settled) /\ Proceed
    /\ \E slow \in BOOLEAN :
        /\ shortfall' = (shortfall \/ own["P"] = 0 \/ slow)
        /\ raced' = (raced \/ (own["P"] > 0 /\ slow))
    /\ own' = [own EXCEPT !["P"] = 0]
    /\ UNCHANGED <<actors, kept, routes, mail, foreign, handled, baseline, erred, defect, shared,
                   early>>

(* A noisy publish that fails fails the run, so that noisyCompleted is never short. *)
AwaitNoise ==
    \/ Observe("awaitNoise", TRUE, TRUE)
    \/ Observe("awaitNoise", defect = "starved", FALSE)
-----------------------------------------------------------------------------
(* What a family has stored. *)

Mine(i) == <<i, 1>>

(* Seeding kv and schedule replaces what was there, the queue is drained of
   its first item, and the stream is appended to at offset 0. *)
Seeded(i, d, content) ==
    CASE d \in {"kv", "schedule"} -> <<Mine(i)>>
      [] d = "queue" -> Append(Tail(Append(content, Mine(i))), Mine(i))
      [] d = "stream" -> Append(content, Mine(i))

SeedAccepted(i, d, content) ==
    CASE d \in {"kv", "schedule"} -> TRUE
      [] d = "queue" -> Head(Append(content, Mine(i))) = Mine(i)
      [] d = "stream" -> content = <<>>

Seed ==
    /\ At("seed")
    /\ LET i == Step[2]  d == Step[3]  f == Slot(i, d) IN
        /\ Check(SeedAccepted(i, d, kept[f][d]))
        /\ kept' = [kept EXCEPT ![f][d] = Seeded(i, d, @)]
    /\ UNCHANGED <<actors, routes, traffic, seen, history>>

(* Mutant: that a value is found is enough. *)
VerifiedFound(i, content) == content # <<>>

(* verifyKv, verifyQueue, verifyStream and verifySchedule *)
Verified(i, content) == content = <<Mine(i)>>

VerifyStored ==
    /\ At("verify")
    /\ LET i == Step[2]  d == Step[3]  f == Slot(i, d) IN
        /\ Check(Verified(i, kept[f][d]))
        /\ kept' = IF d = "queue" THEN [kept EXCEPT ![f][d] = <<>>] ELSE kept
    /\ UNCHANGED <<actors, routes, traffic, seen, history>>

AppendRecord ==
    /\ At("append")
    /\ LET i == Step[2]  n == Step[3]  f == Slot(i, "stream")
           ok == actor[f]["stream"] = "up" /\ Len(kept[f]["stream"]) = n IN
        /\ Check(ok)
        /\ kept' = IF ok THEN [kept EXCEPT ![f]["stream"] = Append(@, <<i, n + 1>>)] ELSE kept
    /\ UNCHANGED <<actors, routes, traffic, seen, history>>

Peek ==
    LET i == Step[2]  n == Step[3]  records == kept[Slot(i, "stream")]["stream"] IN
    \/ Tally("peek", ~Failed(Slot(i, "stream"), "stream"),
             records # <<>> /\ records[Len(records)] = <<i, n>>)
    \/ Observe("peek", Failed(Slot(i, "stream"), "stream"), FALSE)

(* prepareInflightStreams; the routes of a cycle are its own *)
BeginUncommitted ==
    /\ At("begin") /\ Proceed
    /\ open' = {Family("a"), Family("b")}
    /\ kept' = [f \in Families |-> [kept[f] EXCEPT !["stream"] = <<>>]]
    /\ UNCHANGED <<actor, ready, failedClosed, routes, traffic, seen, history>>
-----------------------------------------------------------------------------
(* Calls. *)

(* A call of identity i is answered by the worker w. *)
Answers(w, i) ==
    /\ actor[Slot(i, "rpc")]["rpc"] # "down" /\ actor[Slot(i, "rpc")]["rpc"] # "counted"
    /\ w \in workers[Slot(i, "rpc")] /\ session[w[1]] = "up"

(* It ends with an error: no worker, a worker that is gone, a dead actor. *)
Errs(i) ==
    LET f == Slot(i, "rpc") IN
    \/ workers[f] = {} \/ Failed(f, "rpc") \/ actor[f]["rpc"] = "ordered"
    \/ \E w \in workers[f] : session[w[1]] # "up"

ExactlyOne(w, i) == w[2] = i /\ defect # "doubled"

Demand(exact) == Check(exact) /\ UNCHANGED shortfall
Record(exact) == Proceed /\ shortfall' = (shortfall \/ ~exact)

(* verifyRpc fails on the first answer that is not the only one of its own
   family; the sibling's call only adds to crossFamilyDeliveries. *)
CallFamily(name) ==
    /\ At(name)
    /\ \/ \E w \in UNION {workers[f] : f \in Families} :
            /\ Answers(w, Step[2])
            /\ IF name = "callOwn" THEN Demand(ExactlyOne(w, Step[2]))
                                   ELSE Record(ExactlyOne(w, Step[2]))
            /\ handled' = [handled EXCEPT ![w[1]] = IF @ = 2 THEN 2 ELSE @ + 1]
       \/ Errs(Step[2]) /\ Fail("rejected") /\ UNCHANGED <<handled, shortfall>>
    /\ UNCHANGED <<actors, kept, routes, mail, own, foreign, baseline, erred, history>>

(* verifyRpcUnavailable: no answer within 2 s is a rejection too. *)
CallRefused ==
    LET f == Slot(Step[2], "rpc") IN
    \/ Observe("callRefused", \E w \in workers[f] : session[w[1]] = "up", FALSE)
    \/ Observe("callRefused", workers[f] = {} \/ (Settled /\ \E w \in workers[f] : session[w[1]] # "up"),
               TRUE)

(* startedA and startedB: the calls reach the worker of their family; with
   one route for all of them only by chance. *)
StartCalls ==
    \/ Observe("startCalls", TRUE, TRUE)
    \/ Observe("startCalls", shared = "rpc", FALSE)

(* The panic ends a call in flight, unless its worker has answered before: then it
   must have one response. *)
EndCalls ==
    \/ Observe("endCalls", TRUE, TRUE)
    \/ Observe("endCalls", defect = "doubled", FALSE)
-----------------------------------------------------------------------------
(* Failpoints, readiness and metrics. *)

Ordered(targets, ds) ==
    [f \in Families |-> [d \in Domains |->
        IF f \in targets /\ d \in ds /\ actor[f][d] = "up" THEN "ordered" ELSE actor[f][d]]]

Inject ==
    /\ At("inject") /\ Proceed
    /\ LET targets == {Family(i) : i \in Step[2]}  d == Step[3] IN
        /\ actor' = Ordered(targets, {d})
        /\ failedClosed' = IF defect = "overcounted" /\ \E f \in targets : Failed(f, d)
                           THEN [failedClosed EXCEPT ![d] = @ + 1] ELSE failedClosed
    /\ UNCHANGED <<ready, open, kept, routes, traffic, seen, history>>

InjectAll ==
    /\ At("injectAll") /\ Proceed
    /\ actor' = Ordered(Provisioned, Step[2]) /\ erred' = {}
    /\ UNCHANGED <<ready, failedClosed, open, kept, routes, traffic, baseline, shortfall, history>>

(* expectRejected: every error counts.  Right after the answer of the failpoint
   the request may still be served. *)
Refused(name, f, d) ==
    /\ At(name)
    /\ \/ Failed(f, d) /\ Proceed /\ UNCHANGED raced
       \/ actor[f][d] = "up" /\ Fail("rejected") /\ UNCHANGED raced
       \/ actor[f][d] = "ordered" /\ Fail("rejected") /\ raced' = TRUE
    /\ UNCHANGED <<actors, kept, routes, traffic, seen, defect, shared, early>>

(* requireReady: an error is a failure. *)
Unanswered == defect = "hung" /\ SomeFailed
RequireReady == Observe("ready", TRUE, ready /\ ~Unanswered)

(* waitForReadinessWithdrawal and requireReadinessWithdrawal: an error, or no
   answer within 500 ms, is a withdrawal. *)
Withdrawn == ~ready \/ Unanswered
RequireWithdrawal == Observe("unready", Withdrawn \/ Settled, Withdrawn)

ReadBaseline ==
    /\ At("baseline") /\ Proceed
    /\ baseline' = [baseline EXCEPT ![Step[2]] = failedClosed[Step[2]]]
    /\ UNCHANGED <<actors, kept, routes, traffic, shortfall, erred, history>>

(* waitForMetric and waitForMetricDelta *)
Grown(d, n) == failedClosed[d] = baseline[d] + n
WaitForMetric == Observe("metric", Grown(Step[2], Step[3]) \/ Settled, Grown(Step[2], Step[3]))
MetricReset == Observe("metricReset", TRUE, failedClosed[Step[2]] = 0)

(* stopFitz and restartFitz, which waits until the broker is ready *)
Revived(f, d) == IF defect = "unrecovered" /\ Failed(f, d) THEN "counted" ELSE "up"
Restart ==
    /\ At("restart")
    /\ actor' = [f \in Families |-> [d \in Domains |-> Revived(f, d)]]
    /\ LET capacity == \A d \in Domains : \E f \in Provisioned : actor'[f][d] = "up" IN
        ready' = capacity /\ Check(capacity)
    /\ failedClosed' = IF defect = "unreset" THEN failedClosed ELSE [d \in Domains |-> 0]
    /\ open' = {} /\ mail' = {}
    /\ workers' = [f \in Families |-> {}] /\ listeners' = [f \in Families |-> {}]
    /\ lease' = [f \in Families |-> "none"] /\ session' = [s \in Sessions |-> "none"]
    /\ UNCHANGED <<kept, own, foreign, handled, seen, history>>

(* canary: an operation in every domain that it is about *)
Canary ==
    Observe("canary", TRUE, \A d \in Step[3] : actor[Slot(Step[2], d)][d] = "up")

ClientErrs(c) ==
    /\ At("clientErrors") /\ c \notin erred
    /\ SomeFailed /\ erred' = erred \cup {c}
    /\ UNCHANGED <<driverVars, actors, kept, routes, traffic, baseline, shortfall, history>>

(* assertRouteFamilyHolderEvidence and assertNoCrossFamilyNotice *)
NoForeignNotice == Observe("noForeign", TRUE, foreign["A"] = 0)
HolderEvidence ==
    Observe("holderEvidence", TRUE, foreign["B"] = 0 /\ own["B"] >= 2 /\ handled["B"] >= 2)

(* The last assertion; same-shard-family-failure-isolation also looks at the
   shards that its families are on. *)
EvidenceHolds ==
    /\ ~shortfall
    /\ scenario = "sameShard" => Shard(Family("a")) = Shard(Family("b"))

(* terminateRole *)
Finally ==
    /\ At("finally")
    /\ session' = [s \in Sessions |-> "none"]
    /\ workers' = [f \in Families |-> {}] /\ listeners' = [f \in Families |-> {}]
    /\ lease' = [f \in Families |-> "none"] /\ mail' = {}
    /\ IF verdict = "none" THEN Proceed ELSE outcome' = verdict /\ UNCHANGED <<scenario, todo, verdict>>
    /\ UNCHANGED <<actors, kept, own, foreign, handled, seen, history>>

(* A role container does not end in time for no fault of the broker. *)
DeadlinePasses ==
    /\ outcome = "none" /\ ~At("finally") /\ Fail("timeout")
    /\ UNCHANGED <<actors, kept, routes, traffic, seen, history>>
-----------------------------------------------------------------------------
MatrixDriver ==
    \/ Subscribe \/ RegisterWorker \/ Acquire \/ Leave \/ KillHolder \/ Publish \/ AwaitNotice
    \/ Seed \/ VerifyStored \/ CallRefused \/ NoForeignNotice \/ HolderEvidence \/ Finally
    \/ CallFamily("callOwn")
    \/ LeaseHeld \/ LeaseReleased

FailureDriver ==
    \/ AppendRecord \/ Peek \/ BeginUncommitted \/ StartCalls \/ Inject \/ InjectAll
    \/ Refused("refused", Slot(Step[2], Step[3]), Step[3])
    \/ Refused("commitRefused", Slot(Step[2], "stream"), "stream")
    \/ CallFamily("callSibling")
    \/ EndCalls \/ AwaitNoise
    \/ RequireReady \/ RequireWithdrawal \/ ReadBaseline \/ WaitForMetric \/ MetricReset
    \/ Tally("repeated", TRUE, Grown(Step[2], Step[3]))
    \/ Restart \/ Canary \/ AwaitCanary
    \/ Observe("clientErrors", erred = Clients \/ (Settled /\ ~SomeFailed), erred = Clients)
    \/ Observe("sleep", Settled, TRUE)
    \/ Observe("evidence", TRUE, EvidenceHolds)

Driver == MatrixDriver \/ FailureDriver

Broker ==
    \/ Withdraw
    \/ \E f \in Families, d \in Domains : Panic(f, d) \/ Count(f, d)
    \/ \E s \in Sessions : Cleanup(s)
    \/ \E m \in mail : Deliver(m)
    \/ \E c \in Clients : ClientErrs(c)

Next == outcome = "none" /\ (Driver \/ Broker \/ DeadlinePasses)

Spec == Init /\ [][Next]_vars

FairSpec ==
    /\ Spec
    /\ WF_vars(outcome = "none" /\ Driver)
    /\ WF_vars(outcome = "none" /\ Broker)
-----------------------------------------------------------------------------
(* A broker without a defect is not rejected, whenever its actors panic, its
   counters grow, its readiness is withdrawn, its Notices arrive and its
   sessions are cleaned up, if within the sleeps and deadlines of the scripts.  The
   exceptions (raced): partial, sameShard and exhaustion use the family as soon as
   the failpoint has answered, and the panic may come later; and a canary of the
   fairness that takes the limit of one wait for both of its waits. *)
NoFalseAlarm == outcome = "rejected" => defect # "none" \/ raced

(* The domains of which a scenario must find out that families are mixed up. *)
Exercised ==
    CASE scenario = "matrix" -> Domains
      [] scenario \in {"partial", "sameShard", "degradation"} -> {"stream", "rpc"}
      [] scenario \in {"inflight", "exhaustion"} -> {"stream"}
      [] OTHER -> {}

(* What every scenario finds wherever it shows: domains that do not tell
   families apart, failures and starvation that reach another family, answers
   that come twice, and a cleanup that takes the state of another family with
   it, unless the survivor was probed too early. *)
AcceptedIsIsolated ==
    outcome = "passed" =>
        /\ shared \notin Exercised
        /\ defect = "shardwide" => scenario \notin {"sameShard", "inflight"}
        /\ defect = "domainwide" => scenario \notin {"partial", "sameShard", "inflight", "degradation"}
        /\ defect = "overclean" => scenario # "matrix" \/ early
        /\ defect = "doubled" => scenario \notin {"matrix", "partial", "sameShard", "inflight"}
        /\ defect = "starved" => scenario # "fairness"

(* What it finds about a family that has failed: a panic that has no effect, is
   not counted or is counted again, readiness that is withdrawn at once, never,
   or not answered, actors and counters that survive a restart, and the Lease
   that a killed holder keeps. *)
AcceptedFailsClosed ==
    outcome = "passed" =>
        /\ defect = "ignored" => scenario \in {"matrix", "fairness"}
        /\ defect = "uncounted" => scenario \notin {"degradation", "inflight"}
        /\ defect = "overcounted" => scenario # "degradation"
        /\ defect = "stubborn" => scenario \notin {"exhaustion", "supervision"}
        /\ defect = "eager" => scenario \notin {"partial", "sameShard", "inflight", "degradation"}
        /\ defect = "hung" => scenario \in {"matrix", "fairness", "supervision"}
        /\ defect = "unrecovered" => scenario \notin {"exhaustion", "supervision"}
        /\ defect = "unreset" => scenario # "degradation"
        /\ defect = "leakLease" => scenario # "matrix"

(* A run that the checks of its script let pass had a broker without the defects
   that the scenario is for: families that meet, failures that spread, and
   failures that are not closed, counted, reported or repaired. *)
AcceptedIsTrue == AcceptedIsIsolated /\ AcceptedFailsClosed

(* Every run ends. *)
RunEnds == <>(outcome # "none")
=============================================================================
