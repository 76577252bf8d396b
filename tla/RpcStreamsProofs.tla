-------------------------- MODULE RpcStreamsProofs --------------------------
(* Proofs about RpcStreams: for every number of replicas and frames, a fleet
   that is accepted was served exactly, and a phase leaves nothing behind. *)
EXTENDS RpcStreams, FiniteSetTheorems, TLAPS

KindNames == {"pressure", "fleet", "cancel", "probe", "worker-kill", "fitz-restart"}

StepNames ==
    {"baseline", "startWorkers", "awaitWorkers", "startCallers", "awaitCallers", "release",
     "finishFleet", "finishCallers", "awaitProgress", "killWorkers", "killFitz", "restartFitz",
     "stopWorkers", "finishWorkers", "judge", "quiesce"}

WorkerStates == {"none", "starting", "ready", "lost", "stopping", "exited", "killed"}
CallerStates == {"none", "starting", "ready", "running", "complete", "failed"}
CallStates == {"idle", "open", "completed", "interrupted", "error"}

(* What a worker sends, and what is delivered to a caller: only the error that
   the broker reports itself, frame 0, comes from no worker. *)
Messages == [call : 0..Replicas, frame : Nat]
Deliveries == {f \in [worker : 0..Replicas, call : Callers, frame : Nat] :
                  f.frame > 0 => f.worker \in Workers}

(* Every variable has its type. *)
DriverType ==
    /\ scenario \in {"rpc-pressure", "rpc-stream-hose"}
    /\ phase \in {1, 2, 3, 4, 5, 6, 7} /\ (scenario = "rpc-pressure" => phase = 1)
    /\ todo \in Seq(StepNames)
    /\ callerFailure \in BOOLEAN /\ baseline \in BOOLEAN
    /\ stats \in {"unread", "busy", "idle", "failures"}
    /\ metrics \in {"unread", "busy", "idle"}
    /\ outcome \in {"none", "passed", "rejected", "timeout"}

WorkerType ==
    /\ worker \in [Workers -> WorkerStates]
    /\ handlers \in SUBSET (Workers \X Callers \X Nat)
    /\ handled \in [Workers -> Nat] /\ framesSent \in [Workers -> Nat]
    /\ progressed \in SUBSET Workers
    /\ abandoned \in BOOLEAN

CallerType ==
    /\ caller \in [Callers -> CallerStates]
    /\ call \in [Callers -> CallStates]
    /\ consumed \in [Callers -> Seq(Deliveries)]
    /\ cut \in SUBSET Callers

BrokerType ==
    /\ up \in BOOLEAN /\ registered \in SUBSET Workers /\ requests \in SUBSET Callers
    /\ pending \in SUBSET (Callers \X Workers)
    /\ inbox \in [Workers -> Seq(Messages)] /\ outbox \in [Callers -> Seq(Deliveries)]
    /\ late \in Nat /\ ended \in BOOLEAN /\ closing \in BOOLEAN
    /\ failures \in BOOLEAN /\ misbehaved \in BOOLEAN /\ straggled \in BOOLEAN

TypeOK == DriverType /\ WorkerType /\ CallerType /\ BrokerType

(* The steps that are left are the last ones of the phase. *)
Remains(q, p) == Len(q) \in 1..Len(p) /\ \A i \in 1..Len(q) : q[i] = p[i + Len(p) - Len(q)]
Place == Remains(todo, PhaseSteps(Kind))

(* The phase has not started its workers yet. *)
Fresh == Len(todo) >= Len(PhaseSteps(Kind)) - 1

(* No worker of the phase runs any more, or yet. *)
Over == Fresh \/ Head(todo) \in {"judge", "quiesce"}
              \/ (Kind = "worker-kill" /\ Head(todo) = "finishCallers")

(* Who runs: nobody outside of the fleet, and nobody once it is over. *)
WorkersInv ==
    /\ ~Fresh => \A w \in Workers : w \in Members \/ worker[w] = "none"
    /\ Over => \A w \in Workers : worker[w] \in {"none", "exited", "killed"}

(* Only live workers handle calls. *)
HandlersInv == \A h \in handlers : Alive(h[1])

(* What the broker knows of is of the fleet; the registration of a worker ends
   before its process does, unless that was killed. *)
RegisteredInv ==
    /\ registered \subseteq Members
    /\ \A p \in pending : p[2] \in Members
    /\ \A w \in registered :
          Alive(w) \/ (worker[w] = "killed" /\ Kind = "worker-kill")

(* A snapshot that shows nothing stays true: nothing can come any more. *)
Drained ==
    Fresh \/ outcome = "passed" \/ (Head(todo) = "quiesce" /\ stats \in {"idle", "failures"})
        => registered = {} /\ pending = {}

DrainedInv ==
    /\ Drained
    /\ Head(todo) # "quiesce" => stats = "unread"
    /\ outcome = "passed" => Head(todo) = "quiesce"

(* What a caller has accepted so far is the beginning of its response. *)
ConsumedInv ==
    \A c \in Callers :
        /\ \A n \in 1..Len(consumed[c]) :
              /\ consumed[c][n].call = c /\ consumed[c][n].frame = n
              /\ consumed[c][n].worker \in Workers
              /\ consumed[c][n].worker = consumed[c][1].worker
        /\ call[c] = "idle" => consumed[c] = <<>>
        /\ call[c] = "open" => Len(consumed[c]) < FramesPerCall
        /\ call[c] = "completed" => Len(consumed[c]) = FramesPerCall

(* An accepted fleet has completed its calls. *)
JudgedInv ==
    At("quiesce") /\ IsFleet(Kind) => \A c \in Members : call[c] = "completed"

(* The inductive invariant. *)
IInv ==
    /\ TypeOK /\ Place
    /\ WorkersInv /\ HandlersInv /\ RegisteredInv /\ DrainedInv
    /\ ConsumedInv /\ JudgedInv
-----------------------------------------------------------------------------
(* The phases and their steps. *)

(* A phase is one of those that the driver knows. *)
LEMMA KindType ==
    ASSUME DriverType
    PROVE  Kind \in KindNames
<1>1. CASE scenario = "rpc-pressure"
  BY <1>1 DEF DriverType, Kind, Phases, KindNames
<1>2. CASE scenario # "rpc-pressure"
  BY <1>2 DEF DriverType, Kind, Phases, KindNames
<1> QED
  BY <1>1, <1>2

(* The steps of a fleet. *)
LEMMA FleetSteps ==
    ASSUME NEW k, IsFleet(k)
    PROVE  LET P == PhaseSteps(k) IN
           /\ P \in Seq(StepNames) /\ Len(P) = 11
           /\ P[1] = "baseline" /\ P[2] = "startWorkers" /\ P[3] = "awaitWorkers"
           /\ P[4] = "startCallers" /\ P[5] = "awaitCallers" /\ P[6] = "release"
           /\ P[7] = "finishFleet" /\ P[8] = "stopWorkers" /\ P[9] = "finishWorkers"
           /\ P[10] = "judge" /\ P[11] = "quiesce"
<1>1. PhaseSteps(k) =
           <<"baseline", "startWorkers", "awaitWorkers", "startCallers", "awaitCallers", "release",
             "finishFleet", "stopWorkers", "finishWorkers", "judge", "quiesce">>
  BY DEF PhaseSteps, IsFleet
<1> QED
  BY ONLY <1>1 DEF StepNames

(* The steps of the cancellation. *)
LEMMA CancelSteps ==
    ASSUME NEW k, k = "cancel"
    PROVE  LET P == PhaseSteps(k) IN
           /\ P \in Seq(StepNames) /\ Len(P) = 10
           /\ P[1] = "baseline" /\ P[2] = "startWorkers" /\ P[3] = "awaitWorkers"
           /\ P[4] = "startCallers" /\ P[5] = "awaitCallers" /\ P[6] = "release"
           /\ P[7] = "finishCallers" /\ P[8] = "stopWorkers" /\ P[9] = "finishWorkers"
           /\ P[10] = "quiesce"
<1>0. ~IsFleet(k)
  BY DEF IsFleet
<1>1. PhaseSteps(k) =
           <<"baseline", "startWorkers", "awaitWorkers", "startCallers", "awaitCallers", "release",
             "finishCallers", "stopWorkers", "finishWorkers", "quiesce">>
  BY <1>0, Zenon DEF PhaseSteps
<1> QED
  BY ONLY <1>1 DEF StepNames

(* The steps of the kill of a worker. *)
LEMMA WorkerKillSteps ==
    ASSUME NEW k, k = "worker-kill"
    PROVE  LET P == PhaseSteps(k) IN
           /\ P \in Seq(StepNames) /\ Len(P) = 10
           /\ P[1] = "baseline" /\ P[2] = "startWorkers" /\ P[3] = "awaitWorkers"
           /\ P[4] = "startCallers" /\ P[5] = "awaitCallers" /\ P[6] = "release"
           /\ P[7] = "awaitProgress" /\ P[8] = "killWorkers" /\ P[9] = "finishCallers"
           /\ P[10] = "quiesce"
<1>0. ~IsFleet(k)
  BY DEF IsFleet
<1>1. PhaseSteps(k) =
           <<"baseline", "startWorkers", "awaitWorkers", "startCallers", "awaitCallers", "release",
             "awaitProgress", "killWorkers", "finishCallers", "quiesce">>
  BY <1>0, Zenon DEF PhaseSteps
<1> QED
  BY ONLY <1>1 DEF StepNames

(* The steps of the restart of the broker. *)
LEMMA FitzRestartSteps ==
    ASSUME NEW k, k = "fitz-restart"
    PROVE  LET P == PhaseSteps(k) IN
           /\ P \in Seq(StepNames) /\ Len(P) = 14
           /\ P[1] = "baseline" /\ P[2] = "startWorkers" /\ P[3] = "awaitWorkers"
           /\ P[4] = "startCallers" /\ P[5] = "awaitCallers" /\ P[6] = "release"
           /\ P[7] = "awaitProgress" /\ P[8] = "killFitz" /\ P[9] = "restartFitz"
           /\ P[10] = "baseline" /\ P[11] = "finishCallers" /\ P[12] = "stopWorkers"
           /\ P[13] = "finishWorkers" /\ P[14] = "quiesce"
<1>0. ~IsFleet(k)
  BY DEF IsFleet
<1>1. PhaseSteps(k) =
           <<"baseline", "startWorkers", "awaitWorkers", "startCallers", "awaitCallers", "release",
             "awaitProgress", "killFitz", "restartFitz", "baseline", "finishCallers",
             "stopWorkers", "finishWorkers", "quiesce">>
  BY <1>0, Zenon DEF PhaseSteps
<1> QED
  BY ONLY <1>1 DEF StepNames

(* What is left after the first step is again the end of the phase. *)
LEMMA TailRemains ==
    ASSUME NEW P \in Seq(StepNames), NEW q \in Seq(StepNames), Remains(q, P)
    PROVE  /\ q # <<>> /\ Len(q) \in Nat /\ Len(P) \in Nat /\ Len(q) >= 1 /\ Len(q) <= Len(P)
           /\ Head(q) = P[Len(P) - Len(q) + 1]
           /\ Tail(q) \in Seq(StepNames) /\ Len(Tail(q)) = Len(q) - 1
           /\ Len(q) > 1 => Remains(Tail(q), P) /\ Head(Tail(q)) = P[Len(P) - Len(q) + 2]
<1>1. /\ Len(q) \in 1..Len(P) /\ Len(P) \in Nat /\ q # <<>>
      /\ Head(q) = q[1] /\ Tail(q) \in Seq(StepNames) /\ Len(Tail(q)) = Len(q) - 1
      /\ \A i \in 1..Len(Tail(q)) : Tail(q)[i] = q[i + 1]
  BY DEF Remains
<1>2. Head(q) = P[Len(P) - Len(q) + 1]
  BY <1>1 DEF Remains
<1>3. ASSUME Len(q) > 1, NEW i \in 1..Len(Tail(q))
      PROVE  Tail(q)[i] = P[i + Len(P) - Len(Tail(q))]
  <2>1. i + 1 \in 1..Len(q) /\ (i + 1) + Len(P) - Len(q) = i + Len(P) - Len(Tail(q))
    BY <1>1
  <2> QED
    BY <1>1, <2>1 DEF Remains
<1>4. ASSUME Len(q) > 1 PROVE Head(Tail(q)) = P[Len(P) - Len(q) + 2]
  <2>1. Tail(q) # <<>> /\ Head(Tail(q)) = Tail(q)[1]
    BY <1>1, <1>4
  <2>2. 1 \in 1..Len(Tail(q)) /\ 1 + Len(P) - Len(Tail(q)) = Len(P) - Len(q) + 2
    BY <1>1, <1>4
  <2> QED
    BY <2>1, <2>2, <1>3, <1>4
<1> QED
  BY <1>1, <1>2, <1>3, <1>4 DEF Remains

(* A whole program is the end of itself. *)
LEMMA WholeRemains ==
    ASSUME NEW P \in Seq(StepNames), Len(P) \in Nat, Len(P) > 0
    PROVE  Remains(P, P)
BY DEF Remains

(* A table of what is left: the length, the first step and the second. *)
FleetRow(n, h, g) ==
    \/ n = 11 /\ h = "baseline" /\ g = "startWorkers"
    \/ n = 10 /\ h = "startWorkers" /\ g = "awaitWorkers"
    \/ n = 9 /\ h = "awaitWorkers" /\ g = "startCallers"
    \/ n = 8 /\ h = "startCallers" /\ g = "awaitCallers"
    \/ n = 7 /\ h = "awaitCallers" /\ g = "release"
    \/ n = 6 /\ h = "release" /\ g = "finishFleet"
    \/ n = 5 /\ h = "finishFleet" /\ g = "stopWorkers"
    \/ n = 4 /\ h = "stopWorkers" /\ g = "finishWorkers"
    \/ n = 3 /\ h = "finishWorkers" /\ g = "judge"
    \/ n = 2 /\ h = "judge" /\ g = "quiesce"
    \/ n = 1 /\ h = "quiesce"

CancelRow(n, h, g) ==
    \/ n = 10 /\ h = "baseline" /\ g = "startWorkers"
    \/ n = 9 /\ h = "startWorkers" /\ g = "awaitWorkers"
    \/ n = 8 /\ h = "awaitWorkers" /\ g = "startCallers"
    \/ n = 7 /\ h = "startCallers" /\ g = "awaitCallers"
    \/ n = 6 /\ h = "awaitCallers" /\ g = "release"
    \/ n = 5 /\ h = "release" /\ g = "finishCallers"
    \/ n = 4 /\ h = "finishCallers" /\ g = "stopWorkers"
    \/ n = 3 /\ h = "stopWorkers" /\ g = "finishWorkers"
    \/ n = 2 /\ h = "finishWorkers" /\ g = "quiesce"
    \/ n = 1 /\ h = "quiesce"

WorkerKillRow(n, h, g) ==
    \/ n = 10 /\ h = "baseline" /\ g = "startWorkers"
    \/ n = 9 /\ h = "startWorkers" /\ g = "awaitWorkers"
    \/ n = 8 /\ h = "awaitWorkers" /\ g = "startCallers"
    \/ n = 7 /\ h = "startCallers" /\ g = "awaitCallers"
    \/ n = 6 /\ h = "awaitCallers" /\ g = "release"
    \/ n = 5 /\ h = "release" /\ g = "awaitProgress"
    \/ n = 4 /\ h = "awaitProgress" /\ g = "killWorkers"
    \/ n = 3 /\ h = "killWorkers" /\ g = "finishCallers"
    \/ n = 2 /\ h = "finishCallers" /\ g = "quiesce"
    \/ n = 1 /\ h = "quiesce"

FitzRestartRow(n, h, g) ==
    \/ n = 14 /\ h = "baseline" /\ g = "startWorkers"
    \/ n = 13 /\ h = "startWorkers" /\ g = "awaitWorkers"
    \/ n = 12 /\ h = "awaitWorkers" /\ g = "startCallers"
    \/ n = 11 /\ h = "startCallers" /\ g = "awaitCallers"
    \/ n = 10 /\ h = "awaitCallers" /\ g = "release"
    \/ n = 9 /\ h = "release" /\ g = "awaitProgress"
    \/ n = 8 /\ h = "awaitProgress" /\ g = "killFitz"
    \/ n = 7 /\ h = "killFitz" /\ g = "restartFitz"
    \/ n = 6 /\ h = "restartFitz" /\ g = "baseline"
    \/ n = 5 /\ h = "baseline" /\ g = "finishCallers"
    \/ n = 4 /\ h = "finishCallers" /\ g = "stopWorkers"
    \/ n = 3 /\ h = "stopWorkers" /\ g = "finishWorkers"
    \/ n = 2 /\ h = "finishWorkers" /\ g = "quiesce"
    \/ n = 1 /\ h = "quiesce"

(* The first steps by the number of steps that are left of a fleet. *)
LEMMA FleetOrder ==
    ASSUME NEW k, IsFleet(k), NEW q \in Seq(StepNames), Remains(q, PhaseSteps(k))
    PROVE  FleetRow(Len(q), Head(q), Head(Tail(q))) /\ Len(PhaseSteps(k)) = 11
<1> DEFINE P == PhaseSteps(k)
           n == Len(q)
           h == Head(q)
           g == Head(Tail(q))
<1>1. /\ P \in Seq(StepNames) /\ Len(P) = 11
      /\ P[1] = "baseline" /\ P[2] = "startWorkers" /\ P[3] = "awaitWorkers"
      /\ P[4] = "startCallers" /\ P[5] = "awaitCallers" /\ P[6] = "release"
      /\ P[7] = "finishFleet" /\ P[8] = "stopWorkers" /\ P[9] = "finishWorkers"
      /\ P[10] = "judge" /\ P[11] = "quiesce"
  BY FleetSteps
<1>2. /\ n \in 1..11 /\ h = P[11 - n + 1] /\ (n > 1 => g = P[11 - n + 2])
  <2>1. /\ n \in Nat /\ n >= 1 /\ n <= Len(P) /\ h = P[Len(P) - n + 1]
        /\ n > 1 => g = P[Len(P) - n + 2]
    <3>1. P \in Seq(StepNames) /\ q \in Seq(StepNames) /\ Remains(q, P)
      BY <1>1
    <3> HIDE DEF P
    <3> QED
      BY ONLY <3>1, TailRemains
  <2> HIDE DEF P, n, h, g
  <2> QED
    BY ONLY <1>1, <2>1
<1>3. FleetRow(n, h, g)
  <2> HIDE DEF P, n, h, g
  <2>1. n \in {1, 2, 3, 4, 5, 6, 7, 8, 9, 10, 11}
    BY <1>2
  <2> QED
    BY <1>1, <1>2, <2>1 DEF FleetRow
<1> QED
  BY <1>1, <1>3

(* The first steps by the number of steps that are left of the cancellation. *)
LEMMA CancelOrder ==
    ASSUME NEW k, k = "cancel", NEW q \in Seq(StepNames), Remains(q, PhaseSteps(k))
    PROVE  CancelRow(Len(q), Head(q), Head(Tail(q))) /\ Len(PhaseSteps(k)) = 10
<1> DEFINE P == PhaseSteps(k)
           n == Len(q)
           h == Head(q)
           g == Head(Tail(q))
<1>1. /\ P \in Seq(StepNames) /\ Len(P) = 10
      /\ P[1] = "baseline" /\ P[2] = "startWorkers" /\ P[3] = "awaitWorkers"
      /\ P[4] = "startCallers" /\ P[5] = "awaitCallers" /\ P[6] = "release"
      /\ P[7] = "finishCallers" /\ P[8] = "stopWorkers" /\ P[9] = "finishWorkers"
      /\ P[10] = "quiesce"
  BY CancelSteps
<1>2. /\ n \in 1..10 /\ h = P[10 - n + 1] /\ (n > 1 => g = P[10 - n + 2])
  <2>1. /\ n \in Nat /\ n >= 1 /\ n <= Len(P) /\ h = P[Len(P) - n + 1]
        /\ n > 1 => g = P[Len(P) - n + 2]
    <3>1. P \in Seq(StepNames) /\ q \in Seq(StepNames) /\ Remains(q, P)
      BY <1>1
    <3> HIDE DEF P
    <3> QED
      BY ONLY <3>1, TailRemains
  <2> HIDE DEF P, n, h, g
  <2> QED
    BY ONLY <1>1, <2>1
<1>3. CancelRow(n, h, g)
  <2> HIDE DEF P, n, h, g
  <2>1. n \in {1, 2, 3, 4, 5, 6, 7, 8, 9, 10}
    BY <1>2
  <2> QED
    BY <1>1, <1>2, <2>1 DEF CancelRow
<1> QED
  BY <1>1, <1>3

(* The first steps by the number of steps that are left of the kill of a worker. *)
LEMMA WorkerKillOrder ==
    ASSUME NEW k, k = "worker-kill", NEW q \in Seq(StepNames), Remains(q, PhaseSteps(k))
    PROVE  WorkerKillRow(Len(q), Head(q), Head(Tail(q))) /\ Len(PhaseSteps(k)) = 10
<1> DEFINE P == PhaseSteps(k)
           n == Len(q)
           h == Head(q)
           g == Head(Tail(q))
<1>1. /\ P \in Seq(StepNames) /\ Len(P) = 10
      /\ P[1] = "baseline" /\ P[2] = "startWorkers" /\ P[3] = "awaitWorkers"
      /\ P[4] = "startCallers" /\ P[5] = "awaitCallers" /\ P[6] = "release"
      /\ P[7] = "awaitProgress" /\ P[8] = "killWorkers" /\ P[9] = "finishCallers"
      /\ P[10] = "quiesce"
  BY WorkerKillSteps
<1>2. /\ n \in 1..10 /\ h = P[10 - n + 1] /\ (n > 1 => g = P[10 - n + 2])
  <2>1. /\ n \in Nat /\ n >= 1 /\ n <= Len(P) /\ h = P[Len(P) - n + 1]
        /\ n > 1 => g = P[Len(P) - n + 2]
    <3>1. P \in Seq(StepNames) /\ q \in Seq(StepNames) /\ Remains(q, P)
      BY <1>1
    <3> HIDE DEF P
    <3> QED
      BY ONLY <3>1, TailRemains
  <2> HIDE DEF P, n, h, g
  <2> QED
    BY ONLY <1>1, <2>1
<1>3. WorkerKillRow(n, h, g)
  <2> HIDE DEF P, n, h, g
  <2>1. n \in {1, 2, 3, 4, 5, 6, 7, 8, 9, 10}
    BY <1>2
  <2> QED
    BY <1>1, <1>2, <2>1 DEF WorkerKillRow
<1> QED
  BY <1>1, <1>3

(* The first steps by the number of steps that are left of the restart of the broker. *)
LEMMA FitzRestartOrder ==
    ASSUME NEW k, k = "fitz-restart", NEW q \in Seq(StepNames), Remains(q, PhaseSteps(k))
    PROVE  FitzRestartRow(Len(q), Head(q), Head(Tail(q))) /\ Len(PhaseSteps(k)) = 14
<1> DEFINE P == PhaseSteps(k)
           n == Len(q)
           h == Head(q)
           g == Head(Tail(q))
<1>1. /\ P \in Seq(StepNames) /\ Len(P) = 14
      /\ P[1] = "baseline" /\ P[2] = "startWorkers" /\ P[3] = "awaitWorkers"
      /\ P[4] = "startCallers" /\ P[5] = "awaitCallers" /\ P[6] = "release"
      /\ P[7] = "awaitProgress" /\ P[8] = "killFitz" /\ P[9] = "restartFitz"
      /\ P[10] = "baseline" /\ P[11] = "finishCallers" /\ P[12] = "stopWorkers"
      /\ P[13] = "finishWorkers" /\ P[14] = "quiesce"
  BY FitzRestartSteps
<1>2. /\ n \in 1..14 /\ h = P[14 - n + 1] /\ (n > 1 => g = P[14 - n + 2])
  <2>1. /\ n \in Nat /\ n >= 1 /\ n <= Len(P) /\ h = P[Len(P) - n + 1]
        /\ n > 1 => g = P[Len(P) - n + 2]
    <3>1. P \in Seq(StepNames) /\ q \in Seq(StepNames) /\ Remains(q, P)
      BY <1>1
    <3> HIDE DEF P
    <3> QED
      BY ONLY <3>1, TailRemains
  <2> HIDE DEF P, n, h, g
  <2> QED
    BY ONLY <1>1, <2>1
<1>3. FitzRestartRow(n, h, g)
  <2> HIDE DEF P, n, h, g
  <2>1. n \in {1, 2, 3, 4, 5, 6, 7, 8, 9, 10, 11, 12, 13, 14}
    BY <1>2
  <2> QED
    BY <1>1, <1>2, <2>1, SMTT(60) DEF FitzRestartRow
<1> QED
  BY <1>1, <1>3

(* What the first step of what is left says about the phase. *)
LEMMA Order ==
    ASSUME DriverType, Place
    PROVE  /\ todo # <<>> /\ Head(todo) \in StepNames
           /\ Len(todo) \in Nat /\ Len(todo) >= 1 /\ Len(PhaseSteps(Kind)) \in Nat
           /\ Head(todo) = "startWorkers" => Fresh
           /\ Fresh => Head(todo) \in {"baseline", "startWorkers"}
           /\ Head(todo) = "killWorkers" => Kind = "worker-kill"
           /\ Head(todo) # "quiesce" => Len(todo) > 1
<1> DEFINE n == Len(todo)
           h == Head(todo)
           g == Head(Tail(todo))
           N == Len(PhaseSteps(Kind))
           Facts == /\ n \in Nat /\ n >= 1 /\ N \in Nat /\ h \in StepNames
                    /\ h = "startWorkers" => n >= N - 1
                    /\ n >= N - 1 => h \in {"baseline", "startWorkers"}
                    /\ h = "killWorkers" => Kind = "worker-kill"
                    /\ h # "quiesce" => n > 1
<1>0. todo \in Seq(StepNames) /\ Remains(todo, PhaseSteps(Kind))
  BY DEF DriverType, Place
<1>1. ASSUME IsFleet(Kind) PROVE Facts
  <2>1. FleetRow(n, h, g) /\ N = 11
    BY <1>0, <1>1, FleetOrder
  <2> HIDE DEF n, h, g, N
  <2> QED
    BY ONLY <1>1, <2>1 DEF FleetRow, StepNames
<1>2. ASSUME Kind = "cancel" PROVE Facts
  <2>1. CancelRow(n, h, g) /\ N = 10
    BY <1>0, <1>2, CancelOrder
  <2> HIDE DEF n, h, g, N
  <2> QED
    BY ONLY <1>2, <2>1 DEF CancelRow, StepNames
<1>3. ASSUME Kind = "worker-kill" PROVE Facts
  <2>1. WorkerKillRow(n, h, g) /\ N = 10
    BY <1>0, <1>3, WorkerKillOrder
  <2> HIDE DEF n, h, g, N
  <2> QED
    BY ONLY <1>3, <2>1 DEF WorkerKillRow, StepNames
<1>4. ASSUME Kind = "fitz-restart" PROVE Facts
  <2>1. FitzRestartRow(n, h, g) /\ N = 14
    BY <1>0, <1>4, FitzRestartOrder
  <2> HIDE DEF n, h, g, N
  <2> QED
    BY ONLY <1>4, <2>1 DEF FitzRestartRow, StepNames
<1>5. Facts
  BY <1>1, <1>2, <1>3, <1>4, KindType DEF KindNames, IsFleet
<1>6. todo # <<>>
  BY <1>0, <1>5
<1> QED
  BY <1>5, <1>6 DEF Fresh

(* The order of the steps: what follows what. *)
LEMMA NextStep ==
    ASSUME DriverType, Place, UNCHANGED <<scenario, phase>>, Done, Head(todo) # "quiesce"
    PROVE  /\ todo' \in Seq(StepNames) /\ Place' /\ Kind' = Kind
           /\ Fresh' => Fresh /\ Head(todo) = "baseline"
           /\ Fresh /\ Head(todo) = "baseline" => Fresh'
           /\ Over' => \/ Fresh /\ Head(todo) = "baseline"
                       \/ Head(todo) \in {"judge", "finishWorkers", "killWorkers"}
                       \/ Kind = "worker-kill" /\ Head(todo) = "finishCallers"
           /\ Head(todo)' = "quiesce" /\ IsFleet(Kind) => Head(todo) = "judge"
<1> DEFINE n == Len(todo)
           h == Head(todo)
           g == Head(Tail(todo))
           N == Len(PhaseSteps(Kind))
           Facts == /\ n \in Nat /\ n > 1 /\ N \in Nat
                    /\ n - 1 >= N - 1 => n >= N - 1 /\ h = "baseline"
                    /\ n >= N - 1 /\ h = "baseline" => n - 1 >= N - 1
                    /\ \/ n - 1 >= N - 1 \/ g \in {"judge", "quiesce"}
                       \/ Kind = "worker-kill" /\ g = "finishCallers"
                       => \/ n >= N - 1 /\ h = "baseline"
                          \/ h \in {"judge", "finishWorkers", "killWorkers"}
                          \/ Kind = "worker-kill" /\ h = "finishCallers"
                    /\ g = "quiesce" /\ IsFleet(Kind) => h = "judge"
<1>0. todo \in Seq(StepNames) /\ Remains(todo, PhaseSteps(Kind)) /\ h # "quiesce"
  BY DEF DriverType, Place
<1>1. ASSUME IsFleet(Kind) PROVE Facts
  <2>1. FleetRow(n, h, g) /\ N = 11 /\ h # "quiesce"
    BY <1>0, <1>1, FleetOrder
  <2>2. ~(IsFleet(Kind) /\ Kind \in {"cancel", "worker-kill", "fitz-restart"})
    BY DEF IsFleet
  <2> HIDE DEF n, h, g, N
  <2> QED
    BY ONLY <1>1, <2>1, <2>2 DEF FleetRow
<1>2. ASSUME Kind = "cancel" PROVE Facts
  <2>1. CancelRow(n, h, g) /\ N = 10 /\ h # "quiesce"
    BY <1>0, <1>2, CancelOrder
  <2>2. ~(IsFleet(Kind) /\ Kind \in {"cancel", "worker-kill", "fitz-restart"})
    BY DEF IsFleet
  <2> HIDE DEF n, h, g, N
  <2> QED
    BY ONLY <1>2, <2>1, <2>2 DEF CancelRow
<1>3. ASSUME Kind = "worker-kill" PROVE Facts
  <2>1. WorkerKillRow(n, h, g) /\ N = 10 /\ h # "quiesce"
    BY <1>0, <1>3, WorkerKillOrder
  <2>2. ~(IsFleet(Kind) /\ Kind \in {"cancel", "worker-kill", "fitz-restart"})
    BY DEF IsFleet
  <2> HIDE DEF n, h, g, N
  <2> QED
    BY ONLY <1>3, <2>1, <2>2 DEF WorkerKillRow
<1>4. ASSUME Kind = "fitz-restart" PROVE Facts
  <2>1. FitzRestartRow(n, h, g) /\ N = 14 /\ h # "quiesce"
    BY <1>0, <1>4, FitzRestartOrder
  <2>2. ~(IsFleet(Kind) /\ Kind \in {"cancel", "worker-kill", "fitz-restart"})
    BY DEF IsFleet
  <2> HIDE DEF n, h, g, N
  <2> QED
    BY ONLY <1>4, <2>1, <2>2 DEF FitzRestartRow
<1>5. Facts
  BY <1>1, <1>2, <1>3, <1>4, KindType DEF KindNames, IsFleet
<1>6. Kind' = Kind /\ PhaseSteps(Kind)' = PhaseSteps(Kind)
  BY DEF Kind, Phases
<1>7. PhaseSteps(Kind) \in Seq(StepNames)
  BY KindType, FleetSteps, CancelSteps, WorkerKillSteps, FitzRestartSteps, SMTT(60)
     DEF KindNames, IsFleet
<1>8. /\ todo' = Tail(todo) /\ todo' \in Seq(StepNames) /\ Len(todo)' = n - 1
      /\ Remains(todo', PhaseSteps(Kind)) /\ Head(todo)' = g
  BY <1>0, <1>5, <1>7, TailRemains DEF Done
<1>9. Place' /\ (Fresh <=> n >= N - 1) /\ (Fresh' <=> n - 1 >= N - 1)
  BY <1>6, <1>8, Zenon DEF Place, Fresh
<1>10. Over' <=> \/ n - 1 >= N - 1 \/ g \in {"judge", "quiesce"}
                 \/ Kind = "worker-kill" /\ g = "finishCallers"
  BY <1>6, <1>8, <1>9, Zenon DEF Over
<1> HIDE DEF n, h, g, N
<1> QED
  BY <1>5, <1>6, <1>8, <1>9, <1>10 DEF h

-----------------------------------------------------------------------------
(* Types. *)

(* Roles and broker leave the driver alone. *)
LEMMA DriverApart ==
    ASSUME Roles \/ Broker \/ \E w \in Workers : BrokerMisbehaves(w)
    PROVE  UNCHANGED driverVars
<1>1. ASSUME NEW w \in Workers, WorkerRegisters(w) PROVE UNCHANGED driverVars
  BY <1>1 DEF WorkerRegisters, driverVars
<1>2. ASSUME NEW w \in Workers, WorkerExits(w) PROVE UNCHANGED driverVars
  BY <1>2 DEF WorkerExits, driverVars
<1>3. ASSUME NEW w \in Workers, NEW x \in Callers, HandlerEnds(w, x) PROVE UNCHANGED driverVars
  BY <1>3 DEF HandlerEnds, driverVars
<1>4. ASSUME NEW w \in Workers, NEW x \in Callers,
             NEW n \in 0..(FramesPerCall - 1), HandlerWrites(w, x, n)
      PROVE  UNCHANGED driverVars
  BY <1>4 DEF HandlerWrites, driverVars
<1>5. ASSUME NEW c \in Callers, CallerConnects(c) PROVE UNCHANGED driverVars
  BY <1>5 DEF CallerConnects, driverVars
<1>6. ASSUME NEW c \in Callers, StartCall(c) PROVE UNCHANGED driverVars
  BY <1>6 DEF StartCall, driverVars
<1>7. ASSUME NEW c \in Callers, Receive(c) PROVE UNCHANGED driverVars
  BY <1>7 DEF Receive, driverVars
<1>8. ASSUME NEW c \in Callers, CallFails(c) PROVE UNCHANGED driverVars
  BY <1>8 DEF CallFails, driverVars
<1>9. ASSUME NEW c \in Callers, CallTimesOut(c) PROVE UNCHANGED driverVars
  BY <1>9 DEF CallTimesOut, driverVars
<1>10. ASSUME NEW c \in Callers, CallerExits(c) PROVE UNCHANGED driverVars
  BY <1>10 DEF CallerExits, driverVars
<1>11. ASSUME NEW w \in Workers, BrokerHandles(w) PROVE UNCHANGED driverVars
  BY <1>11 DEF BrokerHandles, driverVars
<1>12. ASSUME NEW w \in Workers, NEW x \in Callers, BrokerDispatches(x, w)
      PROVE  UNCHANGED driverVars
  BY <1>12 DEF BrokerDispatches, driverVars
<1>13. ASSUME BrokerHandlesLate PROVE UNCHANGED driverVars
  BY <1>13 DEF BrokerHandlesLate, driverVars
<1>14. ASSUME BrokerNotices PROVE UNCHANGED driverVars
  BY <1>14 DEF BrokerNotices, driverVars
<1>15. ASSUME BrokerCleans PROVE UNCHANGED driverVars
  BY <1>15 DEF BrokerCleans, driverVars
<1>16. ASSUME NEW w \in Workers, BrokerMisbehaves(w) PROVE UNCHANGED driverVars
  BY <1>16 DEF BrokerMisbehaves, driverVars
<1> QED
  BY <1>1, <1>2, <1>3, <1>4, <1>5, <1>6, <1>7, <1>8, <1>9, <1>10, <1>11, <1>12, <1>13, <1>14,
     <1>15, <1>16
     DEF Roles, Broker

(* Where the driver is does not change with others. *)
LEMMA SamePlace ==
    ASSUME UNCHANGED <<scenario, phase, todo>>
    PROVE  /\ Kind' = Kind /\ Members' = Members /\ FramesPerCall' = FramesPerCall
           /\ (Place' <=> Place) /\ (Fresh' <=> Fresh) /\ (Over' <=> Over)
           /\ Head(todo)' = Head(todo)
<1>1. Kind' = Kind /\ FramesPerCall' = FramesPerCall
  BY DEF Kind, Phases, FramesPerCall
<1>2. Members' = Members /\ (Place' <=> Place) /\ (Fresh' <=> Fresh)
  BY <1>1, Zenon DEF Members, Place, Fresh
<1> QED
  BY <1>1, <1>2, Zenon DEF Over

(* The program of a phase is a sequence of steps. *)
LEMMA ProgramType ==
    ASSUME NEW k \in KindNames
    PROVE  /\ PhaseSteps(k) \in Seq(StepNames)
           /\ Len(PhaseSteps(k)) \in Nat /\ Len(PhaseSteps(k)) > 0
           /\ Head(PhaseSteps(k)) = "baseline"
<1>1. CASE IsFleet(k)
  BY <1>1, FleetSteps, SMTT(60)
<1>2. CASE k = "cancel"
  BY <1>2, CancelSteps
<1>3. CASE k = "worker-kill"
  BY <1>3, WorkerKillSteps
<1>4. CASE k = "fitz-restart"
  BY <1>4, FitzRestartSteps
<1> QED
  BY <1>1, <1>2, <1>3, <1>4, Zenon DEF KindNames, IsFleet

(* The driver keeps its types and goes through the steps of the phase. *)
LEMMA DriverStep ==
    ASSUME DriverType, Place, Driver \/ DeadlinePasses
    PROVE  DriverType' /\ Place'
<1> DEFINE Goal == DriverType' /\ Place'
<1>0. ASSUME Done, Head(todo) # "quiesce", UNCHANGED <<scenario, phase>>,
             callerFailure' \in BOOLEAN, baseline' \in BOOLEAN, UNCHANGED <<stats, metrics>>,
             outcome' \in {"none", "passed", "rejected", "timeout"}
      PROVE  Goal
  BY <1>0, NextStep DEF DriverType
<1>00. ASSUME UNCHANGED <<scenario, phase, todo, callerFailure, baseline>>,
             stats' \in {"unread", "busy", "idle", "failures"},
             metrics' \in {"unread", "busy", "idle"},
             outcome' \in {"none", "passed", "rejected", "timeout"}
      PROVE  Goal
  BY <1>00, SamePlace DEF DriverType
<1>1. ASSUME Baseline PROVE Goal
  BY <1>1, <1>0 DEF Baseline, At, DriverType
<1>2. ASSUME StartWorkers PROVE Goal
  BY <1>2, <1>0 DEF StartWorkers, At, DriverType
<1>3. ASSUME StartCallers PROVE Goal
  BY <1>3, <1>0 DEF StartCallers, At, DriverType
<1>4. ASSUME Release PROVE Goal
  BY <1>4, <1>0 DEF Release, At, DriverType
<1>5. ASSUME NEW step \in {"awaitWorkers", "awaitCallers", "awaitProgress"}, Await(step)
      PROVE  Goal
  BY <1>5, <1>0 DEF Await, At, DriverType
<1>6. ASSUME FinishFleet PROVE Goal
  BY <1>6, <1>0 DEF FinishFleet, At, DriverType, SomeCallerFailed
<1>7. ASSUME FinishCallers PROVE Goal
  BY <1>7, <1>0 DEF FinishCallers, At, DriverType
<1>8. ASSUME StopWorkers PROVE Goal
  BY <1>8, <1>0 DEF StopWorkers, At, DriverType
<1>9. ASSUME FinishWorkers PROVE Goal
  BY <1>9, <1>0 DEF FinishWorkers, At, DriverType
<1>10. ASSUME KillWorkers PROVE Goal
  BY <1>10, <1>0 DEF KillWorkers, At, DriverType
<1>11. ASSUME KillFitz PROVE Goal
  BY <1>11, <1>0 DEF KillFitz, At, DriverType
<1>12. ASSUME RestartFitz PROVE Goal
  BY <1>12, <1>0 DEF RestartFitz, At, DriverType
<1>13. ASSUME Judge PROVE Goal
  BY <1>13, <1>0 DEF Judge, At, DriverType
<1>14. ASSUME ReadStats PROVE Goal
  BY <1>14, <1>00 DEF ReadStats, DriverType
<1>15. ASSUME ReadMetrics PROVE Goal
  BY <1>15, <1>00 DEF ReadMetrics, DriverType
<1>16. ASSUME Quiesce PROVE Goal
  <2>1. CASE UNCHANGED <<phase, todo>>
    BY <2>1, <1>16, <1>00 DEF Quiesce, NextPhase, DriverType
  <2>2. CASE ~UNCHANGED <<phase, todo>>
    <3>1. /\ phase < Len(Phases) /\ phase' = phase + 1 /\ todo' = PhaseSteps(Phases[phase + 1])
          /\ outcome' = "none" /\ stats' = "unread" /\ metrics' = "unread"
          /\ UNCHANGED <<scenario, callerFailure, baseline>>
      BY <2>2, <1>16 DEF Quiesce, NextPhase
    <3>2. DriverType' \/ todo' \notin Seq(StepNames)
      <4>1. CASE scenario = "rpc-pressure"
        BY <3>1, <4>1 DEF DriverType, Phases
      <4>2. CASE scenario # "rpc-pressure"
        <5>1. Len(Phases) = 7 /\ phase + 1 \in {1, 2, 3, 4, 5, 6, 7}
          BY <3>1, <4>2 DEF DriverType, Phases
        <5> QED
          BY <3>1, <4>2, <5>1 DEF DriverType
      <4> QED
        BY <4>1, <4>2
    <3>3. Kind' \in KindNames
      <4>1. CASE scenario = "rpc-pressure"
        BY <3>1, <4>1 DEF DriverType, Phases
      <4>2. CASE scenario # "rpc-pressure"
        BY <3>1, <4>2 DEF DriverType, Kind, Phases, KindNames
      <4> QED
        BY <4>1, <4>2
    <3>4. todo' = PhaseSteps(Kind')
      BY <3>1 DEF Kind, Phases
    <3> DEFINE k == Kind'
    <3>5. PhaseSteps(k) \in Seq(StepNames) /\ Len(PhaseSteps(k)) \in Nat /\ Len(PhaseSteps(k)) > 0
      BY <3>3, ProgramType
    <3>6. Remains(PhaseSteps(k), PhaseSteps(k))
      BY <3>5, WholeRemains
    <3> QED
      BY <3>2, <3>4, <3>5, <3>6 DEF Place
  <2> QED
    BY <2>1, <2>2
<1>17. ASSUME DeadlinePasses PROVE Goal
  BY <1>17, <1>00 DEF DeadlinePasses, DriverType
<1> QED
  BY <1>1, <1>2, <1>3, <1>4, <1>5, <1>6, <1>7, <1>8, <1>9, <1>10, <1>11, <1>12, <1>13, <1>14,
     <1>15, <1>16, <1>17
     DEF Driver
(* The types of the workers. *)

(* The sizes of a phase. *)
LEMMA Sizes ==
    /\ FramesPerCall \in Nat /\ FramesPerCall >= 2
    /\ Members \subseteq Workers /\ Workers \subseteq Nat /\ 0 \notin Workers /\ Callers = Workers
    /\ Kind \in {"worker-kill", "cancel", "fitz-restart"} => Members = {1}
<1>1. FramesPerCall \in Nat /\ FramesPerCall >= 2
  BY FramesAssumption DEF FramesPerCall
<1>2. Members \subseteq Workers /\ Workers \subseteq Nat /\ 0 \notin Workers /\ Callers = Workers
  BY ReplicasAssumption DEF Members, Workers, Callers
<1>3. Kind \in {"worker-kill", "cancel", "fitz-restart"} => Members = {1}
  BY DEF Members
<1> QED
  BY <1>1, <1>2, <1>3

(* What the workers keep has its types. *)
LEMMA WorkerStep ==
    ASSUME TypeOK, Next
    PROVE  WorkerType'
<1>0. WorkerType /\ CallerType /\ BrokerType
  BY DEF TypeOK
<1>1. ASSUME Baseline PROVE WorkerType'
  BY <1>1, <1>0, Sizes DEF Baseline, workerVars, WorkerType, WorkerStates
<1>2. ASSUME StartWorkers PROVE WorkerType'
  <2>1. worker' \in [Workers -> WorkerStates]
    BY <1>2, <1>0, Sizes DEF StartWorkers, WorkerType, WorkerStates
  <2>2. handlers' \in SUBSET (Workers \X Callers \X Nat)
    BY <1>2, <1>0, Sizes DEF StartWorkers, WorkerType, WorkerStates
  <2>3. /\ handled' \in [Workers -> Nat] /\ framesSent' \in [Workers -> Nat]
        /\ progressed' \in SUBSET Workers /\ abandoned' \in BOOLEAN
    BY <1>2, <1>0, Sizes DEF StartWorkers, WorkerType, WorkerStates
  <2> QED
    BY <2>1, <2>2, <2>3 DEF WorkerType
<1>3. ASSUME StartCallers PROVE WorkerType'
  BY <1>3, <1>0, Sizes DEF StartCallers, workerVars, WorkerType, WorkerStates
<1>4. ASSUME Release PROVE WorkerType'
  BY <1>4, <1>0, Sizes DEF Release, workerVars, WorkerType, WorkerStates
<1>5. ASSUME NEW step \in {"awaitWorkers", "awaitCallers", "awaitProgress"}, Await(step)
      PROVE  WorkerType'
  BY <1>5, <1>0, Sizes DEF Await, workerVars, WorkerType, WorkerStates
<1>6. ASSUME FinishFleet PROVE WorkerType'
  BY <1>6, <1>0, Sizes DEF FinishFleet, workerVars, WorkerType, WorkerStates
<1>7. ASSUME FinishCallers PROVE WorkerType'
  BY <1>7, <1>0, Sizes DEF FinishCallers, workerVars, WorkerType, WorkerStates
<1>8. ASSUME StopWorkers PROVE WorkerType'
  <2>1. worker' \in [Workers -> WorkerStates]
    BY <1>8, <1>0, Sizes DEF StopWorkers, WorkerType, WorkerStates
  <2>2. handlers' \in SUBSET (Workers \X Callers \X Nat)
    BY <1>8, <1>0, Sizes DEF StopWorkers, WorkerType, WorkerStates
  <2>3. /\ handled' \in [Workers -> Nat] /\ framesSent' \in [Workers -> Nat]
        /\ progressed' \in SUBSET Workers /\ abandoned' \in BOOLEAN
    BY <1>8, <1>0, Sizes DEF StopWorkers, WorkerType, WorkerStates
  <2> QED
    BY <2>1, <2>2, <2>3 DEF WorkerType
<1>9. ASSUME FinishWorkers PROVE WorkerType'
  BY <1>9, <1>0, Sizes DEF FinishWorkers, workerVars, WorkerType, WorkerStates
<1>10. ASSUME KillWorkers PROVE WorkerType'
  <2>1. worker' \in [Workers -> WorkerStates]
    BY <1>10, <1>0, Sizes DEF KillWorkers, WorkerType, WorkerStates
  <2>2. handlers' \in SUBSET (Workers \X Callers \X Nat)
    BY <1>10, <1>0, Sizes DEF KillWorkers, WorkerType, WorkerStates
  <2>3. /\ handled' \in [Workers -> Nat] /\ framesSent' \in [Workers -> Nat]
        /\ progressed' \in SUBSET Workers /\ abandoned' \in BOOLEAN
    BY <1>10, <1>0, Sizes DEF KillWorkers, WorkerType, WorkerStates
  <2> QED
    BY <2>1, <2>2, <2>3 DEF WorkerType
<1>11. ASSUME KillFitz PROVE WorkerType'
  <2>1. worker' \in [Workers -> WorkerStates]
    BY <1>11, <1>0, Sizes DEF KillFitz, WorkerType, WorkerStates
  <2>2. handlers' \in SUBSET (Workers \X Callers \X Nat)
    BY <1>11, <1>0, Sizes DEF KillFitz, WorkerType, WorkerStates
  <2>3. /\ handled' \in [Workers -> Nat] /\ framesSent' \in [Workers -> Nat]
        /\ progressed' \in SUBSET Workers /\ abandoned' \in BOOLEAN
    BY <1>11, <1>0, Sizes DEF KillFitz, WorkerType, WorkerStates
  <2> QED
    BY <2>1, <2>2, <2>3 DEF WorkerType
<1>12. ASSUME RestartFitz PROVE WorkerType'
  BY <1>12, <1>0, Sizes DEF RestartFitz, workerVars, WorkerType, WorkerStates
<1>13. ASSUME Judge PROVE WorkerType'
  BY <1>13, <1>0, Sizes DEF Judge, workerVars, WorkerType, WorkerStates
<1>14. ASSUME ReadStats PROVE WorkerType'
  BY <1>14, <1>0, Sizes DEF ReadStats, workerVars, WorkerType, WorkerStates
<1>15. ASSUME ReadMetrics PROVE WorkerType'
  BY <1>15, <1>0, Sizes DEF ReadMetrics, workerVars, WorkerType, WorkerStates
<1>16. ASSUME Quiesce PROVE WorkerType'
  BY <1>16, <1>0, Sizes DEF Quiesce, workerVars, WorkerType, WorkerStates
<1>17. ASSUME DeadlinePasses PROVE WorkerType'
  BY <1>17, <1>0, Sizes DEF DeadlinePasses, workerVars, WorkerType, WorkerStates
<1>18. ASSUME NEW w \in Workers, WorkerRegisters(w) PROVE WorkerType'
  <2>1. worker' \in [Workers -> WorkerStates]
    BY <1>18, <1>0, Sizes DEF WorkerRegisters, WorkerType, WorkerStates
  <2>2. handlers' \in SUBSET (Workers \X Callers \X Nat)
    BY <1>18, <1>0, Sizes DEF WorkerRegisters, WorkerType, WorkerStates
  <2>3. /\ handled' \in [Workers -> Nat] /\ framesSent' \in [Workers -> Nat]
        /\ progressed' \in SUBSET Workers /\ abandoned' \in BOOLEAN
    BY <1>18, <1>0, Sizes DEF WorkerRegisters, WorkerType, WorkerStates
  <2> QED
    BY <2>1, <2>2, <2>3 DEF WorkerType
<1>19. ASSUME NEW w \in Workers, WorkerExits(w) PROVE WorkerType'
  <2>1. worker' \in [Workers -> WorkerStates]
    BY <1>19, <1>0, Sizes DEF WorkerExits, WorkerType, WorkerStates
  <2>2. handlers' \in SUBSET (Workers \X Callers \X Nat)
    BY <1>19, <1>0, Sizes DEF WorkerExits, WorkerType, WorkerStates
  <2>3. /\ handled' \in [Workers -> Nat] /\ framesSent' \in [Workers -> Nat]
        /\ progressed' \in SUBSET Workers /\ abandoned' \in BOOLEAN
    BY <1>19, <1>0, Sizes DEF WorkerExits, WorkerType, WorkerStates
  <2> QED
    BY <2>1, <2>2, <2>3 DEF WorkerType
<1>20. ASSUME NEW w \in Workers, NEW x \in Callers, HandlerEnds(w, x) PROVE WorkerType'
  BY <1>20, <1>0, Sizes DEF HandlerEnds, workerVars, WorkerType, WorkerStates
<1>21. ASSUME NEW w \in Workers, NEW x \in Callers,
             NEW n \in 0..(FramesPerCall - 1), HandlerWrites(w, x, n)
      PROVE  WorkerType'
  <2>1. worker' \in [Workers -> WorkerStates]
    BY <1>21, <1>0 DEF HandlerWrites, WorkerType
  <2>2. handlers' \in SUBSET (Workers \X Callers \X Nat)
    <3>1. <<w, x, n + 1>> \in Workers \X Callers \X Nat
      BY Sizes
    <3> QED
      BY <1>21, <1>0, <3>1 DEF HandlerWrites, WorkerType
  <2>3. /\ handled' \in [Workers -> Nat] /\ framesSent' \in [Workers -> Nat]
        /\ progressed' \in SUBSET Workers /\ abandoned' \in BOOLEAN
    BY <1>21, <1>0 DEF HandlerWrites, WorkerType
  <2> QED
    BY <2>1, <2>2, <2>3 DEF WorkerType
<1>22. ASSUME NEW c \in Callers, CallerConnects(c) PROVE WorkerType'
  BY <1>22, <1>0, Sizes DEF CallerConnects, workerVars, WorkerType, WorkerStates
<1>23. ASSUME NEW c \in Callers, StartCall(c) PROVE WorkerType'
  BY <1>23, <1>0, Sizes DEF StartCall, workerVars, WorkerType, WorkerStates
<1>24. ASSUME NEW c \in Callers, Receive(c) PROVE WorkerType'
  BY <1>24, <1>0, Sizes DEF Receive, workerVars, WorkerType, WorkerStates
<1>25. ASSUME NEW c \in Callers, CallFails(c) PROVE WorkerType'
  BY <1>25, <1>0, Sizes DEF CallFails, workerVars, WorkerType, WorkerStates
<1>26. ASSUME NEW c \in Callers, CallTimesOut(c) PROVE WorkerType'
  BY <1>26, <1>0, Sizes DEF CallTimesOut, workerVars, WorkerType, WorkerStates
<1>27. ASSUME NEW c \in Callers, CallerExits(c) PROVE WorkerType'
  BY <1>27, <1>0, Sizes DEF CallerExits, workerVars, WorkerType, WorkerStates
<1>28. ASSUME NEW w \in Workers, BrokerHandles(w) PROVE WorkerType'
  BY <1>28, <1>0, Sizes DEF BrokerHandles, workerVars, WorkerType, WorkerStates
<1>29. ASSUME NEW w \in Workers, NEW x \in Callers, BrokerDispatches(x, w) PROVE WorkerType'
  <2>1. worker' \in [Workers -> WorkerStates]
    BY <1>29, <1>0, Sizes DEF BrokerDispatches, WorkerType, WorkerStates
  <2>2. handlers' \in SUBSET (Workers \X Callers \X Nat)
    BY <1>29, <1>0, Sizes DEF BrokerDispatches, WorkerType, WorkerStates
  <2>3. /\ handled' \in [Workers -> Nat] /\ framesSent' \in [Workers -> Nat]
        /\ progressed' \in SUBSET Workers /\ abandoned' \in BOOLEAN
    BY <1>29, <1>0, Sizes DEF BrokerDispatches, WorkerType, WorkerStates
  <2> QED
    BY <2>1, <2>2, <2>3 DEF WorkerType
<1>30. ASSUME BrokerHandlesLate PROVE WorkerType'
  BY <1>30, <1>0, Sizes DEF BrokerHandlesLate, workerVars, WorkerType, WorkerStates
<1>31. ASSUME BrokerNotices PROVE WorkerType'
  BY <1>31, <1>0, Sizes DEF BrokerNotices, workerVars, WorkerType, WorkerStates
<1>32. ASSUME BrokerCleans PROVE WorkerType'
  BY <1>32, <1>0, Sizes DEF BrokerCleans, workerVars, WorkerType, WorkerStates
<1>33. ASSUME NEW w \in Workers, BrokerMisbehaves(w) PROVE WorkerType'
  <2>1. UNCHANGED <<worker, handled, framesSent, progressed, abandoned>>
    BY <1>33 DEF BrokerMisbehaves
  <2>2. handlers' \in SUBSET (Workers \X Callers \X Nat)
    <3>1. CASE UNCHANGED handlers
      BY <3>1, <1>0 DEF WorkerType
    <3>2. ASSUME NEW p \in pending, handlers' = handlers \cup {<<w, p[1], 0>>}
          PROVE  handlers' \in SUBSET (Workers \X Callers \X Nat)
      <4>1. p[1] \in Callers
        BY <1>0 DEF BrokerType
      <4> QED
        BY <3>2, <4>1, <1>0 DEF WorkerType
    <3> QED
      BY <1>33, <3>1, <3>2 DEF BrokerMisbehaves
  <2> QED
    BY <2>1, <2>2, <1>0 DEF WorkerType
<1> QED
  BY <1>1, <1>2, <1>3, <1>4, <1>5, <1>6, <1>7, <1>8, <1>9, <1>10, <1>11, <1>12, <1>13, <1>14,
     <1>15, <1>16, <1>17, <1>18, <1>19, <1>20, <1>21, <1>22, <1>23, <1>24, <1>25, <1>26, <1>27,
     <1>28, <1>29, <1>30, <1>31, <1>32, <1>33
     DEF Next, Driver, Roles, Broker
(* The types of callers and broker. *)

(* Taking from a queue. *)
LEMMA TakeFrom ==
    ASSUME NEW S, NEW q \in Seq(S), q # <<>>
    PROVE  Head(q) \in S /\ Tail(q) \in Seq(S)
OBVIOUS

(* Adding to a queue. *)
LEMMA AddTo ==
    ASSUME NEW S, NEW q \in Seq(S), NEW e \in S
    PROVE  /\ Append(q, e) \in Seq(S) /\ Len(Append(q, e)) = Len(q) + 1
           /\ Append(q, e)[Len(q) + 1] = e
           /\ \A n \in 1..Len(q) : Append(q, e)[n] = q[n]
OBVIOUS

(* What the callers keep has its types. *)
LEMMA CallerStep ==
    ASSUME TypeOK, Next
    PROVE  CallerType'
<1>0. CallerType /\ BrokerType
  BY DEF TypeOK
<1>00. Thrown \in {"interrupted", "error"}
  BY DEF Thrown
<1>1. ASSUME Baseline PROVE CallerType'
  BY <1>1, <1>0 DEF Baseline, callerVars, CallerType
<1>2. ASSUME StartWorkers PROVE CallerType'
  BY <1>2, <1>0 DEF StartWorkers, callerVars, CallerType
<1>3. ASSUME StartCallers PROVE CallerType'
  <2>1. <<>> \in Seq(Deliveries)
    OBVIOUS
  <2> QED
    BY <1>3, <2>1, <1>0 DEF StartCallers, CallerType, CallerStates, CallStates
<1>4. ASSUME Release PROVE CallerType'
  BY <1>4, <1>0 DEF Release, CallerStates, CallStates, callerVars, CallerType
<1>5. ASSUME NEW step \in {"awaitWorkers", "awaitCallers", "awaitProgress"}, Await(step)
      PROVE  CallerType'
  BY <1>5, <1>0 DEF Await, callerVars, CallerType
<1>6. ASSUME FinishFleet PROVE CallerType'
  BY <1>6, <1>0 DEF FinishFleet, callerVars, CallerType
<1>7. ASSUME FinishCallers PROVE CallerType'
  BY <1>7, <1>0 DEF FinishCallers, callerVars, CallerType
<1>8. ASSUME StopWorkers PROVE CallerType'
  BY <1>8, <1>0 DEF StopWorkers, callerVars, CallerType
<1>9. ASSUME FinishWorkers PROVE CallerType'
  BY <1>9, <1>0 DEF FinishWorkers, callerVars, CallerType
<1>10. ASSUME KillWorkers PROVE CallerType'
  BY <1>10, <1>0 DEF KillWorkers, callerVars, CallerType
<1>11. ASSUME KillFitz PROVE CallerType'
  BY <1>11, <1>0 DEF KillFitz, CallerStates, CallStates, callerVars, CallerType
<1>12. ASSUME RestartFitz PROVE CallerType'
  BY <1>12, <1>0 DEF RestartFitz, callerVars, CallerType
<1>13. ASSUME Judge PROVE CallerType'
  BY <1>13, <1>0 DEF Judge, callerVars, CallerType
<1>14. ASSUME ReadStats PROVE CallerType'
  BY <1>14, <1>0 DEF ReadStats, callerVars, CallerType
<1>15. ASSUME ReadMetrics PROVE CallerType'
  BY <1>15, <1>0 DEF ReadMetrics, callerVars, CallerType
<1>16. ASSUME Quiesce PROVE CallerType'
  BY <1>16, <1>0 DEF Quiesce, callerVars, CallerType
<1>17. ASSUME DeadlinePasses PROVE CallerType'
  BY <1>17, <1>0 DEF DeadlinePasses, callerVars, CallerType
<1>18. ASSUME NEW w \in Workers, WorkerRegisters(w) PROVE CallerType'
  BY <1>18, <1>0 DEF WorkerRegisters, callerVars, CallerType
<1>19. ASSUME NEW w \in Workers, WorkerExits(w) PROVE CallerType'
  BY <1>19, <1>0 DEF WorkerExits, callerVars, CallerType
<1>20. ASSUME NEW w \in Workers, NEW x \in Callers, HandlerEnds(w, x) PROVE CallerType'
  BY <1>20, <1>0 DEF HandlerEnds, callerVars, CallerType
<1>21. ASSUME NEW w \in Workers, NEW x \in Callers,
             NEW n \in 0..(FramesPerCall - 1), HandlerWrites(w, x, n)
      PROVE  CallerType'
  BY <1>21, <1>0 DEF HandlerWrites, callerVars, CallerType
<1>22. ASSUME NEW c \in Callers, CallerConnects(c) PROVE CallerType'
  BY <1>22, <1>0 DEF CallerConnects, CallerStates, CallStates, callerVars, CallerType
<1>23. ASSUME NEW c \in Callers, StartCall(c) PROVE CallerType'
  BY <1>23, <1>0 DEF StartCall, CallerStates, CallStates, callerVars, CallerType
<1>24. ASSUME NEW c \in Callers, Receive(c) PROVE CallerType'
  <2>1. Head(outbox[c]) \in Deliveries
    <3>1. outbox[c] \in Seq(Deliveries) /\ outbox[c] # <<>>
      BY <1>24, <1>0 DEF Receive, BrokerType
    <3> QED
      BY <3>1, TakeFrom
  <2>2. consumed' \in [Callers -> Seq(Deliveries)]
    <3>1. consumed[c] \in Seq(Deliveries)
      BY <1>0 DEF CallerType
    <3>2. Append(consumed[c], Head(outbox[c])) \in Seq(Deliveries)
      BY <2>1, <3>1, AddTo
    <3> QED
      BY <1>24, <1>0, <3>2 DEF Receive, CallerType
  <2>3. call' \in [Callers -> CallStates]
    BY <1>24, <1>0, <1>00 DEF Receive, CallerType, CallStates
  <2> QED
    BY <1>24, <1>0, <2>2, <2>3 DEF Receive, CallerType
<1>25. ASSUME NEW c \in Callers, CallFails(c) PROVE CallerType'
  BY <1>25, <1>0, <1>00 DEF CallFails, CallerStates, CallStates, callerVars, CallerType
<1>26. ASSUME NEW c \in Callers, CallTimesOut(c) PROVE CallerType'
  BY <1>26, <1>0, <1>00 DEF CallTimesOut, CallerStates, CallStates, callerVars, CallerType
<1>27. ASSUME NEW c \in Callers, CallerExits(c) PROVE CallerType'
  BY <1>27, <1>0 DEF CallerExits, CallerStates, CallStates, callerVars, CallerType
<1>28. ASSUME NEW w \in Workers, BrokerHandles(w) PROVE CallerType'
  BY <1>28, <1>0 DEF BrokerHandles, callerVars, CallerType
<1>29. ASSUME NEW w \in Workers, NEW x \in Callers, BrokerDispatches(x, w) PROVE CallerType'
  BY <1>29, <1>0 DEF BrokerDispatches, callerVars, CallerType
<1>30. ASSUME BrokerHandlesLate PROVE CallerType'
  BY <1>30, <1>0 DEF BrokerHandlesLate, callerVars, CallerType
<1>31. ASSUME BrokerNotices PROVE CallerType'
  BY <1>31, <1>0 DEF BrokerNotices, callerVars, CallerType
<1>32. ASSUME BrokerCleans PROVE CallerType'
  BY <1>32, <1>0 DEF BrokerCleans, callerVars, CallerType
<1>33. ASSUME NEW w \in Workers, BrokerMisbehaves(w) PROVE CallerType'
  BY <1>33, <1>0 DEF BrokerMisbehaves, callerVars, CallerType
<1> QED
  BY <1>1, <1>2, <1>3, <1>4, <1>5, <1>6, <1>7, <1>8, <1>9, <1>10, <1>11, <1>12, <1>13, <1>14,
     <1>15, <1>16, <1>17, <1>18, <1>19, <1>20, <1>21, <1>22, <1>23, <1>24, <1>25, <1>26, <1>27,
     <1>28, <1>29, <1>30, <1>31, <1>32, <1>33
     DEF Next, Driver, Roles, Broker

(* What the broker keeps has its types. *)
LEMMA BrokerStep ==
    ASSUME TypeOK, Next
    PROVE  BrokerType'
<1>0. WorkerType /\ CallerType /\ BrokerType
  BY DEF TypeOK
<1>1. Workers = Callers /\ Workers \subseteq 0..Replicas /\ 0 \in 0..Replicas
  BY ReplicasAssumption DEF Workers, Callers
<1>2. ASSUME Baseline PROVE BrokerType'
  BY <1>2, <1>0, <1>1 DEF Baseline, brokerVars, BrokerType
<1>3. ASSUME StartWorkers PROVE BrokerType'
  BY <1>3, <1>0, <1>1 DEF StartWorkers, brokerVars, BrokerType
<1>4. ASSUME StartCallers PROVE BrokerType'
  <2>1. inbox' \in [Workers -> Seq(Messages)]
    BY <1>4, <1>0 DEF StartCallers, BrokerType
  <2>2. outbox' \in [Callers -> Seq(Deliveries)]
    <3>1. <<>> \in Seq(Deliveries)
      OBVIOUS
    <3> QED
      BY <1>4, <3>1, <1>0 DEF StartCallers, BrokerType
  <2>3. pending' \in SUBSET (Callers \X Workers)
    BY <1>4, <1>0 DEF StartCallers, BrokerType
  <2>4. /\ up' \in BOOLEAN /\ registered' \in SUBSET Workers /\ requests' \in SUBSET Callers
        /\ late' \in Nat /\ ended' \in BOOLEAN /\ closing' \in BOOLEAN
        /\ failures' \in BOOLEAN /\ misbehaved' \in BOOLEAN /\ straggled' \in BOOLEAN
    BY <1>4, <1>0 DEF StartCallers, BrokerType
  <2> QED
    BY <2>1, <2>2, <2>3, <2>4 DEF BrokerType
<1>5. ASSUME Release PROVE BrokerType'
  BY <1>5, <1>0, <1>1 DEF Release, brokerVars, BrokerType
<1>6. ASSUME NEW step \in {"awaitWorkers", "awaitCallers", "awaitProgress"}, Await(step)
      PROVE  BrokerType'
  BY <1>6, <1>0, <1>1 DEF Await, brokerVars, BrokerType
<1>7. ASSUME FinishFleet PROVE BrokerType'
  BY <1>7, <1>0, <1>1 DEF FinishFleet, brokerVars, BrokerType
<1>8. ASSUME FinishCallers PROVE BrokerType'
  BY <1>8, <1>0, <1>1 DEF FinishCallers, brokerVars, BrokerType
<1>9. ASSUME StopWorkers PROVE BrokerType'
  <2>1. inbox' \in [Workers -> Seq(Messages)]
    <3>1. ASSUME NEW w \in Workers
          PROVE  inbox[w] \in Seq(Messages) /\ Append(inbox[w], Unregister) \in Seq(Messages)
      <4>1. Unregister \in Messages
        BY <1>1 DEF Unregister, Frame, Messages
      <4>2. inbox[w] \in Seq(Messages)
        BY <1>0 DEF BrokerType
      <4> QED
        BY <4>1, <4>2, AddTo
    <3> QED
      BY <1>9, <3>1 DEF StopWorkers
  <2>2. outbox' \in [Callers -> Seq(Deliveries)]
    BY <1>9, <1>0 DEF StopWorkers, BrokerType
  <2>3. pending' \in SUBSET (Callers \X Workers)
    BY <1>9, <1>0 DEF StopWorkers, BrokerType
  <2>4. /\ up' \in BOOLEAN /\ registered' \in SUBSET Workers /\ requests' \in SUBSET Callers
        /\ late' \in Nat /\ ended' \in BOOLEAN /\ closing' \in BOOLEAN
        /\ failures' \in BOOLEAN /\ misbehaved' \in BOOLEAN /\ straggled' \in BOOLEAN
    BY <1>9, <1>0 DEF StopWorkers, BrokerType
  <2> QED
    BY <2>1, <2>2, <2>3, <2>4 DEF BrokerType
<1>10. ASSUME FinishWorkers PROVE BrokerType'
  BY <1>10, <1>0, <1>1 DEF FinishWorkers, brokerVars, BrokerType
<1>11. ASSUME KillWorkers PROVE BrokerType'
  BY <1>11, <1>0, <1>1 DEF KillWorkers, brokerVars, BrokerType
<1>12. ASSUME KillFitz PROVE BrokerType'
  <2>1. inbox' \in [Workers -> Seq(Messages)]
    <3>1. <<>> \in Seq(Messages)
      OBVIOUS
    <3> QED
      BY <1>12, <3>1, <1>0 DEF KillFitz, BrokerType
  <2>2. outbox' \in [Callers -> Seq(Deliveries)]
    BY <1>12, <1>0 DEF KillFitz, BrokerType
  <2>3. pending' \in SUBSET (Callers \X Workers)
    BY <1>12, <1>0 DEF KillFitz, BrokerType
  <2>4. /\ up' \in BOOLEAN /\ registered' \in SUBSET Workers /\ requests' \in SUBSET Callers
        /\ late' \in Nat /\ ended' \in BOOLEAN /\ closing' \in BOOLEAN
        /\ failures' \in BOOLEAN /\ misbehaved' \in BOOLEAN /\ straggled' \in BOOLEAN
    BY <1>12, <1>0 DEF KillFitz, BrokerType
  <2> QED
    BY <2>1, <2>2, <2>3, <2>4 DEF BrokerType
<1>13. ASSUME RestartFitz PROVE BrokerType'
  BY <1>13, <1>0, <1>1 DEF RestartFitz, brokerVars, BrokerType
<1>14. ASSUME Judge PROVE BrokerType'
  BY <1>14, <1>0, <1>1 DEF Judge, brokerVars, BrokerType
<1>15. ASSUME ReadStats PROVE BrokerType'
  BY <1>15, <1>0, <1>1 DEF ReadStats, brokerVars, BrokerType
<1>16. ASSUME ReadMetrics PROVE BrokerType'
  BY <1>16, <1>0, <1>1 DEF ReadMetrics, brokerVars, BrokerType
<1>17. ASSUME Quiesce PROVE BrokerType'
  BY <1>17, <1>0, <1>1 DEF Quiesce, brokerVars, BrokerType
<1>18. ASSUME DeadlinePasses PROVE BrokerType'
  BY <1>18, <1>0, <1>1 DEF DeadlinePasses, brokerVars, BrokerType
<1>19. ASSUME NEW w \in Workers, WorkerRegisters(w) PROVE BrokerType'
  BY <1>19, <1>0, <1>1 DEF WorkerRegisters, brokerVars, BrokerType
<1>20. ASSUME NEW w \in Workers, WorkerExits(w) PROVE BrokerType'
  BY <1>20, <1>0, <1>1 DEF WorkerExits, brokerVars, BrokerType
<1>21. ASSUME NEW w \in Workers, NEW x \in Callers, HandlerEnds(w, x) PROVE BrokerType'
  BY <1>21, <1>0, <1>1 DEF HandlerEnds, brokerVars, BrokerType
<1>22. ASSUME NEW w \in Workers, NEW x \in Callers,
             NEW n \in 0..(FramesPerCall - 1), HandlerWrites(w, x, n)
      PROVE  BrokerType'
  <2>1. inbox' \in [Workers -> Seq(Messages)]
    <3>1. Frame(x, n + 1) \in Messages
      BY <1>1, Sizes DEF Frame, Messages
    <3>2. inbox[w] \in Seq(Messages)
      BY <1>0 DEF BrokerType
    <3>3. Append(inbox[w], Frame(x, n + 1)) \in Seq(Messages)
      BY <3>1, <3>2, AddTo
    <3> QED
      BY <1>22, <1>0, <3>3 DEF HandlerWrites, BrokerType
  <2>2. outbox' \in [Callers -> Seq(Deliveries)]
    BY <1>22, <1>0 DEF HandlerWrites, BrokerType
  <2>3. pending' \in SUBSET (Callers \X Workers)
    BY <1>22, <1>0 DEF HandlerWrites, BrokerType
  <2>4. /\ up' \in BOOLEAN /\ registered' \in SUBSET Workers /\ requests' \in SUBSET Callers
        /\ late' \in Nat /\ ended' \in BOOLEAN /\ closing' \in BOOLEAN
        /\ failures' \in BOOLEAN /\ misbehaved' \in BOOLEAN /\ straggled' \in BOOLEAN
    BY <1>22, <1>0 DEF HandlerWrites, BrokerType
  <2> QED
    BY <2>1, <2>2, <2>3, <2>4 DEF BrokerType
<1>23. ASSUME NEW c \in Callers, CallerConnects(c) PROVE BrokerType'
  BY <1>23, <1>0, <1>1 DEF CallerConnects, brokerVars, BrokerType
<1>24. ASSUME NEW c \in Callers, StartCall(c) PROVE BrokerType'
  BY <1>24, <1>0, <1>1 DEF StartCall, brokerVars, BrokerType
<1>25. ASSUME NEW c \in Callers, Receive(c) PROVE BrokerType'
  <2>1. inbox' \in [Workers -> Seq(Messages)]
    BY <1>25, <1>0 DEF Receive, BrokerType
  <2>2. outbox' \in [Callers -> Seq(Deliveries)]
    <3>1. outbox[c] \in Seq(Deliveries) /\ outbox[c] # <<>>
      BY <1>25, <1>0 DEF Receive, BrokerType
    <3>2. Tail(outbox[c]) \in Seq(Deliveries)
      BY <3>1, TakeFrom
    <3> QED
      BY <1>25, <1>0, <3>2 DEF Receive, BrokerType
  <2>3. pending' \in SUBSET (Callers \X Workers)
    BY <1>25, <1>0 DEF Receive, BrokerType
  <2>4. /\ up' \in BOOLEAN /\ registered' \in SUBSET Workers /\ requests' \in SUBSET Callers
        /\ late' \in Nat /\ ended' \in BOOLEAN /\ closing' \in BOOLEAN
        /\ failures' \in BOOLEAN /\ misbehaved' \in BOOLEAN /\ straggled' \in BOOLEAN
    BY <1>25, <1>0 DEF Receive, BrokerType
  <2> QED
    BY <2>1, <2>2, <2>3, <2>4 DEF BrokerType
<1>26. ASSUME NEW c \in Callers, CallFails(c) PROVE BrokerType'
  BY <1>26, <1>0, <1>1 DEF CallFails, brokerVars, BrokerType
<1>27. ASSUME NEW c \in Callers, CallTimesOut(c) PROVE BrokerType'
  BY <1>27, <1>0, <1>1 DEF CallTimesOut, brokerVars, BrokerType
<1>28. ASSUME NEW c \in Callers, CallerExits(c) PROVE BrokerType'
  BY <1>28, <1>0, <1>1 DEF CallerExits, brokerVars, BrokerType
<1>29. ASSUME NEW w \in Workers, BrokerHandles(w) PROVE BrokerType'
  <2>1. inbox' \in [Workers -> Seq(Messages)]
    <3>1. inbox[w] \in Seq(Messages) /\ inbox[w] # <<>>
      BY <1>29, <1>0 DEF BrokerHandles, BrokerType
    <3>2. Tail(inbox[w]) \in Seq(Messages)
      BY <3>1, TakeFrom
    <3> QED
      BY <1>29, <1>0, <3>2 DEF BrokerHandles, BrokerType
  <2>2. outbox' \in [Callers -> Seq(Deliveries)]
    <3> DEFINE msg == Head(inbox[w])
               f == [worker |-> w, call |-> msg.call, frame |-> msg.frame]
    <3>1. CASE UNCHANGED outbox
      BY <3>1, <1>0 DEF BrokerType
    <3>2. ASSUME <<msg.call, w>> \in pending,
                 outbox' = [outbox EXCEPT ![msg.call] = Append(@, f)]
          PROVE  outbox' \in [Callers -> Seq(Deliveries)]
      <4>1. msg \in Messages
        BY <1>29, <1>0, TakeFrom DEF BrokerHandles, BrokerType
      <4>2. msg.call \in Callers
        BY <3>2, <1>0 DEF BrokerType
      <4>3. f \in Deliveries
        BY <4>1, <4>2, <1>1 DEF Messages, Deliveries
      <4>4. outbox[msg.call] \in Seq(Deliveries)
        BY <4>2, <1>0 DEF BrokerType
      <4>5. Append(outbox[msg.call], f) \in Seq(Deliveries)
        BY <4>3, <4>4, AddTo
      <4> QED
        BY <3>2, <4>2, <4>5, <1>0 DEF BrokerType
    <3> QED
      BY <1>29, <3>1, <3>2 DEF BrokerHandles
  <2>3. pending' \in SUBSET (Callers \X Workers)
    BY <1>29, <1>0 DEF BrokerHandles, BrokerType
  <2>4. /\ up' \in BOOLEAN /\ registered' \in SUBSET Workers /\ requests' \in SUBSET Callers
        /\ late' \in Nat /\ ended' \in BOOLEAN /\ closing' \in BOOLEAN
        /\ failures' \in BOOLEAN /\ misbehaved' \in BOOLEAN /\ straggled' \in BOOLEAN
    BY <1>29, <1>0 DEF BrokerHandles, BrokerType
  <2> QED
    BY <2>1, <2>2, <2>3, <2>4 DEF BrokerType
<1>30. ASSUME NEW w \in Workers, NEW x \in Callers, BrokerDispatches(x, w) PROVE BrokerType'
  BY <1>30, <1>0, <1>1 DEF BrokerDispatches, brokerVars, BrokerType
<1>31. ASSUME BrokerHandlesLate PROVE BrokerType'
  BY <1>31, <1>0, <1>1 DEF BrokerHandlesLate, brokerVars, BrokerType
<1>32. ASSUME BrokerNotices PROVE BrokerType'
  BY <1>32, <1>0, <1>1 DEF BrokerNotices, brokerVars, BrokerType
<1>33. ASSUME BrokerCleans PROVE BrokerType'
  <2>1. inbox' \in [Workers -> Seq(Messages)]
    BY <1>33, <1>0 DEF BrokerCleans, BrokerType
  <2>2. outbox' \in [Callers -> Seq(Deliveries)]
    <3>1. ASSUME NEW x \in Callers
          PROVE  Append(outbox[x], [worker |-> 0, call |-> x, frame |-> 0]) \in Seq(Deliveries)
      <4>1. [worker |-> 0, call |-> x, frame |-> 0] \in Deliveries
        BY <1>1 DEF Deliveries
      <4>2. outbox[x] \in Seq(Deliveries)
        BY <1>0 DEF BrokerType
      <4> QED
        BY <4>1, <4>2, AddTo
    <3> QED
      BY <1>33, <1>0, <3>1 DEF BrokerCleans, BrokerType
  <2>3. pending' \in SUBSET (Callers \X Workers)
    BY <1>33, <1>0 DEF BrokerCleans, BrokerType
  <2>4. /\ up' \in BOOLEAN /\ registered' \in SUBSET Workers /\ requests' \in SUBSET Callers
        /\ late' \in Nat /\ ended' \in BOOLEAN /\ closing' \in BOOLEAN
        /\ failures' \in BOOLEAN /\ misbehaved' \in BOOLEAN /\ straggled' \in BOOLEAN
    BY <1>33, <1>0 DEF BrokerCleans, BrokerType
  <2> QED
    BY <2>1, <2>2, <2>3, <2>4 DEF BrokerType
<1>34. ASSUME NEW w \in Workers, BrokerMisbehaves(w) PROVE BrokerType'
  <2>1. inbox' \in [Workers -> Seq(Messages)]
    <3>1. CASE UNCHANGED inbox
      BY <3>1, <1>0 DEF BrokerType
    <3>2. ASSUME inbox[w] # <<>>, inbox' = [inbox EXCEPT ![w] = Tail(@)]
          PROVE  inbox' \in [Workers -> Seq(Messages)]
      BY <3>2, <1>0, TakeFrom DEF BrokerType
    <3> QED
      BY <1>34, <3>1, <3>2 DEF BrokerMisbehaves
  <2>2. outbox' \in [Callers -> Seq(Deliveries)]
    <3> DEFINE msg == Head(inbox[w])
               f == [worker |-> w, call |-> msg.call, frame |-> msg.frame]
    <3>1. CASE UNCHANGED outbox
      BY <3>1, <1>0 DEF BrokerType
    <3>2. ASSUME inbox[w] # <<>>, <<msg.call, w>> \in pending,
                 outbox' = [outbox EXCEPT ![msg.call] = Append(Append(@, f), f)]
          PROVE  outbox' \in [Callers -> Seq(Deliveries)]
      <4>1. msg \in Messages
        BY <3>2, <1>0, TakeFrom DEF BrokerType
      <4>2. msg.call \in Callers
        BY <3>2, <1>0 DEF BrokerType
      <4>3. f \in Deliveries
        BY <4>1, <4>2, <1>1 DEF Messages, Deliveries
      <4>4. outbox[msg.call] \in Seq(Deliveries)
        BY <4>2, <1>0 DEF BrokerType
      <4>5. Append(outbox[msg.call], f) \in Seq(Deliveries)
        BY <4>3, <4>4, AddTo
      <4>6. Append(Append(outbox[msg.call], f), f) \in Seq(Deliveries)
        BY <4>3, <4>5, AddTo
      <4> QED
        BY <3>2, <4>2, <4>6, <1>0 DEF BrokerType
    <3>3. ASSUME NEW x \in Members, NEW y \in Members,
                 outbox' = [outbox EXCEPT ![x] = outbox[y], ![y] = outbox[x]]
          PROVE  outbox' \in [Callers -> Seq(Deliveries)]
      BY <3>3, <1>0, Sizes DEF BrokerType
    <3> QED
      BY <1>34, <3>1, <3>2, <3>3 DEF BrokerMisbehaves
  <2>3. pending' \in SUBSET (Callers \X Workers)
    BY <1>34, <1>0 DEF BrokerMisbehaves, BrokerType
  <2>4. /\ up' \in BOOLEAN /\ registered' \in SUBSET Workers /\ requests' \in SUBSET Callers
        /\ late' \in Nat /\ ended' \in BOOLEAN /\ closing' \in BOOLEAN
        /\ failures' \in BOOLEAN /\ misbehaved' \in BOOLEAN /\ straggled' \in BOOLEAN
    BY <1>34, <1>0 DEF BrokerMisbehaves, BrokerType
  <2> QED
    BY <2>1, <2>2, <2>3, <2>4 DEF BrokerType
<1> QED
  BY <1>2, <1>3, <1>4, <1>5, <1>6, <1>7, <1>8, <1>9, <1>10, <1>11, <1>12, <1>13, <1>14, <1>15,
     <1>16, <1>17, <1>18, <1>19, <1>20, <1>21, <1>22, <1>23, <1>24, <1>25, <1>26, <1>27, <1>28,
     <1>29, <1>30, <1>31, <1>32, <1>33, <1>34
     DEF Next, Driver, Roles, Broker

(* Every step keeps the types, and the driver's place in the phase. *)
LEMMA TypeStep ==
    ASSUME TypeOK, Place, Next
    PROVE  TypeOK' /\ Place'
<1>1. DriverType' /\ Place'
  <2>1. CASE Driver \/ DeadlinePasses
    BY <2>1, DriverStep DEF TypeOK
  <2>2. CASE Roles \/ Broker \/ \E w \in Workers : BrokerMisbehaves(w)
    <3>1. UNCHANGED driverVars
      BY <2>2, DriverApart
    <3>2. UNCHANGED <<scenario, phase, todo, callerFailure, baseline, stats, metrics, outcome>>
      BY <3>1 DEF driverVars
    <3> QED
      BY <3>2, SamePlace DEF TypeOK, DriverType
  <2> QED
    BY <2>1, <2>2 DEF Next
<1> QED
  BY <1>1, WorkerStep, CallerStep, BrokerStep DEF TypeOK
-----------------------------------------------------------------------------
(* Nothing is left behind by a phase. *)

(* What a step of the driver that is not the wait for quiescence says about the
   next one. *)
LEMMA Moves ==
    ASSUME TypeOK, Place, UNCHANGED <<scenario, phase>>, Done, Head(todo) # "quiesce"
    PROVE  /\ Kind' = Kind /\ Members' = Members /\ FramesPerCall' = FramesPerCall
           /\ Fresh' => Fresh /\ Head(todo) = "baseline"
           /\ Fresh /\ Head(todo) = "baseline" => Fresh'
           /\ Fresh => Head(todo) \in {"baseline", "startWorkers"}
           /\ Head(todo) = "startWorkers" => Fresh
           /\ Head(todo) = "killWorkers" => Kind = "worker-kill"
           /\ Over' => \/ Fresh /\ Head(todo) = "baseline"
                       \/ Head(todo) \in {"judge", "finishWorkers", "killWorkers"}
                       \/ Kind = "worker-kill" /\ Head(todo) = "finishCallers"
           /\ Head(todo)' = "quiesce" /\ IsFleet(Kind) => Head(todo) = "judge"
<1>1. DriverType
  BY DEF TypeOK
<1>2. Kind' = Kind /\ FramesPerCall' = FramesPerCall
  BY DEF Kind, Phases, FramesPerCall
<1>3. Members' = Members
  BY <1>2, Zenon DEF Members
<1>4. /\ Fresh' => Fresh /\ Head(todo) = "baseline"
      /\ Fresh /\ Head(todo) = "baseline" => Fresh'
      /\ Over' => \/ Fresh /\ Head(todo) = "baseline"
                  \/ Head(todo) \in {"judge", "finishWorkers", "killWorkers"}
                  \/ Kind = "worker-kill" /\ Head(todo) = "finishCallers"
      /\ Head(todo)' = "quiesce" /\ IsFleet(Kind) => Head(todo) = "judge"
  BY <1>1, NextStep
<1>5. /\ Fresh => Head(todo) \in {"baseline", "startWorkers"}
      /\ Head(todo) = "startWorkers" => Fresh
      /\ Head(todo) = "killWorkers" => Kind = "worker-kill"
  BY <1>1, Order
<1> QED
  BY <1>2, <1>3, <1>4, <1>5

(* The wait for quiescence polls again or ends the run, or the next phase
   begins. *)
LEMMA QuiesceStep ==
    ASSUME TypeOK, Place, Quiesce
    PROVE  /\ UNCHANGED <<scenario, worker, handlers, call, consumed, registered, pending>>
           /\ FramesPerCall' = FramesPerCall
           /\ Head(todo) = "quiesce" /\ stats # "unread" /\ stats' = "unread"
           /\ \/ UNCHANGED <<phase, todo>> /\ (outcome' = "passed" => Quiescent)
              \/ Fresh' /\ Head(todo)' = "baseline" /\ Quiescent /\ outcome' = "none"
<1>1. /\ UNCHANGED <<scenario, worker, handlers, call, consumed, registered, pending>>
      /\ Head(todo) = "quiesce" /\ stats # "unread" /\ stats' = "unread"
  BY DEF Quiesce, At, workerVars, callerVars, brokerVars
<1>2. FramesPerCall' = FramesPerCall
  BY <1>1 DEF FramesPerCall
<1>3. CASE UNCHANGED <<phase, todo>>
  <2>1. outcome' = "passed" => Quiescent
    BY DEF Quiesce, At
  <2> QED
    BY <1>1, <1>2, <1>3, <2>1
<1>4. CASE ~UNCHANGED <<phase, todo>>
  <2>1. /\ Quiescent /\ outcome' = "none" /\ phase' = phase + 1
        /\ todo' = PhaseSteps(Phases[phase + 1])
    BY <1>4 DEF Quiesce, NextPhase
  <2>2. todo' = PhaseSteps(Kind')
    BY <1>1, <2>1 DEF Kind, Phases
  <2>3. Kind' \in KindNames
    <3>1. DriverType'
      BY DriverStep DEF TypeOK, Driver
    <3>2. CASE scenario' = "rpc-pressure"
      BY <3>1, <3>2 DEF DriverType, Kind, Phases, KindNames
    <3>3. CASE scenario' # "rpc-pressure"
      BY <3>1, <3>3 DEF DriverType, Kind, Phases, KindNames
    <3> QED
      BY <3>2, <3>3
  <2>4. Head(todo)' = "baseline" /\ Len(todo)' \in Nat
    BY <2>2, <2>3, ProgramType
  <2>5. Fresh'
    BY <2>2, <2>4 DEF Fresh
  <2> QED
    BY <1>1, <1>2, <2>1, <2>4, <2>5
<1> QED
  BY <1>3, <1>4
(* The workers of a phase. *)

(* Who runs. *)
LEMMA WorkersStep ==
    ASSUME TypeOK, Place, WorkersInv, Next
    PROVE  WorkersInv'
<1>1. ASSUME Baseline PROVE WorkersInv'
  <2>1. Done /\ Head(todo) # "quiesce" /\ UNCHANGED <<scenario, phase, worker>>
    BY <1>1 DEF Baseline, At, workerVars
  <2>2. Over' => Over
    BY <1>1, <2>1, Moves DEF Baseline, At, Over
  <2>3. ~Fresh' => ~Fresh
    BY <1>1, <2>1, Moves DEF Baseline, At
  <2>4. Members' = Members
    BY <2>1, Moves
  <2> QED
    BY <2>1, <2>2, <2>3, <2>4, Zenon DEF WorkersInv
<1>2. ASSUME StartWorkers PROVE WorkersInv'
  <2>1. /\ Done /\ Head(todo) # "quiesce" /\ UNCHANGED <<scenario, phase>>
    BY <1>2 DEF StartWorkers, At
  <2> QED
    BY <1>2, <2>1, Moves, Sizes DEF StartWorkers, At, WorkersInv, TypeOK, WorkerType
<1>3. ASSUME StartCallers PROVE WorkersInv'
  <2>1. /\ Done /\ Head(todo) # "quiesce" /\ UNCHANGED <<scenario, phase>>
    BY <1>3 DEF StartCallers, At
  <2> QED
    BY <1>3, <2>1, Moves
       DEF StartCallers, At, workerVars, callerVars, brokerVars, WorkersInv, TypeOK, WorkerType
<1>4. ASSUME Release PROVE WorkersInv'
  <2>1. /\ Done /\ Head(todo) # "quiesce" /\ UNCHANGED <<scenario, phase>>
    BY <1>4 DEF Release, At
  <2> QED
    BY <1>4, <2>1, Moves
       DEF Release, At, workerVars, callerVars, brokerVars, WorkersInv, TypeOK, WorkerType
<1>5. ASSUME NEW step \in {"awaitWorkers", "awaitCallers", "awaitProgress"}, Await(step)
      PROVE  WorkersInv'
  <2>1. /\ Done /\ Head(todo) # "quiesce" /\ UNCHANGED <<scenario, phase>>
    BY <1>5 DEF Await, At
  <2> QED
    BY <1>5, <2>1, Moves
       DEF Await, At, workerVars, callerVars, brokerVars, WorkersInv, TypeOK, WorkerType
<1>6. ASSUME FinishFleet PROVE WorkersInv'
  <2>1. /\ Done /\ Head(todo) # "quiesce" /\ UNCHANGED <<scenario, phase>>
    BY <1>6 DEF FinishFleet, At
  <2> QED
    BY <1>6, <2>1, Moves
       DEF FinishFleet, At, workerVars, callerVars, brokerVars, WorkersInv, TypeOK, WorkerType
<1>7. ASSUME FinishCallers PROVE WorkersInv'
  <2>1. Done /\ Head(todo) # "quiesce" /\ UNCHANGED <<scenario, phase, worker>>
    BY <1>7 DEF FinishCallers, At, workerVars
  <2>2. Over' => Over
    BY <1>7, <2>1, Moves DEF FinishCallers, At, Over
  <2>3. ~Fresh' => ~Fresh
    BY <1>7, <2>1, Moves DEF FinishCallers, At
  <2>4. Members' = Members
    BY <2>1, Moves
  <2> QED
    BY <2>1, <2>2, <2>3, <2>4, Zenon DEF WorkersInv
<1>8. ASSUME StopWorkers PROVE WorkersInv'
  <2>1. /\ Done /\ Head(todo) # "quiesce" /\ UNCHANGED <<scenario, phase>>
    BY <1>8 DEF StopWorkers, At
  <2> QED
    BY <1>8, <2>1, Moves DEF StopWorkers, At, WorkersInv, TypeOK, WorkerType
<1>9. ASSUME FinishWorkers PROVE WorkersInv'
  <2>1. /\ Done /\ Head(todo) # "quiesce" /\ UNCHANGED <<scenario, phase>>
    BY <1>9 DEF FinishWorkers, At
  <2> QED
    BY <1>9, <2>1, Moves
       DEF FinishWorkers, At, workerVars, callerVars, brokerVars, WorkersInv, TypeOK, WorkerType
<1>10. ASSUME KillWorkers PROVE WorkersInv'
  <2>1. /\ Done /\ Head(todo) # "quiesce" /\ UNCHANGED <<scenario, phase>>
    BY <1>10 DEF KillWorkers, At
  <2> QED
    BY <1>10, <2>1, Moves DEF KillWorkers, At, WorkersInv, TypeOK, WorkerType
<1>11. ASSUME KillFitz PROVE WorkersInv'
  <2>1. /\ Done /\ Head(todo) # "quiesce" /\ UNCHANGED <<scenario, phase>>
    BY <1>11 DEF KillFitz, At
  <2> QED
    BY <1>11, <2>1, Moves DEF KillFitz, At, WorkersInv, TypeOK, WorkerType
<1>12. ASSUME RestartFitz PROVE WorkersInv'
  <2>1. /\ Done /\ Head(todo) # "quiesce" /\ UNCHANGED <<scenario, phase>>
    BY <1>12 DEF RestartFitz, At
  <2> QED
    BY <1>12, <2>1, Moves
       DEF RestartFitz, At, workerVars, callerVars, brokerVars, WorkersInv, TypeOK, WorkerType
<1>13. ASSUME Judge PROVE WorkersInv'
  <2>1. Done /\ Head(todo) # "quiesce" /\ UNCHANGED <<scenario, phase, worker>>
    BY <1>13 DEF Judge, At, workerVars
  <2>2. Over' => Over
    BY <1>13, <2>1, Moves DEF Judge, At, Over
  <2>3. ~Fresh' => ~Fresh
    BY <1>13, <2>1, Moves DEF Judge, At
  <2>4. Members' = Members
    BY <2>1, Moves
  <2> QED
    BY <2>1, <2>2, <2>3, <2>4, Zenon DEF WorkersInv
<1>14. ASSUME ReadStats PROVE WorkersInv'
  <2>1. UNCHANGED <<scenario, phase, todo, outcome>>
    BY <1>14 DEF ReadStats
  <2> QED
    BY <1>14, <2>1, SamePlace
       DEF ReadStats, At, workerVars, callerVars, brokerVars, WorkersInv, TypeOK, WorkerType
<1>15. ASSUME ReadMetrics PROVE WorkersInv'
  <2>1. UNCHANGED <<scenario, phase, todo, outcome, stats>>
    BY <1>15 DEF ReadMetrics
  <2> QED
    BY <1>15, <2>1, SamePlace
       DEF ReadMetrics, At, workerVars, callerVars, brokerVars, WorkersInv, TypeOK, WorkerType
<1>16. ASSUME Quiesce PROVE WorkersInv'
  BY <1>16, QuiesceStep, SamePlace DEF WorkersInv, TypeOK, WorkerType, Over
<1>17. ASSUME DeadlinePasses PROVE WorkersInv'
  <2>1. UNCHANGED <<scenario, phase, todo, stats>>
    BY <1>17 DEF DeadlinePasses
  <2> QED
    BY <1>17, <2>1, SamePlace
       DEF DeadlinePasses, At, workerVars, callerVars, brokerVars, WorkersInv, TypeOK, WorkerType
<1>18. ASSUME NEW w \in Workers, WorkerRegisters(w) PROVE WorkersInv'
  <2>1. UNCHANGED <<scenario, phase, todo, outcome, stats>>
    BY <1>18 DEF WorkerRegisters, driverVars
  <2> QED
    BY <1>18, <2>1, SamePlace, Sizes
       DEF WorkerRegisters, workerVars, callerVars, brokerVars, WorkersInv, TypeOK, WorkerType
<1>19. ASSUME NEW w \in Workers, WorkerExits(w) PROVE WorkersInv'
  <2>1. UNCHANGED <<scenario, phase, todo, outcome, stats>>
    BY <1>19 DEF WorkerExits, driverVars
  <2> QED
    BY <1>19, <2>1, SamePlace, Sizes
       DEF WorkerExits, workerVars, callerVars, brokerVars, WorkersInv, TypeOK, WorkerType
<1>20. ASSUME NEW w \in Workers, NEW x \in Callers, HandlerEnds(w, x) PROVE WorkersInv'
  <2>1. UNCHANGED <<scenario, phase, todo, outcome, stats>>
    BY <1>20 DEF HandlerEnds, driverVars
  <2> QED
    BY <1>20, <2>1, SamePlace
       DEF HandlerEnds, workerVars, callerVars, brokerVars, WorkersInv, TypeOK, WorkerType
<1>21. ASSUME NEW w \in Workers, NEW x \in Callers,
             NEW n \in 0..(FramesPerCall - 1), HandlerWrites(w, x, n)
      PROVE  WorkersInv'
  <2>1. UNCHANGED <<scenario, phase, todo, outcome, stats>>
    BY <1>21 DEF HandlerWrites, driverVars
  <2> QED
    BY <1>21, <2>1, SamePlace
       DEF HandlerWrites, workerVars, callerVars, brokerVars, WorkersInv, TypeOK, WorkerType
<1>22. ASSUME NEW c \in Callers, CallerConnects(c) PROVE WorkersInv'
  <2>1. UNCHANGED <<scenario, phase, todo, outcome, stats>>
    BY <1>22 DEF CallerConnects, driverVars
  <2> QED
    BY <1>22, <2>1, SamePlace
       DEF CallerConnects, workerVars, callerVars, brokerVars, WorkersInv, TypeOK, WorkerType
<1>23. ASSUME NEW c \in Callers, StartCall(c) PROVE WorkersInv'
  <2>1. UNCHANGED <<scenario, phase, todo, outcome, stats>>
    BY <1>23 DEF StartCall, driverVars
  <2> QED
    BY <1>23, <2>1, SamePlace
       DEF StartCall, workerVars, callerVars, brokerVars, WorkersInv, TypeOK, WorkerType
<1>24. ASSUME NEW c \in Callers, Receive(c) PROVE WorkersInv'
  <2>1. UNCHANGED <<scenario, phase, todo, outcome, stats>>
    BY <1>24 DEF Receive, driverVars
  <2> QED
    BY <1>24, <2>1, SamePlace
       DEF Receive, workerVars, callerVars, brokerVars, WorkersInv, TypeOK, WorkerType
<1>25. ASSUME NEW c \in Callers, CallFails(c) PROVE WorkersInv'
  <2>1. UNCHANGED <<scenario, phase, todo, outcome, stats>>
    BY <1>25 DEF CallFails, driverVars
  <2> QED
    BY <1>25, <2>1, SamePlace
       DEF CallFails, workerVars, callerVars, brokerVars, WorkersInv, TypeOK, WorkerType
<1>26. ASSUME NEW c \in Callers, CallTimesOut(c) PROVE WorkersInv'
  <2>1. UNCHANGED <<scenario, phase, todo, outcome, stats>>
    BY <1>26 DEF CallTimesOut, driverVars
  <2> QED
    BY <1>26, <2>1, SamePlace
       DEF CallTimesOut, workerVars, callerVars, brokerVars, WorkersInv, TypeOK, WorkerType
<1>27. ASSUME NEW c \in Callers, CallerExits(c) PROVE WorkersInv'
  <2>1. UNCHANGED <<scenario, phase, todo, outcome, stats>>
    BY <1>27 DEF CallerExits, driverVars
  <2> QED
    BY <1>27, <2>1, SamePlace
       DEF CallerExits, workerVars, callerVars, brokerVars, WorkersInv, TypeOK, WorkerType
<1>28. ASSUME NEW w \in Workers, BrokerHandles(w) PROVE WorkersInv'
  <2>1. UNCHANGED <<scenario, phase, todo, outcome, stats>>
    BY <1>28 DEF BrokerHandles, driverVars
  <2> QED
    BY <1>28, <2>1, SamePlace
       DEF BrokerHandles, workerVars, callerVars, brokerVars, WorkersInv, TypeOK, WorkerType
<1>29. ASSUME NEW w \in Workers, NEW x \in Callers, BrokerDispatches(x, w) PROVE WorkersInv'
  <2>1. UNCHANGED <<scenario, phase, todo, outcome, stats>>
    BY <1>29 DEF BrokerDispatches, driverVars
  <2> QED
    BY <1>29, <2>1, SamePlace
       DEF BrokerDispatches, workerVars, callerVars, brokerVars, WorkersInv, TypeOK, WorkerType
<1>30. ASSUME BrokerHandlesLate PROVE WorkersInv'
  <2>1. UNCHANGED <<scenario, phase, todo, outcome, stats>>
    BY <1>30 DEF BrokerHandlesLate, driverVars
  <2> QED
    BY <1>30, <2>1, SamePlace
       DEF BrokerHandlesLate, workerVars, callerVars, brokerVars, WorkersInv, TypeOK, WorkerType
<1>31. ASSUME BrokerNotices PROVE WorkersInv'
  <2>1. UNCHANGED <<scenario, phase, todo, outcome, stats>>
    BY <1>31 DEF BrokerNotices, driverVars
  <2> QED
    BY <1>31, <2>1, SamePlace
       DEF BrokerNotices, workerVars, callerVars, brokerVars, WorkersInv, TypeOK, WorkerType
<1>32. ASSUME BrokerCleans PROVE WorkersInv'
  <2>1. UNCHANGED <<scenario, phase, todo, outcome, stats>>
    BY <1>32 DEF BrokerCleans, driverVars
  <2> QED
    BY <1>32, <2>1, SamePlace
       DEF BrokerCleans, workerVars, callerVars, brokerVars, WorkersInv, TypeOK, WorkerType
<1>33. ASSUME NEW w \in Workers, BrokerMisbehaves(w) PROVE WorkersInv'
  <2>1. UNCHANGED <<scenario, phase, todo, outcome, stats>>
    BY <1>33 DEF BrokerMisbehaves, driverVars
  <2> QED
    BY <1>33, <2>1, SamePlace
       DEF BrokerMisbehaves, workerVars, callerVars, brokerVars, WorkersInv, TypeOK, WorkerType
<1> QED
  BY <1>1, <1>2, <1>3, <1>4, <1>5, <1>6, <1>7, <1>8, <1>9, <1>10, <1>11, <1>12, <1>13, <1>14,
     <1>15, <1>16, <1>17, <1>18, <1>19, <1>20, <1>21, <1>22, <1>23, <1>24, <1>25, <1>26, <1>27,
     <1>28, <1>29, <1>30, <1>31, <1>32, <1>33
     DEF Next, Driver, Roles, Broker
(* What the workers and the broker have left. *)

(* Only live workers have handlers. *)
LEMMA HandlersStep ==
    ASSUME TypeOK, Place, WorkersInv, HandlersInv, RegisteredInv, Next
    PROVE  HandlersInv'
<1>1. ASSUME Baseline PROVE HandlersInv'
  <2>1. /\ Done /\ Head(todo) # "quiesce" /\ UNCHANGED <<scenario, phase>>
    BY <1>1 DEF Baseline, At
  <2> QED
    BY <1>1, <2>1, Moves
       DEF Baseline, At, workerVars, callerVars, brokerVars, HandlersInv, Alive, TypeOK,
           WorkerType, WorkerStates
<1>2. ASSUME StartWorkers PROVE HandlersInv'
  <2>1. Head(todo) = "startWorkers"
    BY <1>2 DEF StartWorkers, At
  <2>2. Over
    BY <2>1, Order DEF Over, TypeOK
  <2>3. handlers = {}
    BY <2>2 DEF WorkersInv, HandlersInv, Alive, TypeOK, WorkerType
  <2> QED
    BY <1>2, <2>3 DEF StartWorkers, HandlersInv
<1>3. ASSUME StartCallers PROVE HandlersInv'
  <2>1. /\ Done /\ Head(todo) # "quiesce" /\ UNCHANGED <<scenario, phase>>
    BY <1>3 DEF StartCallers, At
  <2> QED
    BY <1>3, <2>1, Moves
       DEF StartCallers, At, workerVars, callerVars, brokerVars, HandlersInv, Alive, TypeOK,
           WorkerType, WorkerStates
<1>4. ASSUME Release PROVE HandlersInv'
  <2>1. /\ Done /\ Head(todo) # "quiesce" /\ UNCHANGED <<scenario, phase>>
    BY <1>4 DEF Release, At
  <2> QED
    BY <1>4, <2>1, Moves
       DEF Release, At, workerVars, callerVars, brokerVars, HandlersInv, Alive, TypeOK,
           WorkerType, WorkerStates
<1>5. ASSUME NEW step \in {"awaitWorkers", "awaitCallers", "awaitProgress"}, Await(step)
      PROVE  HandlersInv'
  <2>1. /\ Done /\ Head(todo) # "quiesce" /\ UNCHANGED <<scenario, phase>>
    BY <1>5 DEF Await, At
  <2> QED
    BY <1>5, <2>1, Moves
       DEF Await, At, workerVars, callerVars, brokerVars, HandlersInv, Alive, TypeOK, WorkerType,
           WorkerStates
<1>6. ASSUME FinishFleet PROVE HandlersInv'
  <2>1. /\ Done /\ Head(todo) # "quiesce" /\ UNCHANGED <<scenario, phase>>
    BY <1>6 DEF FinishFleet, At
  <2> QED
    BY <1>6, <2>1, Moves
       DEF FinishFleet, At, workerVars, callerVars, brokerVars, HandlersInv, Alive, TypeOK,
           WorkerType, WorkerStates
<1>7. ASSUME FinishCallers PROVE HandlersInv'
  <2>1. /\ Done /\ Head(todo) # "quiesce" /\ UNCHANGED <<scenario, phase>>
    BY <1>7 DEF FinishCallers, At
  <2> QED
    BY <1>7, <2>1, Moves
       DEF FinishCallers, At, workerVars, callerVars, brokerVars, HandlersInv, Alive, TypeOK,
           WorkerType, WorkerStates
<1>8. ASSUME StopWorkers PROVE HandlersInv'
  <2>1. /\ Done /\ Head(todo) # "quiesce" /\ UNCHANGED <<scenario, phase>>
    BY <1>8 DEF StopWorkers, At
  <2> QED
    BY <1>8, <2>1, Moves DEF StopWorkers, At, HandlersInv, Alive, TypeOK, WorkerType, WorkerStates
<1>9. ASSUME FinishWorkers PROVE HandlersInv'
  <2>1. /\ Done /\ Head(todo) # "quiesce" /\ UNCHANGED <<scenario, phase>>
    BY <1>9 DEF FinishWorkers, At
  <2> QED
    BY <1>9, <2>1, Moves
       DEF FinishWorkers, At, workerVars, callerVars, brokerVars, HandlersInv, Alive, TypeOK,
           WorkerType, WorkerStates
<1>10. ASSUME KillWorkers PROVE HandlersInv'
  <2>1. /\ Done /\ Head(todo) # "quiesce" /\ UNCHANGED <<scenario, phase>>
    BY <1>10 DEF KillWorkers, At
  <2> QED
    BY <1>10, <2>1, Moves DEF KillWorkers, At, HandlersInv, Alive, TypeOK, WorkerType, WorkerStates
<1>11. ASSUME KillFitz PROVE HandlersInv'
  <2>1. /\ Done /\ Head(todo) # "quiesce" /\ UNCHANGED <<scenario, phase>>
    BY <1>11 DEF KillFitz, At
  <2> QED
    BY <1>11, <2>1, Moves DEF KillFitz, At, HandlersInv, Alive, TypeOK, WorkerType, WorkerStates
<1>12. ASSUME RestartFitz PROVE HandlersInv'
  <2>1. /\ Done /\ Head(todo) # "quiesce" /\ UNCHANGED <<scenario, phase>>
    BY <1>12 DEF RestartFitz, At
  <2> QED
    BY <1>12, <2>1, Moves
       DEF RestartFitz, At, workerVars, callerVars, brokerVars, HandlersInv, Alive, TypeOK,
           WorkerType, WorkerStates
<1>13. ASSUME Judge PROVE HandlersInv'
  <2>1. /\ Done /\ Head(todo) # "quiesce" /\ UNCHANGED <<scenario, phase>>
    BY <1>13 DEF Judge, At
  <2> QED
    BY <1>13, <2>1, Moves
       DEF Judge, At, workerVars, callerVars, brokerVars, HandlersInv, Alive, TypeOK, WorkerType,
           WorkerStates
<1>14. ASSUME ReadStats PROVE HandlersInv'
  <2>1. UNCHANGED <<scenario, phase, todo, outcome>>
    BY <1>14 DEF ReadStats
  <2> QED
    BY <1>14, <2>1, SamePlace
       DEF ReadStats, At, workerVars, callerVars, brokerVars, HandlersInv, Alive, TypeOK,
           WorkerType, WorkerStates
<1>15. ASSUME ReadMetrics PROVE HandlersInv'
  <2>1. UNCHANGED <<scenario, phase, todo, outcome, stats>>
    BY <1>15 DEF ReadMetrics
  <2> QED
    BY <1>15, <2>1, SamePlace
       DEF ReadMetrics, At, workerVars, callerVars, brokerVars, HandlersInv, Alive, TypeOK,
           WorkerType, WorkerStates
<1>16. ASSUME Quiesce PROVE HandlersInv'
  BY <1>16, QuiesceStep DEF HandlersInv, Alive, TypeOK, WorkerType, WorkerStates
<1>17. ASSUME DeadlinePasses PROVE HandlersInv'
  <2>1. UNCHANGED <<scenario, phase, todo, stats>>
    BY <1>17 DEF DeadlinePasses
  <2> QED
    BY <1>17, <2>1, SamePlace
       DEF DeadlinePasses, At, workerVars, callerVars, brokerVars, HandlersInv, Alive, TypeOK,
           WorkerType, WorkerStates
<1>18. ASSUME NEW w \in Workers, WorkerRegisters(w) PROVE HandlersInv'
  <2>1. UNCHANGED <<scenario, phase, todo, outcome, stats>>
    BY <1>18 DEF WorkerRegisters, driverVars
  <2> QED
    BY <1>18, <2>1, SamePlace
       DEF WorkerRegisters, workerVars, callerVars, brokerVars, HandlersInv, Alive, TypeOK,
           WorkerType, WorkerStates
<1>19. ASSUME NEW w \in Workers, WorkerExits(w) PROVE HandlersInv'
  <2>1. UNCHANGED <<scenario, phase, todo, outcome, stats>>
    BY <1>19 DEF WorkerExits, driverVars
  <2> QED
    BY <1>19, <2>1, SamePlace
       DEF WorkerExits, workerVars, callerVars, brokerVars, HandlersInv, Alive, TypeOK,
           WorkerType, WorkerStates
<1>20. ASSUME NEW w \in Workers, NEW x \in Callers, HandlerEnds(w, x) PROVE HandlersInv'
  <2>1. UNCHANGED <<scenario, phase, todo, outcome, stats>>
    BY <1>20 DEF HandlerEnds, driverVars
  <2> QED
    BY <1>20, <2>1, SamePlace
       DEF HandlerEnds, workerVars, callerVars, brokerVars, HandlersInv, Alive, TypeOK,
           WorkerType, WorkerStates
<1>21. ASSUME NEW w \in Workers, NEW x \in Callers,
             NEW n \in 0..(FramesPerCall - 1), HandlerWrites(w, x, n)
      PROVE  HandlersInv'
  <2>1. UNCHANGED <<scenario, phase, todo, outcome, stats>>
    BY <1>21 DEF HandlerWrites, driverVars
  <2> QED
    BY <1>21, <2>1, SamePlace
       DEF HandlerWrites, workerVars, callerVars, brokerVars, HandlersInv, Alive, TypeOK,
           WorkerType, WorkerStates
<1>22. ASSUME NEW c \in Callers, CallerConnects(c) PROVE HandlersInv'
  <2>1. UNCHANGED <<scenario, phase, todo, outcome, stats>>
    BY <1>22 DEF CallerConnects, driverVars
  <2> QED
    BY <1>22, <2>1, SamePlace
       DEF CallerConnects, workerVars, callerVars, brokerVars, HandlersInv, Alive, TypeOK,
           WorkerType, WorkerStates
<1>23. ASSUME NEW c \in Callers, StartCall(c) PROVE HandlersInv'
  <2>1. UNCHANGED <<scenario, phase, todo, outcome, stats>>
    BY <1>23 DEF StartCall, driverVars
  <2> QED
    BY <1>23, <2>1, SamePlace
       DEF StartCall, workerVars, callerVars, brokerVars, HandlersInv, Alive, TypeOK, WorkerType,
           WorkerStates
<1>24. ASSUME NEW c \in Callers, Receive(c) PROVE HandlersInv'
  <2>1. UNCHANGED <<scenario, phase, todo, outcome, stats>>
    BY <1>24 DEF Receive, driverVars
  <2> QED
    BY <1>24, <2>1, SamePlace
       DEF Receive, workerVars, callerVars, brokerVars, HandlersInv, Alive, TypeOK, WorkerType,
           WorkerStates
<1>25. ASSUME NEW c \in Callers, CallFails(c) PROVE HandlersInv'
  <2>1. UNCHANGED <<scenario, phase, todo, outcome, stats>>
    BY <1>25 DEF CallFails, driverVars
  <2> QED
    BY <1>25, <2>1, SamePlace
       DEF CallFails, workerVars, callerVars, brokerVars, HandlersInv, Alive, TypeOK, WorkerType,
           WorkerStates
<1>26. ASSUME NEW c \in Callers, CallTimesOut(c) PROVE HandlersInv'
  <2>1. UNCHANGED <<scenario, phase, todo, outcome, stats>>
    BY <1>26 DEF CallTimesOut, driverVars
  <2> QED
    BY <1>26, <2>1, SamePlace
       DEF CallTimesOut, workerVars, callerVars, brokerVars, HandlersInv, Alive, TypeOK,
           WorkerType, WorkerStates
<1>27. ASSUME NEW c \in Callers, CallerExits(c) PROVE HandlersInv'
  <2>1. UNCHANGED <<scenario, phase, todo, outcome, stats>>
    BY <1>27 DEF CallerExits, driverVars
  <2> QED
    BY <1>27, <2>1, SamePlace
       DEF CallerExits, workerVars, callerVars, brokerVars, HandlersInv, Alive, TypeOK,
           WorkerType, WorkerStates
<1>28. ASSUME NEW w \in Workers, BrokerHandles(w) PROVE HandlersInv'
  <2>1. UNCHANGED <<scenario, phase, todo, outcome, stats>>
    BY <1>28 DEF BrokerHandles, driverVars
  <2> QED
    BY <1>28, <2>1, SamePlace
       DEF BrokerHandles, workerVars, callerVars, brokerVars, HandlersInv, Alive, TypeOK,
           WorkerType, WorkerStates
<1>29. ASSUME NEW w \in Workers, NEW x \in Callers, BrokerDispatches(x, w) PROVE HandlersInv'
  <2>1. UNCHANGED <<scenario, phase, todo, outcome, stats>>
    BY <1>29 DEF BrokerDispatches, driverVars
  <2> QED
    BY <1>29, <2>1, SamePlace
       DEF BrokerDispatches, workerVars, callerVars, brokerVars, HandlersInv, Alive, TypeOK,
           WorkerType, WorkerStates
<1>30. ASSUME BrokerHandlesLate PROVE HandlersInv'
  <2>1. UNCHANGED <<scenario, phase, todo, outcome, stats>>
    BY <1>30 DEF BrokerHandlesLate, driverVars
  <2> QED
    BY <1>30, <2>1, SamePlace
       DEF BrokerHandlesLate, workerVars, callerVars, brokerVars, HandlersInv, Alive, TypeOK,
           WorkerType, WorkerStates
<1>31. ASSUME BrokerNotices PROVE HandlersInv'
  <2>1. UNCHANGED <<scenario, phase, todo, outcome, stats>>
    BY <1>31 DEF BrokerNotices, driverVars
  <2> QED
    BY <1>31, <2>1, SamePlace
       DEF BrokerNotices, workerVars, callerVars, brokerVars, HandlersInv, Alive, TypeOK,
           WorkerType, WorkerStates
<1>32. ASSUME BrokerCleans PROVE HandlersInv'
  <2>1. UNCHANGED <<scenario, phase, todo, outcome, stats>>
    BY <1>32 DEF BrokerCleans, driverVars
  <2> QED
    BY <1>32, <2>1, SamePlace
       DEF BrokerCleans, workerVars, callerVars, brokerVars, HandlersInv, Alive, TypeOK,
           WorkerType, WorkerStates
<1>33. ASSUME NEW w \in Workers, BrokerMisbehaves(w) PROVE HandlersInv'
  <2>1. UNCHANGED worker
    BY <1>33 DEF BrokerMisbehaves
  <2>2. CASE UNCHANGED handlers
    BY <2>1, <2>2 DEF HandlersInv, Alive
  <2>3. ASSUME NEW p \in pending, p[2] # w, w \in registered,
               handlers' = handlers \cup {<<w, p[1], 0>>}
        PROVE  HandlersInv'
    <3>1. Alive(w)
      BY <2>3, Sizes DEF RegisteredInv
    <3> QED
      BY <2>1, <2>3, <3>1 DEF HandlersInv, Alive
  <2> QED
    BY <1>33, <2>2, <2>3 DEF BrokerMisbehaves
<1> QED
  BY <1>1, <1>2, <1>3, <1>4, <1>5, <1>6, <1>7, <1>8, <1>9, <1>10, <1>11, <1>12, <1>13, <1>14,
     <1>15, <1>16, <1>17, <1>18, <1>19, <1>20, <1>21, <1>22, <1>23, <1>24, <1>25, <1>26, <1>27,
     <1>28, <1>29, <1>30, <1>31, <1>32, <1>33
     DEF Next, Driver, Roles, Broker

(* What the broker knows of is of the fleet. *)
LEMMA RegisteredStep ==
    ASSUME TypeOK, Place, WorkersInv, RegisteredInv, DrainedInv, Next
    PROVE  RegisteredInv'
<1>1. ASSUME Baseline PROVE RegisteredInv'
  <2>1. /\ Done /\ Head(todo) # "quiesce" /\ UNCHANGED <<scenario, phase>>
    BY <1>1 DEF Baseline, At
  <2> QED
    BY <1>1, <2>1, Moves
       DEF Baseline, At, workerVars, callerVars, brokerVars, RegisteredInv, Alive, TypeOK,
           WorkerType, BrokerType, WorkerStates
<1>2. ASSUME StartWorkers PROVE RegisteredInv'
  <2>1. Head(todo) = "startWorkers"
    BY <1>2 DEF StartWorkers, At
  <2>2. registered = {} /\ pending = {}
    BY <2>1, Order DEF DrainedInv, Drained, TypeOK
  <2>3. registered' = {} /\ pending' = {}
    BY <1>2, <2>2 DEF StartWorkers, brokerVars
  <2> QED
    BY <2>3 DEF RegisteredInv
<1>3. ASSUME StartCallers PROVE RegisteredInv'
  <2>1. /\ Done /\ Head(todo) # "quiesce" /\ UNCHANGED <<scenario, phase>>
    BY <1>3 DEF StartCallers, At
  <2> QED
    BY <1>3, <2>1, Moves
       DEF StartCallers, At, workerVars, callerVars, brokerVars, RegisteredInv, Alive, TypeOK,
           WorkerType, BrokerType, WorkerStates
<1>4. ASSUME Release PROVE RegisteredInv'
  <2>1. /\ Done /\ Head(todo) # "quiesce" /\ UNCHANGED <<scenario, phase>>
    BY <1>4 DEF Release, At
  <2> QED
    BY <1>4, <2>1, Moves
       DEF Release, At, workerVars, callerVars, brokerVars, RegisteredInv, Alive, TypeOK,
           WorkerType, BrokerType, WorkerStates
<1>5. ASSUME NEW step \in {"awaitWorkers", "awaitCallers", "awaitProgress"}, Await(step)
      PROVE  RegisteredInv'
  <2>1. /\ Done /\ Head(todo) # "quiesce" /\ UNCHANGED <<scenario, phase>>
    BY <1>5 DEF Await, At
  <2> QED
    BY <1>5, <2>1, Moves
       DEF Await, At, workerVars, callerVars, brokerVars, RegisteredInv, Alive, TypeOK,
           WorkerType, BrokerType, WorkerStates
<1>6. ASSUME FinishFleet PROVE RegisteredInv'
  <2>1. /\ Done /\ Head(todo) # "quiesce" /\ UNCHANGED <<scenario, phase>>
    BY <1>6 DEF FinishFleet, At
  <2> QED
    BY <1>6, <2>1, Moves
       DEF FinishFleet, At, workerVars, callerVars, brokerVars, RegisteredInv, Alive, TypeOK,
           WorkerType, BrokerType, WorkerStates
<1>7. ASSUME FinishCallers PROVE RegisteredInv'
  <2>1. /\ Done /\ Head(todo) # "quiesce" /\ UNCHANGED <<scenario, phase>>
    BY <1>7 DEF FinishCallers, At
  <2> QED
    BY <1>7, <2>1, Moves
       DEF FinishCallers, At, workerVars, callerVars, brokerVars, RegisteredInv, Alive, TypeOK,
           WorkerType, BrokerType, WorkerStates
<1>8. ASSUME StopWorkers PROVE RegisteredInv'
  <2>1. /\ Done /\ Head(todo) # "quiesce" /\ UNCHANGED <<scenario, phase>>
    BY <1>8 DEF StopWorkers, At
  <2> QED
    BY <1>8, <2>1, Moves
       DEF StopWorkers, At, RegisteredInv, Alive, TypeOK, WorkerType, BrokerType, WorkerStates
<1>9. ASSUME FinishWorkers PROVE RegisteredInv'
  <2>1. /\ Done /\ Head(todo) # "quiesce" /\ UNCHANGED <<scenario, phase>>
    BY <1>9 DEF FinishWorkers, At
  <2> QED
    BY <1>9, <2>1, Moves
       DEF FinishWorkers, At, workerVars, callerVars, brokerVars, RegisteredInv, Alive, TypeOK,
           WorkerType, BrokerType, WorkerStates
<1>10. ASSUME KillWorkers PROVE RegisteredInv'
  <2>1. /\ Done /\ Head(todo) # "quiesce" /\ UNCHANGED <<scenario, phase>>
    BY <1>10 DEF KillWorkers, At
  <2> QED
    BY <1>10, <2>1, Moves
       DEF KillWorkers, At, RegisteredInv, Alive, TypeOK, WorkerType, BrokerType, WorkerStates
<1>11. ASSUME KillFitz PROVE RegisteredInv'
  <2>1. /\ Done /\ Head(todo) # "quiesce" /\ UNCHANGED <<scenario, phase>>
    BY <1>11 DEF KillFitz, At
  <2> QED
    BY <1>11, <2>1, Moves
       DEF KillFitz, At, RegisteredInv, Alive, TypeOK, WorkerType, BrokerType, WorkerStates
<1>12. ASSUME RestartFitz PROVE RegisteredInv'
  <2>1. /\ Done /\ Head(todo) # "quiesce" /\ UNCHANGED <<scenario, phase>>
    BY <1>12 DEF RestartFitz, At
  <2> QED
    BY <1>12, <2>1, Moves
       DEF RestartFitz, At, workerVars, callerVars, brokerVars, RegisteredInv, Alive, TypeOK,
           WorkerType, BrokerType, WorkerStates
<1>13. ASSUME Judge PROVE RegisteredInv'
  <2>1. /\ Done /\ Head(todo) # "quiesce" /\ UNCHANGED <<scenario, phase>>
    BY <1>13 DEF Judge, At
  <2> QED
    BY <1>13, <2>1, Moves
       DEF Judge, At, workerVars, callerVars, brokerVars, RegisteredInv, Alive, TypeOK,
           WorkerType, BrokerType, WorkerStates
<1>14. ASSUME ReadStats PROVE RegisteredInv'
  <2>1. UNCHANGED <<scenario, phase, todo, outcome>>
    BY <1>14 DEF ReadStats
  <2> QED
    BY <1>14, <2>1, SamePlace
       DEF ReadStats, At, workerVars, callerVars, brokerVars, RegisteredInv, Alive, TypeOK,
           WorkerType, BrokerType, WorkerStates
<1>15. ASSUME ReadMetrics PROVE RegisteredInv'
  <2>1. UNCHANGED <<scenario, phase, todo, outcome, stats>>
    BY <1>15 DEF ReadMetrics
  <2> QED
    BY <1>15, <2>1, SamePlace
       DEF ReadMetrics, At, workerVars, callerVars, brokerVars, RegisteredInv, Alive, TypeOK,
           WorkerType, BrokerType, WorkerStates
<1>16. ASSUME Quiesce PROVE RegisteredInv'
  <2>1. CASE UNCHANGED <<phase, todo>>
    BY <2>1, <1>16, QuiesceStep, SamePlace DEF RegisteredInv, Alive
  <2>2. CASE ~UNCHANGED <<phase, todo>>
    <3>1. registered = {} /\ pending = {}
      BY <2>2, <1>16, QuiesceStep DEF DrainedInv, Drained, Quiescent, TypeOK, DriverType
    <3>2. registered' = {} /\ pending' = {}
      BY <3>1, <1>16, QuiesceStep
    <3> QED
      BY <3>2 DEF RegisteredInv
  <2> QED
    BY <2>1, <2>2
<1>17. ASSUME DeadlinePasses PROVE RegisteredInv'
  <2>1. UNCHANGED <<scenario, phase, todo, stats>>
    BY <1>17 DEF DeadlinePasses
  <2> QED
    BY <1>17, <2>1, SamePlace
       DEF DeadlinePasses, At, workerVars, callerVars, brokerVars, RegisteredInv, Alive, TypeOK,
           WorkerType, BrokerType, WorkerStates
<1>18. ASSUME NEW w \in Workers, WorkerRegisters(w) PROVE RegisteredInv'
  <2>1. UNCHANGED <<scenario, phase, todo, pending>>
    BY <1>18 DEF WorkerRegisters, driverVars
  <2>2. w \in Members
    <3>1. ~Over
      BY <1>18 DEF WorkerRegisters, WorkersInv
    <3> QED
      BY <1>18, <3>1 DEF WorkerRegisters, WorkersInv, Over
  <2> QED
    BY <1>18, <2>1, <2>2, SamePlace
       DEF WorkerRegisters, RegisteredInv, Alive, TypeOK, WorkerType
<1>19. ASSUME NEW w \in Workers, WorkerExits(w) PROVE RegisteredInv'
  <2>1. UNCHANGED <<scenario, phase, todo, outcome, stats>>
    BY <1>19 DEF WorkerExits, driverVars
  <2> QED
    BY <1>19, <2>1, SamePlace
       DEF WorkerExits, workerVars, callerVars, brokerVars, RegisteredInv, Alive, TypeOK,
           WorkerType, BrokerType, WorkerStates
<1>20. ASSUME NEW w \in Workers, NEW x \in Callers, HandlerEnds(w, x) PROVE RegisteredInv'
  <2>1. UNCHANGED <<scenario, phase, todo, outcome, stats>>
    BY <1>20 DEF HandlerEnds, driverVars
  <2> QED
    BY <1>20, <2>1, SamePlace
       DEF HandlerEnds, workerVars, callerVars, brokerVars, RegisteredInv, Alive, TypeOK,
           WorkerType, BrokerType, WorkerStates
<1>21. ASSUME NEW w \in Workers, NEW x \in Callers,
             NEW n \in 0..(FramesPerCall - 1), HandlerWrites(w, x, n)
      PROVE  RegisteredInv'
  <2>1. UNCHANGED <<scenario, phase, todo, outcome, stats>>
    BY <1>21 DEF HandlerWrites, driverVars
  <2> QED
    BY <1>21, <2>1, SamePlace
       DEF HandlerWrites, workerVars, callerVars, brokerVars, RegisteredInv, Alive, TypeOK,
           WorkerType, BrokerType, WorkerStates
<1>22. ASSUME NEW c \in Callers, CallerConnects(c) PROVE RegisteredInv'
  <2>1. UNCHANGED <<scenario, phase, todo, outcome, stats>>
    BY <1>22 DEF CallerConnects, driverVars
  <2> QED
    BY <1>22, <2>1, SamePlace
       DEF CallerConnects, workerVars, callerVars, brokerVars, RegisteredInv, Alive, TypeOK,
           WorkerType, BrokerType, WorkerStates
<1>23. ASSUME NEW c \in Callers, StartCall(c) PROVE RegisteredInv'
  <2>1. UNCHANGED <<scenario, phase, todo, outcome, stats>>
    BY <1>23 DEF StartCall, driverVars
  <2> QED
    BY <1>23, <2>1, SamePlace
       DEF StartCall, workerVars, callerVars, brokerVars, RegisteredInv, Alive, TypeOK,
           WorkerType, BrokerType, WorkerStates
<1>24. ASSUME NEW c \in Callers, Receive(c) PROVE RegisteredInv'
  <2>1. UNCHANGED <<scenario, phase, todo, outcome, stats>>
    BY <1>24 DEF Receive, driverVars
  <2> QED
    BY <1>24, <2>1, SamePlace
       DEF Receive, workerVars, callerVars, brokerVars, RegisteredInv, Alive, TypeOK, WorkerType,
           BrokerType, WorkerStates
<1>25. ASSUME NEW c \in Callers, CallFails(c) PROVE RegisteredInv'
  <2>1. UNCHANGED <<scenario, phase, todo, outcome, stats>>
    BY <1>25 DEF CallFails, driverVars
  <2> QED
    BY <1>25, <2>1, SamePlace
       DEF CallFails, workerVars, callerVars, brokerVars, RegisteredInv, Alive, TypeOK,
           WorkerType, BrokerType, WorkerStates
<1>26. ASSUME NEW c \in Callers, CallTimesOut(c) PROVE RegisteredInv'
  <2>1. UNCHANGED <<scenario, phase, todo, outcome, stats>>
    BY <1>26 DEF CallTimesOut, driverVars
  <2> QED
    BY <1>26, <2>1, SamePlace
       DEF CallTimesOut, workerVars, callerVars, brokerVars, RegisteredInv, Alive, TypeOK,
           WorkerType, BrokerType, WorkerStates
<1>27. ASSUME NEW c \in Callers, CallerExits(c) PROVE RegisteredInv'
  <2>1. UNCHANGED <<scenario, phase, todo, outcome, stats>>
    BY <1>27 DEF CallerExits, driverVars
  <2> QED
    BY <1>27, <2>1, SamePlace
       DEF CallerExits, workerVars, callerVars, brokerVars, RegisteredInv, Alive, TypeOK,
           WorkerType, BrokerType, WorkerStates
<1>28. ASSUME NEW w \in Workers, BrokerHandles(w) PROVE RegisteredInv'
  <2>1. UNCHANGED <<scenario, phase, todo, outcome, stats>>
    BY <1>28 DEF BrokerHandles, driverVars
  <2> QED
    BY <1>28, <2>1, SamePlace
       DEF BrokerHandles, workerVars, callerVars, brokerVars, RegisteredInv, Alive, TypeOK,
           WorkerType, BrokerType, WorkerStates
<1>29. ASSUME NEW w \in Workers, NEW x \in Callers, BrokerDispatches(x, w) PROVE RegisteredInv'
  <2>1. UNCHANGED <<scenario, phase, todo, outcome, stats>>
    BY <1>29 DEF BrokerDispatches, driverVars
  <2> QED
    BY <1>29, <2>1, SamePlace
       DEF BrokerDispatches, workerVars, callerVars, brokerVars, RegisteredInv, Alive, TypeOK,
           WorkerType, BrokerType, WorkerStates
<1>30. ASSUME BrokerHandlesLate PROVE RegisteredInv'
  <2>1. UNCHANGED <<scenario, phase, todo, outcome, stats>>
    BY <1>30 DEF BrokerHandlesLate, driverVars
  <2> QED
    BY <1>30, <2>1, SamePlace
       DEF BrokerHandlesLate, workerVars, callerVars, brokerVars, RegisteredInv, Alive, TypeOK,
           WorkerType, BrokerType, WorkerStates
<1>31. ASSUME BrokerNotices PROVE RegisteredInv'
  <2>1. UNCHANGED <<scenario, phase, todo, outcome, stats>>
    BY <1>31 DEF BrokerNotices, driverVars
  <2> QED
    BY <1>31, <2>1, SamePlace
       DEF BrokerNotices, workerVars, callerVars, brokerVars, RegisteredInv, Alive, TypeOK,
           WorkerType, BrokerType, WorkerStates
<1>32. ASSUME BrokerCleans PROVE RegisteredInv'
  <2>1. UNCHANGED <<scenario, phase, todo, outcome, stats>>
    BY <1>32 DEF BrokerCleans, driverVars
  <2> QED
    BY <1>32, <2>1, SamePlace
       DEF BrokerCleans, workerVars, callerVars, brokerVars, RegisteredInv, Alive, TypeOK,
           WorkerType, BrokerType, WorkerStates
<1>33. ASSUME NEW w \in Workers, BrokerMisbehaves(w) PROVE RegisteredInv'
  <2>1. UNCHANGED <<scenario, phase, todo, outcome, stats>>
    BY <1>33 DEF BrokerMisbehaves, driverVars
  <2> QED
    BY <1>33, <2>1, SamePlace
       DEF BrokerMisbehaves, workerVars, callerVars, brokerVars, RegisteredInv, Alive, TypeOK,
           WorkerType, BrokerType, WorkerStates
<1> QED
  BY <1>1, <1>2, <1>3, <1>4, <1>5, <1>6, <1>7, <1>8, <1>9, <1>10, <1>11, <1>12, <1>13, <1>14,
     <1>15, <1>16, <1>17, <1>18, <1>19, <1>20, <1>21, <1>22, <1>23, <1>24, <1>25, <1>26, <1>27,
     <1>28, <1>29, <1>30, <1>31, <1>32, <1>33
     DEF Next, Driver, Roles, Broker

(* An idle broker stays so until the next workers start. *)
LEMMA DrainedStep ==
    ASSUME TypeOK, Place, WorkersInv, DrainedInv, outcome = "none", Next
    PROVE  DrainedInv'
<1>1. ASSUME Baseline PROVE DrainedInv'
  <2>1. Done /\ Head(todo) # "quiesce" /\ UNCHANGED <<scenario, phase, stats>>
    BY <1>1 DEF Baseline, At
  <2>2. outcome' # "passed"
    BY <1>1 DEF Baseline, At
  <2>3. (UNCHANGED <<registered, pending>>) \/ (registered' = {} /\ pending' = {})
    BY <1>1 DEF Baseline, brokerVars
  <2>4. stats' = "unread" /\ (Fresh' => Fresh)
    BY <2>1, Moves DEF DrainedInv
  <2> QED
    BY <2>2, <2>3, <2>4 DEF DrainedInv, Drained
<1>2. ASSUME StartWorkers PROVE DrainedInv'
  <2>1. Done /\ Head(todo) # "quiesce" /\ UNCHANGED <<scenario, phase, stats>>
    BY <1>2 DEF StartWorkers, At
  <2>2. outcome' # "passed"
    BY <1>2 DEF StartWorkers, At
  <2>3. (UNCHANGED <<registered, pending>>) \/ (registered' = {} /\ pending' = {})
    BY <1>2 DEF StartWorkers, brokerVars
  <2>4. stats' = "unread" /\ (Fresh' => Fresh)
    BY <2>1, Moves DEF DrainedInv
  <2> QED
    BY <2>2, <2>3, <2>4 DEF DrainedInv, Drained
<1>3. ASSUME StartCallers PROVE DrainedInv'
  <2>1. Done /\ Head(todo) # "quiesce" /\ UNCHANGED <<scenario, phase, stats>>
    BY <1>3 DEF StartCallers, At
  <2>2. outcome' # "passed"
    BY <1>3 DEF StartCallers, At
  <2>3. (UNCHANGED <<registered, pending>>) \/ (registered' = {} /\ pending' = {})
    BY <1>3 DEF StartCallers, brokerVars
  <2>4. stats' = "unread" /\ (Fresh' => Fresh)
    BY <2>1, Moves DEF DrainedInv
  <2> QED
    BY <2>2, <2>3, <2>4 DEF DrainedInv, Drained
<1>4. ASSUME Release PROVE DrainedInv'
  <2>1. Done /\ Head(todo) # "quiesce" /\ UNCHANGED <<scenario, phase, stats>>
    BY <1>4 DEF Release, At
  <2>2. outcome' # "passed"
    BY <1>4 DEF Release, At
  <2>3. (UNCHANGED <<registered, pending>>) \/ (registered' = {} /\ pending' = {})
    BY <1>4 DEF Release, brokerVars
  <2>4. stats' = "unread" /\ (Fresh' => Fresh)
    BY <2>1, Moves DEF DrainedInv
  <2> QED
    BY <2>2, <2>3, <2>4 DEF DrainedInv, Drained
<1>5. ASSUME NEW step \in {"awaitWorkers", "awaitCallers", "awaitProgress"}, Await(step)
      PROVE  DrainedInv'
  <2>1. Done /\ Head(todo) # "quiesce" /\ UNCHANGED <<scenario, phase, stats>>
    BY <1>5 DEF Await, At
  <2>2. outcome' # "passed"
    BY <1>5 DEF Await, At
  <2>3. (UNCHANGED <<registered, pending>>) \/ (registered' = {} /\ pending' = {})
    BY <1>5 DEF Await, brokerVars
  <2>4. stats' = "unread" /\ (Fresh' => Fresh)
    BY <2>1, Moves DEF DrainedInv
  <2> QED
    BY <2>2, <2>3, <2>4 DEF DrainedInv, Drained
<1>6. ASSUME FinishFleet PROVE DrainedInv'
  <2>1. Done /\ Head(todo) # "quiesce" /\ UNCHANGED <<scenario, phase, stats>>
    BY <1>6 DEF FinishFleet, At
  <2>2. outcome' # "passed"
    BY <1>6 DEF FinishFleet, At
  <2>3. (UNCHANGED <<registered, pending>>) \/ (registered' = {} /\ pending' = {})
    BY <1>6 DEF FinishFleet, brokerVars
  <2>4. stats' = "unread" /\ (Fresh' => Fresh)
    BY <2>1, Moves DEF DrainedInv
  <2> QED
    BY <2>2, <2>3, <2>4 DEF DrainedInv, Drained
<1>7. ASSUME FinishCallers PROVE DrainedInv'
  <2>1. Done /\ Head(todo) # "quiesce" /\ UNCHANGED <<scenario, phase, stats>>
    BY <1>7 DEF FinishCallers, At
  <2>2. outcome' # "passed"
    BY <1>7 DEF FinishCallers, At
  <2>3. (UNCHANGED <<registered, pending>>) \/ (registered' = {} /\ pending' = {})
    BY <1>7 DEF FinishCallers, brokerVars
  <2>4. stats' = "unread" /\ (Fresh' => Fresh)
    BY <2>1, Moves DEF DrainedInv
  <2> QED
    BY <2>2, <2>3, <2>4 DEF DrainedInv, Drained
<1>8. ASSUME StopWorkers PROVE DrainedInv'
  <2>1. Done /\ Head(todo) # "quiesce" /\ UNCHANGED <<scenario, phase, stats>>
    BY <1>8 DEF StopWorkers, At
  <2>2. outcome' # "passed"
    BY <1>8 DEF StopWorkers, At
  <2>3. (UNCHANGED <<registered, pending>>) \/ (registered' = {} /\ pending' = {})
    BY <1>8 DEF StopWorkers, brokerVars
  <2>4. stats' = "unread" /\ (Fresh' => Fresh)
    BY <2>1, Moves DEF DrainedInv
  <2> QED
    BY <2>2, <2>3, <2>4 DEF DrainedInv, Drained
<1>9. ASSUME FinishWorkers PROVE DrainedInv'
  <2>1. Done /\ Head(todo) # "quiesce" /\ UNCHANGED <<scenario, phase, stats>>
    BY <1>9 DEF FinishWorkers, At
  <2>2. outcome' # "passed"
    BY <1>9 DEF FinishWorkers, At
  <2>3. (UNCHANGED <<registered, pending>>) \/ (registered' = {} /\ pending' = {})
    BY <1>9 DEF FinishWorkers, brokerVars
  <2>4. stats' = "unread" /\ (Fresh' => Fresh)
    BY <2>1, Moves DEF DrainedInv
  <2> QED
    BY <2>2, <2>3, <2>4 DEF DrainedInv, Drained
<1>10. ASSUME KillWorkers PROVE DrainedInv'
  <2>1. Done /\ Head(todo) # "quiesce" /\ UNCHANGED <<scenario, phase, stats>>
    BY <1>10 DEF KillWorkers, At
  <2>2. outcome' # "passed"
    BY <1>10 DEF KillWorkers, At
  <2>3. (UNCHANGED <<registered, pending>>) \/ (registered' = {} /\ pending' = {})
    BY <1>10 DEF KillWorkers, brokerVars
  <2>4. stats' = "unread" /\ (Fresh' => Fresh)
    BY <2>1, Moves DEF DrainedInv
  <2> QED
    BY <2>2, <2>3, <2>4 DEF DrainedInv, Drained
<1>11. ASSUME KillFitz PROVE DrainedInv'
  <2>1. Done /\ Head(todo) # "quiesce" /\ UNCHANGED <<scenario, phase, stats>>
    BY <1>11 DEF KillFitz, At
  <2>2. outcome' # "passed"
    BY <1>11 DEF KillFitz, At
  <2>3. (UNCHANGED <<registered, pending>>) \/ (registered' = {} /\ pending' = {})
    BY <1>11 DEF KillFitz, brokerVars
  <2>4. stats' = "unread" /\ (Fresh' => Fresh)
    BY <2>1, Moves DEF DrainedInv
  <2> QED
    BY <2>2, <2>3, <2>4 DEF DrainedInv, Drained
<1>12. ASSUME RestartFitz PROVE DrainedInv'
  <2>1. Done /\ Head(todo) # "quiesce" /\ UNCHANGED <<scenario, phase, stats>>
    BY <1>12 DEF RestartFitz, At
  <2>2. outcome' # "passed"
    BY <1>12 DEF RestartFitz, At
  <2>3. (UNCHANGED <<registered, pending>>) \/ (registered' = {} /\ pending' = {})
    BY <1>12 DEF RestartFitz, brokerVars
  <2>4. stats' = "unread" /\ (Fresh' => Fresh)
    BY <2>1, Moves DEF DrainedInv
  <2> QED
    BY <2>2, <2>3, <2>4 DEF DrainedInv, Drained
<1>13. ASSUME Judge PROVE DrainedInv'
  <2>1. Done /\ Head(todo) # "quiesce" /\ UNCHANGED <<scenario, phase, stats>>
    BY <1>13 DEF Judge, At
  <2>2. outcome' # "passed"
    BY <1>13 DEF Judge, At
  <2>3. (UNCHANGED <<registered, pending>>) \/ (registered' = {} /\ pending' = {})
    BY <1>13 DEF Judge, brokerVars
  <2>4. stats' = "unread" /\ (Fresh' => Fresh)
    BY <2>1, Moves DEF DrainedInv
  <2> QED
    BY <2>2, <2>3, <2>4 DEF DrainedInv, Drained
<1>14. ASSUME ReadStats PROVE DrainedInv'
  <2>1. /\ UNCHANGED <<scenario, phase, todo, outcome, registered, pending>>
        /\ Head(todo) = "quiesce" /\ ~Fresh
    BY <1>14, Order DEF ReadStats, At, brokerVars, TypeOK
  <2>2. stats' \in {"idle", "failures"} => registered = {} /\ pending = {}
    BY <1>14 DEF ReadStats
  <2> QED
    BY <2>1, <2>2, SamePlace DEF DrainedInv, Drained
<1>15. ASSUME ReadMetrics PROVE DrainedInv'
  <2>1. UNCHANGED <<scenario, phase, todo, outcome, stats>>
    BY <1>15 DEF ReadMetrics
  <2> QED
    BY <1>15, <2>1, SamePlace
       DEF ReadMetrics, At, workerVars, callerVars, brokerVars, DrainedInv, Drained
<1>16. ASSUME Quiesce PROVE DrainedInv'
  <2>1. /\ UNCHANGED <<registered, pending>> /\ stats' = "unread"
        /\ Fresh' => Fresh \/ Quiescent
    BY <1>16, QuiesceStep, SamePlace
  <2>2. outcome' = "passed" => Quiescent /\ Head(todo)' = "quiesce"
    BY <1>16, QuiesceStep, SamePlace
  <2>3. Quiescent => registered = {} /\ pending = {}
    BY <1>16, QuiesceStep DEF DrainedInv, Drained, Quiescent, TypeOK, DriverType
  <2> QED
    BY <2>1, <2>2, <2>3 DEF DrainedInv, Drained
<1>17. ASSUME DeadlinePasses PROVE DrainedInv'
  <2>1. UNCHANGED <<scenario, phase, todo, stats>>
    BY <1>17 DEF DeadlinePasses
  <2> QED
    BY <1>17, <2>1, SamePlace
       DEF DeadlinePasses, At, workerVars, callerVars, brokerVars, DrainedInv, Drained
<1>18. ASSUME NEW w \in Workers, WorkerRegisters(w) PROVE DrainedInv'
  <2>1. UNCHANGED <<scenario, phase, todo, outcome, stats>>
    BY <1>18 DEF WorkerRegisters, driverVars
  <2>2. ~Over
    BY <1>18 DEF WorkerRegisters, WorkersInv
  <2>3. ~Fresh' /\ Head(todo)' # "quiesce" /\ outcome' # "passed"
    BY <2>1, <2>2, SamePlace DEF Over
  <2> QED
    BY <2>1, <2>3 DEF DrainedInv, Drained
<1>19. ASSUME NEW w \in Workers, WorkerExits(w) PROVE DrainedInv'
  <2>1. UNCHANGED <<scenario, phase, todo, outcome, stats>>
    BY <1>19 DEF WorkerExits, driverVars
  <2> QED
    BY <1>19, <2>1, SamePlace
       DEF WorkerExits, workerVars, callerVars, brokerVars, DrainedInv, Drained
<1>20. ASSUME NEW w \in Workers, NEW x \in Callers, HandlerEnds(w, x) PROVE DrainedInv'
  <2>1. UNCHANGED <<scenario, phase, todo, outcome, stats>>
    BY <1>20 DEF HandlerEnds, driverVars
  <2> QED
    BY <1>20, <2>1, SamePlace
       DEF HandlerEnds, workerVars, callerVars, brokerVars, DrainedInv, Drained
<1>21. ASSUME NEW w \in Workers, NEW x \in Callers,
             NEW n \in 0..(FramesPerCall - 1), HandlerWrites(w, x, n)
      PROVE  DrainedInv'
  <2>1. UNCHANGED <<scenario, phase, todo, outcome, stats>>
    BY <1>21 DEF HandlerWrites, driverVars
  <2> QED
    BY <1>21, <2>1, SamePlace
       DEF HandlerWrites, workerVars, callerVars, brokerVars, DrainedInv, Drained
<1>22. ASSUME NEW c \in Callers, CallerConnects(c) PROVE DrainedInv'
  <2>1. UNCHANGED <<scenario, phase, todo, outcome, stats>>
    BY <1>22 DEF CallerConnects, driverVars
  <2> QED
    BY <1>22, <2>1, SamePlace
       DEF CallerConnects, workerVars, callerVars, brokerVars, DrainedInv, Drained
<1>23. ASSUME NEW c \in Callers, StartCall(c) PROVE DrainedInv'
  <2>1. UNCHANGED <<scenario, phase, todo, outcome, stats>>
    BY <1>23 DEF StartCall, driverVars
  <2> QED
    BY <1>23, <2>1, SamePlace DEF StartCall, workerVars, callerVars, brokerVars, DrainedInv, Drained
<1>24. ASSUME NEW c \in Callers, Receive(c) PROVE DrainedInv'
  <2>1. UNCHANGED <<scenario, phase, todo, outcome, stats>>
    BY <1>24 DEF Receive, driverVars
  <2> QED
    BY <1>24, <2>1, SamePlace DEF Receive, workerVars, callerVars, brokerVars, DrainedInv, Drained
<1>25. ASSUME NEW c \in Callers, CallFails(c) PROVE DrainedInv'
  <2>1. UNCHANGED <<scenario, phase, todo, outcome, stats>>
    BY <1>25 DEF CallFails, driverVars
  <2> QED
    BY <1>25, <2>1, SamePlace DEF CallFails, workerVars, callerVars, brokerVars, DrainedInv, Drained
<1>26. ASSUME NEW c \in Callers, CallTimesOut(c) PROVE DrainedInv'
  <2>1. UNCHANGED <<scenario, phase, todo, outcome, stats>>
    BY <1>26 DEF CallTimesOut, driverVars
  <2> QED
    BY <1>26, <2>1, SamePlace
       DEF CallTimesOut, workerVars, callerVars, brokerVars, DrainedInv, Drained
<1>27. ASSUME NEW c \in Callers, CallerExits(c) PROVE DrainedInv'
  <2>1. UNCHANGED <<scenario, phase, todo, outcome, stats>>
    BY <1>27 DEF CallerExits, driverVars
  <2> QED
    BY <1>27, <2>1, SamePlace
       DEF CallerExits, workerVars, callerVars, brokerVars, DrainedInv, Drained
<1>28. ASSUME NEW w \in Workers, BrokerHandles(w) PROVE DrainedInv'
  <2>1. UNCHANGED <<scenario, phase, todo, outcome, stats>>
    BY <1>28 DEF BrokerHandles, driverVars
  <2> QED
    BY <1>28, <2>1, SamePlace
       DEF BrokerHandles, workerVars, callerVars, brokerVars, DrainedInv, Drained
<1>29. ASSUME NEW w \in Workers, NEW x \in Callers, BrokerDispatches(x, w) PROVE DrainedInv'
  <2>1. UNCHANGED <<scenario, phase, todo, outcome, stats>>
    BY <1>29 DEF BrokerDispatches, driverVars
  <2> QED
    BY <1>29, <2>1, SamePlace
       DEF BrokerDispatches, workerVars, callerVars, brokerVars, DrainedInv, Drained
<1>30. ASSUME BrokerHandlesLate PROVE DrainedInv'
  <2>1. UNCHANGED <<scenario, phase, todo, outcome, stats>>
    BY <1>30 DEF BrokerHandlesLate, driverVars
  <2> QED
    BY <1>30, <2>1, SamePlace
       DEF BrokerHandlesLate, workerVars, callerVars, brokerVars, DrainedInv, Drained
<1>31. ASSUME BrokerNotices PROVE DrainedInv'
  <2>1. UNCHANGED <<scenario, phase, todo, outcome, stats>>
    BY <1>31 DEF BrokerNotices, driverVars
  <2> QED
    BY <1>31, <2>1, SamePlace
       DEF BrokerNotices, workerVars, callerVars, brokerVars, DrainedInv, Drained
<1>32. ASSUME BrokerCleans PROVE DrainedInv'
  <2>1. UNCHANGED <<scenario, phase, todo, outcome, stats>>
    BY <1>32 DEF BrokerCleans, driverVars
  <2> QED
    BY <1>32, <2>1, SamePlace
       DEF BrokerCleans, workerVars, callerVars, brokerVars, DrainedInv, Drained
<1>33. ASSUME NEW w \in Workers, BrokerMisbehaves(w) PROVE DrainedInv'
  <2>1. UNCHANGED <<scenario, phase, todo, outcome, stats>>
    BY <1>33 DEF BrokerMisbehaves, driverVars
  <2> QED
    BY <1>33, <2>1, SamePlace
       DEF BrokerMisbehaves, workerVars, callerVars, brokerVars, DrainedInv, Drained
<1> QED
  BY <1>1, <1>2, <1>3, <1>4, <1>5, <1>6, <1>7, <1>8, <1>9, <1>10, <1>11, <1>12, <1>13, <1>14,
     <1>15, <1>16, <1>17, <1>18, <1>19, <1>20, <1>21, <1>22, <1>23, <1>24, <1>25, <1>26, <1>27,
     <1>28, <1>29, <1>30, <1>31, <1>32, <1>33
     DEF Next, Driver, Roles, Broker
-----------------------------------------------------------------------------
(* An accepted fleet was served exactly. *)

(* Frames per call are fixed for the run. *)
LEMMA SameFrames ==
    ASSUME UNCHANGED scenario
    PROVE  FramesPerCall' = FramesPerCall
BY DEF FramesPerCall

(* A step that touches neither calls nor what was consumed. *)
LEMMA ConsumedStays ==
    ASSUME ConsumedInv, UNCHANGED <<scenario, call, consumed>>
    PROVE  ConsumedInv'
<1>1. call' = call /\ consumed' = consumed /\ FramesPerCall' = FramesPerCall
  BY SameFrames
<1> QED
  BY <1>1 DEF ConsumedInv

(* What a caller has accepted is the beginning of its response. *)
LEMMA ConsumedStep ==
    ASSUME TypeOK, Place, ConsumedInv, Next
    PROVE  ConsumedInv'
<1>0. FramesPerCall \in Nat /\ FramesPerCall >= 2 /\ Callers = Workers /\ 0 \notin Workers
  BY Sizes
<1>00. Thrown \in {"interrupted", "error"}
  BY DEF Thrown
<1>000. CallerType /\ BrokerType
  BY DEF TypeOK
<1>1. ASSUME Baseline PROVE ConsumedInv'
  <2>1. UNCHANGED <<scenario, call, consumed>>
    BY <1>1 DEF Baseline, driverVars, callerVars
  <2> QED
    BY <2>1, ConsumedStays
<1>2. ASSUME StartWorkers PROVE ConsumedInv'
  <2>1. UNCHANGED <<scenario, call, consumed>>
    BY <1>2 DEF StartWorkers, driverVars, callerVars
  <2> QED
    BY <2>1, ConsumedStays
<1>3. ASSUME StartCallers PROVE ConsumedInv'
  <2>1. /\ UNCHANGED scenario
        /\ call' = [c \in Callers |-> "idle"] /\ consumed' = [c \in Callers |-> <<>>]
    BY <1>3 DEF StartCallers
  <2> QED
    BY <2>1, SameFrames DEF ConsumedInv
<1>4. ASSUME Release PROVE ConsumedInv'
  <2>1. UNCHANGED <<scenario, call, consumed>>
    BY <1>4 DEF Release, driverVars, callerVars
  <2> QED
    BY <2>1, ConsumedStays
<1>5. ASSUME NEW step \in {"awaitWorkers", "awaitCallers", "awaitProgress"}, Await(step)
      PROVE  ConsumedInv'
  <2>1. UNCHANGED <<scenario, call, consumed>>
    BY <1>5 DEF Await, driverVars, callerVars
  <2> QED
    BY <2>1, ConsumedStays
<1>6. ASSUME FinishFleet PROVE ConsumedInv'
  <2>1. UNCHANGED <<scenario, call, consumed>>
    BY <1>6 DEF FinishFleet, driverVars, callerVars
  <2> QED
    BY <2>1, ConsumedStays
<1>7. ASSUME FinishCallers PROVE ConsumedInv'
  <2>1. UNCHANGED <<scenario, call, consumed>>
    BY <1>7 DEF FinishCallers, driverVars, callerVars
  <2> QED
    BY <2>1, ConsumedStays
<1>8. ASSUME StopWorkers PROVE ConsumedInv'
  <2>1. UNCHANGED <<scenario, call, consumed>>
    BY <1>8 DEF StopWorkers, driverVars, callerVars
  <2> QED
    BY <2>1, ConsumedStays
<1>9. ASSUME FinishWorkers PROVE ConsumedInv'
  <2>1. UNCHANGED <<scenario, call, consumed>>
    BY <1>9 DEF FinishWorkers, driverVars, callerVars
  <2> QED
    BY <2>1, ConsumedStays
<1>10. ASSUME KillWorkers PROVE ConsumedInv'
  <2>1. UNCHANGED <<scenario, call, consumed>>
    BY <1>10 DEF KillWorkers, driverVars, callerVars
  <2> QED
    BY <2>1, ConsumedStays
<1>11. ASSUME KillFitz PROVE ConsumedInv'
  <2>1. UNCHANGED <<scenario, call, consumed>>
    BY <1>11 DEF KillFitz, driverVars, callerVars
  <2> QED
    BY <2>1, ConsumedStays
<1>12. ASSUME RestartFitz PROVE ConsumedInv'
  <2>1. UNCHANGED <<scenario, call, consumed>>
    BY <1>12 DEF RestartFitz, driverVars, callerVars
  <2> QED
    BY <2>1, ConsumedStays
<1>13. ASSUME Judge PROVE ConsumedInv'
  <2>1. UNCHANGED <<scenario, call, consumed>>
    BY <1>13 DEF Judge, driverVars, callerVars
  <2> QED
    BY <2>1, ConsumedStays
<1>14. ASSUME ReadStats PROVE ConsumedInv'
  <2>1. UNCHANGED <<scenario, call, consumed>>
    BY <1>14 DEF ReadStats, driverVars, callerVars
  <2> QED
    BY <2>1, ConsumedStays
<1>15. ASSUME ReadMetrics PROVE ConsumedInv'
  <2>1. UNCHANGED <<scenario, call, consumed>>
    BY <1>15 DEF ReadMetrics, driverVars, callerVars
  <2> QED
    BY <2>1, ConsumedStays
<1>16. ASSUME Quiesce PROVE ConsumedInv'
  <2>1. UNCHANGED <<scenario, call, consumed>>
    BY <1>16, QuiesceStep
  <2> QED
    BY <2>1, ConsumedStays
<1>17. ASSUME DeadlinePasses PROVE ConsumedInv'
  <2>1. UNCHANGED <<scenario, call, consumed>>
    BY <1>17 DEF DeadlinePasses, driverVars, callerVars
  <2> QED
    BY <2>1, ConsumedStays
<1>18. ASSUME NEW w \in Workers, WorkerRegisters(w) PROVE ConsumedInv'
  <2>1. UNCHANGED <<scenario, call, consumed>>
    BY <1>18 DEF WorkerRegisters, driverVars, callerVars
  <2> QED
    BY <2>1, ConsumedStays
<1>19. ASSUME NEW w \in Workers, WorkerExits(w) PROVE ConsumedInv'
  <2>1. UNCHANGED <<scenario, call, consumed>>
    BY <1>19 DEF WorkerExits, driverVars, callerVars
  <2> QED
    BY <2>1, ConsumedStays
<1>20. ASSUME NEW w \in Workers, NEW x \in Callers, HandlerEnds(w, x) PROVE ConsumedInv'
  <2>1. UNCHANGED <<scenario, call, consumed>>
    BY <1>20 DEF HandlerEnds, driverVars, callerVars
  <2> QED
    BY <2>1, ConsumedStays
<1>21. ASSUME NEW w \in Workers, NEW x \in Callers,
             NEW n \in 0..(FramesPerCall - 1), HandlerWrites(w, x, n)
      PROVE  ConsumedInv'
  <2>1. UNCHANGED <<scenario, call, consumed>>
    BY <1>21 DEF HandlerWrites, driverVars, callerVars
  <2> QED
    BY <2>1, ConsumedStays
<1>22. ASSUME NEW c \in Callers, CallerConnects(c) PROVE ConsumedInv'
  <2>1. UNCHANGED <<scenario, call, consumed>>
    BY <1>22 DEF CallerConnects, driverVars, callerVars
  <2> QED
    BY <2>1, ConsumedStays
<1>23. ASSUME NEW c \in Callers, StartCall(c) PROVE ConsumedInv'
  <2>1. UNCHANGED <<scenario, consumed>> /\ call[c] = "idle" /\ call' = [call EXCEPT ![c] = "open"]
    BY <1>23 DEF StartCall, driverVars
  <2> QED
    BY <2>1, <1>0, <1>000, SameFrames DEF ConsumedInv, CallerType
<1>24. ASSUME NEW c \in Callers, Receive(c) PROVE ConsumedInv'
  <2> DEFINE f == Head(outbox[c])
             q == consumed[c]
  <2>1. UNCHANGED scenario /\ call[c] = "open" /\ f.frame > 0
    BY <1>24 DEF Receive, driverVars
  <2>2. q \in Seq(Deliveries) /\ Len(q) \in Nat /\ Len(q) < FramesPerCall
    BY <2>1, <1>000 DEF ConsumedInv, CallerType
  <2>3. f \in Deliveries
    BY <1>24, <1>000, TakeFrom DEF Receive, BrokerType
  <2>4. f.worker \in Workers
    BY <2>1, <2>3 DEF Deliveries
  <2>5. CASE ~Valid(c, f)
    <3>1. UNCHANGED consumed /\ call' = [call EXCEPT ![c] = Thrown]
      BY <1>24, <2>5 DEF Receive
    <3> QED
      BY <2>1, <3>1, <1>00, <1>000, SameFrames DEF ConsumedInv, CallerType
  <2>6. CASE Valid(c, f)
    <3>1. /\ consumed' = [consumed EXCEPT ![c] = Append(q, f)]
          /\ call' = [call EXCEPT ![c] = call'[c]]
          /\ call'[c] \notin {"idle"}
          /\ call'[c] = "open" => f.frame < FramesPerCall
          /\ call'[c] = "completed" => ~(f.frame < FramesPerCall)
      BY <1>24, <2>6, <1>00, <1>000 DEF Receive, CallerType
    <3>2. /\ f.frame = Len(q) + 1 /\ f.call = c
          /\ q # <<>> => f.worker = q[1].worker
      BY <2>6 DEF Valid
    <3> DEFINE r == Append(q, f)
    <3>3. /\ r \in Seq(Deliveries) /\ Len(r) = Len(q) + 1 /\ r[Len(q) + 1] = f
          /\ \A n \in 1..Len(q) : r[n] = q[n]
      BY <2>2, <2>3, AddTo
    <3>4. ASSUME NEW n \in 1..Len(r)
          PROVE  /\ r[n].call = c /\ r[n].frame = n /\ r[n].worker \in Workers
                 /\ r[n].worker = r[1].worker
      <4>1. CASE q = <<>>
        <5>1. Len(q) = 0 /\ n = 1
          BY <4>1, <3>3
        <5> QED
          BY <5>1, <3>2, <3>3, <2>4
      <4>2. CASE q # <<>>
        <5>1. Len(q) >= 1 /\ r[1] = q[1]
          BY <4>2, <2>2, <3>3
        <5>2. CASE n = Len(q) + 1
          BY <5>1, <5>2, <4>2, <3>2, <3>3, <2>4
        <5>3. CASE n \in 1..Len(q)
          <6>1. r[n] = q[n]
            BY <5>3, <3>3
          <6>2. /\ q[n].call = c /\ q[n].frame = n /\ q[n].worker \in Workers
                /\ q[n].worker = q[1].worker
            BY <5>3 DEF ConsumedInv
          <6> QED
            BY <6>1, <6>2, <5>1
        <5> QED
          BY <5>2, <5>3, <3>3, <2>2
      <4> QED
        BY <4>1, <4>2
    <3>5. /\ call'[c] # "idle"
          /\ call'[c] = "open" => Len(r) < FramesPerCall
          /\ call'[c] = "completed" => Len(r) = FramesPerCall
      BY <3>1, <3>2, <3>3, <2>2, <1>0
    <3>6. /\ consumed'[c] = r
          /\ \A d \in Callers \ {c} : consumed'[d] = consumed[d] /\ call'[d] = call[d]
      BY <3>1, <1>000 DEF CallerType
    <3> HIDE DEF r, q, f
    <3>7. ASSUME NEW d \in Callers
          PROVE  /\ \A n \in 1..Len(consumed'[d]) :
                      /\ consumed'[d][n].call = d /\ consumed'[d][n].frame = n
                      /\ consumed'[d][n].worker \in Workers
                      /\ consumed'[d][n].worker = consumed'[d][1].worker
                 /\ call'[d] = "idle" => consumed'[d] = <<>>
                 /\ call'[d] = "open" => Len(consumed'[d]) < FramesPerCall
                 /\ call'[d] = "completed" => Len(consumed'[d]) = FramesPerCall
      <4>1. CASE d = c
        BY <4>1, <3>4, <3>5, <3>6
      <4>2. CASE d # c
        <5>1. consumed'[d] = consumed[d] /\ call'[d] = call[d]
          BY <4>2, <3>6
        <5> QED
          BY <5>1 DEF ConsumedInv
      <4> QED
        BY <4>1, <4>2
    <3> QED
      BY <3>7, <2>1, SameFrames, Zenon DEF ConsumedInv
  <2> QED
    BY <2>5, <2>6
<1>25. ASSUME NEW c \in Callers, CallFails(c) PROVE ConsumedInv'
  <2>1. UNCHANGED <<scenario, consumed>> /\ call' = [call EXCEPT ![c] = Thrown]
    BY <1>25 DEF CallFails, driverVars
  <2> QED
    BY <2>1, <1>00, <1>000, SameFrames DEF ConsumedInv, CallerType
<1>26. ASSUME NEW c \in Callers, CallTimesOut(c) PROVE ConsumedInv'
  <2>1. UNCHANGED <<scenario, consumed>> /\ call' = [call EXCEPT ![c] = Thrown]
    BY <1>26 DEF CallTimesOut, driverVars
  <2> QED
    BY <2>1, <1>00, <1>000, SameFrames DEF ConsumedInv, CallerType
<1>27. ASSUME NEW c \in Callers, CallerExits(c) PROVE ConsumedInv'
  <2>1. UNCHANGED <<scenario, call, consumed>>
    BY <1>27 DEF CallerExits, driverVars, callerVars
  <2> QED
    BY <2>1, ConsumedStays
<1>28. ASSUME NEW w \in Workers, BrokerHandles(w) PROVE ConsumedInv'
  <2>1. UNCHANGED <<scenario, call, consumed>>
    BY <1>28 DEF BrokerHandles, driverVars, callerVars
  <2> QED
    BY <2>1, ConsumedStays
<1>29. ASSUME NEW w \in Workers, NEW x \in Callers, BrokerDispatches(x, w) PROVE ConsumedInv'
  <2>1. UNCHANGED <<scenario, call, consumed>>
    BY <1>29 DEF BrokerDispatches, driverVars, callerVars
  <2> QED
    BY <2>1, ConsumedStays
<1>30. ASSUME BrokerHandlesLate PROVE ConsumedInv'
  <2>1. UNCHANGED <<scenario, call, consumed>>
    BY <1>30 DEF BrokerHandlesLate, driverVars, callerVars
  <2> QED
    BY <2>1, ConsumedStays
<1>31. ASSUME BrokerNotices PROVE ConsumedInv'
  <2>1. UNCHANGED <<scenario, call, consumed>>
    BY <1>31 DEF BrokerNotices, driverVars, callerVars
  <2> QED
    BY <2>1, ConsumedStays
<1>32. ASSUME BrokerCleans PROVE ConsumedInv'
  <2>1. UNCHANGED <<scenario, call, consumed>>
    BY <1>32 DEF BrokerCleans, driverVars, callerVars
  <2> QED
    BY <2>1, ConsumedStays
<1>33. ASSUME NEW w \in Workers, BrokerMisbehaves(w) PROVE ConsumedInv'
  <2>1. UNCHANGED <<scenario, call, consumed>>
    BY <1>33 DEF BrokerMisbehaves, driverVars, callerVars
  <2> QED
    BY <2>1, ConsumedStays
<1> QED
  BY <1>1, <1>2, <1>3, <1>4, <1>5, <1>6, <1>7, <1>8, <1>9, <1>10, <1>11, <1>12, <1>13, <1>14,
     <1>15, <1>16, <1>17, <1>18, <1>19, <1>20, <1>21, <1>22, <1>23, <1>24, <1>25, <1>26, <1>27,
     <1>28, <1>29, <1>30, <1>31, <1>32, <1>33
     DEF Next, Driver, Roles, Broker

(* A call that has completed stays so until the next callers start. *)
LEMMA JudgedStep ==
    ASSUME TypeOK, Place, JudgedInv, Next, outcome = "none"
    PROVE  JudgedInv'
<1>00. Members \subseteq Callers /\ call \in [Callers -> CallStates]
  BY Sizes DEF TypeOK, CallerType
<1>1. ASSUME Baseline PROVE JudgedInv'
  <2>1. /\ Done /\ Head(todo) \notin {"quiesce", "judge"} /\ UNCHANGED <<scenario, phase>>
    BY <1>1 DEF Baseline, At
  <2>2. Kind' = Kind /\ ~(Head(todo)' = "quiesce" /\ IsFleet(Kind))
    BY <2>1, Moves
  <2> QED
    BY <2>2 DEF JudgedInv, At, IsFleet
<1>2. ASSUME StartWorkers PROVE JudgedInv'
  <2>1. /\ Done /\ Head(todo) \notin {"quiesce", "judge"} /\ UNCHANGED <<scenario, phase>>
    BY <1>2 DEF StartWorkers, At
  <2>2. Kind' = Kind /\ ~(Head(todo)' = "quiesce" /\ IsFleet(Kind))
    BY <2>1, Moves
  <2> QED
    BY <2>2 DEF JudgedInv, At, IsFleet
<1>3. ASSUME StartCallers PROVE JudgedInv'
  <2>1. /\ Done /\ Head(todo) \notin {"quiesce", "judge"} /\ UNCHANGED <<scenario, phase>>
    BY <1>3 DEF StartCallers, At
  <2>2. Kind' = Kind /\ ~(Head(todo)' = "quiesce" /\ IsFleet(Kind))
    BY <2>1, Moves
  <2> QED
    BY <2>2 DEF JudgedInv, At, IsFleet
<1>4. ASSUME Release PROVE JudgedInv'
  <2>1. /\ Done /\ Head(todo) \notin {"quiesce", "judge"} /\ UNCHANGED <<scenario, phase>>
    BY <1>4 DEF Release, At
  <2>2. Kind' = Kind /\ ~(Head(todo)' = "quiesce" /\ IsFleet(Kind))
    BY <2>1, Moves
  <2> QED
    BY <2>2 DEF JudgedInv, At, IsFleet
<1>5. ASSUME NEW step \in {"awaitWorkers", "awaitCallers", "awaitProgress"}, Await(step)
      PROVE  JudgedInv'
  <2>1. /\ Done /\ Head(todo) \notin {"quiesce", "judge"} /\ UNCHANGED <<scenario, phase>>
    BY <1>5 DEF Await, At
  <2>2. Kind' = Kind /\ ~(Head(todo)' = "quiesce" /\ IsFleet(Kind))
    BY <2>1, Moves
  <2> QED
    BY <2>2 DEF JudgedInv, At, IsFleet
<1>6. ASSUME FinishFleet PROVE JudgedInv'
  <2>1. /\ Done /\ Head(todo) \notin {"quiesce", "judge"} /\ UNCHANGED <<scenario, phase>>
    BY <1>6 DEF FinishFleet, At
  <2>2. Kind' = Kind /\ ~(Head(todo)' = "quiesce" /\ IsFleet(Kind))
    BY <2>1, Moves
  <2> QED
    BY <2>2 DEF JudgedInv, At, IsFleet
<1>7. ASSUME FinishCallers PROVE JudgedInv'
  <2>1. /\ Done /\ Head(todo) \notin {"quiesce", "judge"} /\ UNCHANGED <<scenario, phase>>
    BY <1>7 DEF FinishCallers, At
  <2>2. Kind' = Kind /\ ~(Head(todo)' = "quiesce" /\ IsFleet(Kind))
    BY <2>1, Moves
  <2> QED
    BY <2>2 DEF JudgedInv, At, IsFleet
<1>8. ASSUME StopWorkers PROVE JudgedInv'
  <2>1. /\ Done /\ Head(todo) \notin {"quiesce", "judge"} /\ UNCHANGED <<scenario, phase>>
    BY <1>8 DEF StopWorkers, At
  <2>2. Kind' = Kind /\ ~(Head(todo)' = "quiesce" /\ IsFleet(Kind))
    BY <2>1, Moves
  <2> QED
    BY <2>2 DEF JudgedInv, At, IsFleet
<1>9. ASSUME FinishWorkers PROVE JudgedInv'
  <2>1. /\ Done /\ Head(todo) \notin {"quiesce", "judge"} /\ UNCHANGED <<scenario, phase>>
    BY <1>9 DEF FinishWorkers, At
  <2>2. Kind' = Kind /\ ~(Head(todo)' = "quiesce" /\ IsFleet(Kind))
    BY <2>1, Moves
  <2> QED
    BY <2>2 DEF JudgedInv, At, IsFleet
<1>10. ASSUME KillWorkers PROVE JudgedInv'
  <2>1. /\ Done /\ Head(todo) \notin {"quiesce", "judge"} /\ UNCHANGED <<scenario, phase>>
    BY <1>10 DEF KillWorkers, At
  <2>2. Kind' = Kind /\ ~(Head(todo)' = "quiesce" /\ IsFleet(Kind))
    BY <2>1, Moves
  <2> QED
    BY <2>2 DEF JudgedInv, At, IsFleet
<1>11. ASSUME KillFitz PROVE JudgedInv'
  <2>1. /\ Done /\ Head(todo) \notin {"quiesce", "judge"} /\ UNCHANGED <<scenario, phase>>
    BY <1>11 DEF KillFitz, At
  <2>2. Kind' = Kind /\ ~(Head(todo)' = "quiesce" /\ IsFleet(Kind))
    BY <2>1, Moves
  <2> QED
    BY <2>2 DEF JudgedInv, At, IsFleet
<1>12. ASSUME RestartFitz PROVE JudgedInv'
  <2>1. /\ Done /\ Head(todo) \notin {"quiesce", "judge"} /\ UNCHANGED <<scenario, phase>>
    BY <1>12 DEF RestartFitz, At
  <2>2. Kind' = Kind /\ ~(Head(todo)' = "quiesce" /\ IsFleet(Kind))
    BY <2>1, Moves
  <2> QED
    BY <2>2 DEF JudgedInv, At, IsFleet
<1>13. ASSUME Judge PROVE JudgedInv'
  <2>1. /\ Done /\ Head(todo) # "quiesce" /\ UNCHANGED <<scenario, phase, call>>
        /\ outcome' = "none" => FleetAccepts
    BY <1>13 DEF Judge, At, callerVars
  <2>2. Kind' = Kind /\ Members' = Members
    BY <2>1, Moves
  <2> QED
    BY <2>1, <2>2 DEF JudgedInv, FleetAccepts, At
<1>14. ASSUME ReadStats PROVE JudgedInv'
  <2>1. UNCHANGED <<scenario, phase, todo, outcome>>
    BY <1>14 DEF ReadStats, driverVars
  <2>2. \A d \in Callers : call[d] = "completed" => call'[d] = "completed"
    BY <1>14, <1>00 DEF ReadStats, callerVars
  <2> QED
    BY <2>1, <2>2, <1>00, SamePlace DEF JudgedInv, At, IsFleet
<1>15. ASSUME ReadMetrics PROVE JudgedInv'
  <2>1. UNCHANGED <<scenario, phase, todo, outcome>>
    BY <1>15 DEF ReadMetrics, driverVars
  <2>2. \A d \in Callers : call[d] = "completed" => call'[d] = "completed"
    BY <1>15, <1>00 DEF ReadMetrics, callerVars
  <2> QED
    BY <2>1, <2>2, <1>00, SamePlace DEF JudgedInv, At, IsFleet
<1>16. ASSUME Quiesce PROVE JudgedInv'
  <2>1. CASE UNCHANGED <<phase, todo>>
    <3>1. UNCHANGED <<scenario, phase, todo, call>> /\ At("quiesce")
      BY <2>1, <1>16, QuiesceStep DEF Quiesce
    <3> QED
      BY <3>1, SamePlace DEF JudgedInv, At, IsFleet
  <2>2. CASE ~UNCHANGED <<phase, todo>>
    BY <2>2, <1>16, QuiesceStep DEF JudgedInv, At
  <2> QED
    BY <2>1, <2>2
<1>17. ASSUME DeadlinePasses PROVE JudgedInv'
  BY <1>17 DEF DeadlinePasses, JudgedInv, At
<1>18. ASSUME NEW w \in Workers, WorkerRegisters(w) PROVE JudgedInv'
  <2>1. UNCHANGED <<scenario, phase, todo, outcome>>
    BY <1>18 DEF WorkerRegisters, driverVars
  <2>2. \A d \in Callers : call[d] = "completed" => call'[d] = "completed"
    BY <1>18, <1>00 DEF WorkerRegisters, callerVars
  <2> QED
    BY <2>1, <2>2, <1>00, SamePlace DEF JudgedInv, At, IsFleet
<1>19. ASSUME NEW w \in Workers, WorkerExits(w) PROVE JudgedInv'
  <2>1. UNCHANGED <<scenario, phase, todo, outcome>>
    BY <1>19 DEF WorkerExits, driverVars
  <2>2. \A d \in Callers : call[d] = "completed" => call'[d] = "completed"
    BY <1>19, <1>00 DEF WorkerExits, callerVars
  <2> QED
    BY <2>1, <2>2, <1>00, SamePlace DEF JudgedInv, At, IsFleet
<1>20. ASSUME NEW w \in Workers, NEW x \in Callers, HandlerEnds(w, x) PROVE JudgedInv'
  <2>1. UNCHANGED <<scenario, phase, todo, outcome>>
    BY <1>20 DEF HandlerEnds, driverVars
  <2>2. \A d \in Callers : call[d] = "completed" => call'[d] = "completed"
    BY <1>20, <1>00 DEF HandlerEnds, callerVars
  <2> QED
    BY <2>1, <2>2, <1>00, SamePlace DEF JudgedInv, At, IsFleet
<1>21. ASSUME NEW w \in Workers, NEW x \in Callers,
             NEW n \in 0..(FramesPerCall - 1), HandlerWrites(w, x, n)
      PROVE  JudgedInv'
  <2>1. UNCHANGED <<scenario, phase, todo, outcome>>
    BY <1>21 DEF HandlerWrites, driverVars
  <2>2. \A d \in Callers : call[d] = "completed" => call'[d] = "completed"
    BY <1>21, <1>00 DEF HandlerWrites, callerVars
  <2> QED
    BY <2>1, <2>2, <1>00, SamePlace DEF JudgedInv, At, IsFleet
<1>22. ASSUME NEW c \in Callers, CallerConnects(c) PROVE JudgedInv'
  <2>1. UNCHANGED <<scenario, phase, todo, outcome>>
    BY <1>22 DEF CallerConnects, driverVars
  <2>2. \A d \in Callers : call[d] = "completed" => call'[d] = "completed"
    BY <1>22, <1>00 DEF CallerConnects, callerVars
  <2> QED
    BY <2>1, <2>2, <1>00, SamePlace DEF JudgedInv, At, IsFleet
<1>23. ASSUME NEW c \in Callers, StartCall(c) PROVE JudgedInv'
  <2>1. UNCHANGED <<scenario, phase, todo, outcome>>
    BY <1>23 DEF StartCall, driverVars
  <2>2. \A d \in Callers : call[d] = "completed" => call'[d] = "completed"
    BY <1>23, <1>00 DEF StartCall, callerVars
  <2> QED
    BY <2>1, <2>2, <1>00, SamePlace DEF JudgedInv, At, IsFleet
<1>24. ASSUME NEW c \in Callers, Receive(c) PROVE JudgedInv'
  <2>1. UNCHANGED <<scenario, phase, todo, outcome>>
    BY <1>24 DEF Receive, driverVars
  <2>2. \A d \in Callers : call[d] = "completed" => call'[d] = "completed"
    BY <1>24, <1>00 DEF Receive, callerVars
  <2> QED
    BY <2>1, <2>2, <1>00, SamePlace DEF JudgedInv, At, IsFleet
<1>25. ASSUME NEW c \in Callers, CallFails(c) PROVE JudgedInv'
  <2>1. UNCHANGED <<scenario, phase, todo, outcome>>
    BY <1>25 DEF CallFails, driverVars
  <2>2. \A d \in Callers : call[d] = "completed" => call'[d] = "completed"
    BY <1>25, <1>00 DEF CallFails, callerVars
  <2> QED
    BY <2>1, <2>2, <1>00, SamePlace DEF JudgedInv, At, IsFleet
<1>26. ASSUME NEW c \in Callers, CallTimesOut(c) PROVE JudgedInv'
  <2>1. UNCHANGED <<scenario, phase, todo, outcome>>
    BY <1>26 DEF CallTimesOut, driverVars
  <2>2. \A d \in Callers : call[d] = "completed" => call'[d] = "completed"
    BY <1>26, <1>00 DEF CallTimesOut, callerVars
  <2> QED
    BY <2>1, <2>2, <1>00, SamePlace DEF JudgedInv, At, IsFleet
<1>27. ASSUME NEW c \in Callers, CallerExits(c) PROVE JudgedInv'
  <2>1. UNCHANGED <<scenario, phase, todo, outcome>>
    BY <1>27 DEF CallerExits, driverVars
  <2>2. \A d \in Callers : call[d] = "completed" => call'[d] = "completed"
    BY <1>27, <1>00 DEF CallerExits, callerVars
  <2> QED
    BY <2>1, <2>2, <1>00, SamePlace DEF JudgedInv, At, IsFleet
<1>28. ASSUME NEW w \in Workers, BrokerHandles(w) PROVE JudgedInv'
  <2>1. UNCHANGED <<scenario, phase, todo, outcome>>
    BY <1>28 DEF BrokerHandles, driverVars
  <2>2. \A d \in Callers : call[d] = "completed" => call'[d] = "completed"
    BY <1>28, <1>00 DEF BrokerHandles, callerVars
  <2> QED
    BY <2>1, <2>2, <1>00, SamePlace DEF JudgedInv, At, IsFleet
<1>29. ASSUME NEW w \in Workers, NEW x \in Callers, BrokerDispatches(x, w) PROVE JudgedInv'
  <2>1. UNCHANGED <<scenario, phase, todo, outcome>>
    BY <1>29 DEF BrokerDispatches, driverVars
  <2>2. \A d \in Callers : call[d] = "completed" => call'[d] = "completed"
    BY <1>29, <1>00 DEF BrokerDispatches, callerVars
  <2> QED
    BY <2>1, <2>2, <1>00, SamePlace DEF JudgedInv, At, IsFleet
<1>30. ASSUME BrokerHandlesLate PROVE JudgedInv'
  <2>1. UNCHANGED <<scenario, phase, todo, outcome>>
    BY <1>30 DEF BrokerHandlesLate, driverVars
  <2>2. \A d \in Callers : call[d] = "completed" => call'[d] = "completed"
    BY <1>30, <1>00 DEF BrokerHandlesLate, callerVars
  <2> QED
    BY <2>1, <2>2, <1>00, SamePlace DEF JudgedInv, At, IsFleet
<1>31. ASSUME BrokerNotices PROVE JudgedInv'
  <2>1. UNCHANGED <<scenario, phase, todo, outcome>>
    BY <1>31 DEF BrokerNotices, driverVars
  <2>2. \A d \in Callers : call[d] = "completed" => call'[d] = "completed"
    BY <1>31, <1>00 DEF BrokerNotices, callerVars
  <2> QED
    BY <2>1, <2>2, <1>00, SamePlace DEF JudgedInv, At, IsFleet
<1>32. ASSUME BrokerCleans PROVE JudgedInv'
  <2>1. UNCHANGED <<scenario, phase, todo, outcome>>
    BY <1>32 DEF BrokerCleans, driverVars
  <2>2. \A d \in Callers : call[d] = "completed" => call'[d] = "completed"
    BY <1>32, <1>00 DEF BrokerCleans, callerVars
  <2> QED
    BY <2>1, <2>2, <1>00, SamePlace DEF JudgedInv, At, IsFleet
<1>33. ASSUME NEW w \in Workers, BrokerMisbehaves(w) PROVE JudgedInv'
  <2>1. UNCHANGED <<scenario, phase, todo, outcome>>
    BY <1>33 DEF BrokerMisbehaves, driverVars
  <2>2. \A d \in Callers : call[d] = "completed" => call'[d] = "completed"
    BY <1>33, <1>00 DEF BrokerMisbehaves, callerVars
  <2> QED
    BY <2>1, <2>2, <1>00, SamePlace DEF JudgedInv, At, IsFleet
<1> QED
  BY <1>1, <1>2, <1>3, <1>4, <1>5, <1>6, <1>7, <1>8, <1>9, <1>10, <1>11, <1>12, <1>13, <1>14,
     <1>15, <1>16, <1>17, <1>18, <1>19, <1>20, <1>21, <1>22, <1>23, <1>24, <1>25, <1>26, <1>27,
     <1>28, <1>29, <1>30, <1>31, <1>32, <1>33
     DEF Next, Driver, Roles, Broker
-----------------------------------------------------------------------------
(* The theorems. *)

(* The initial states. *)
LEMMA InitIInv ==
    ASSUME Init
    PROVE  IInv
<1>1. phase = 1 /\ scenario \in {"rpc-pressure", "rpc-stream-hose"} /\ todo = PhaseSteps(Kind)
  BY ScenariosAssumption DEF Init
<1>2. Kind \in {"pressure", "fleet"} /\ Kind \in KindNames
  BY <1>1 DEF Kind, Phases, KindNames
<1>3. /\ todo \in Seq(StepNames) /\ Len(todo) \in Nat /\ Head(todo) = "baseline"
      /\ Remains(todo, todo)
  BY <1>1, <1>2, ProgramType, WholeRemains
<1>4. Place /\ Fresh
  BY <1>1, <1>3 DEF Place, Fresh
<1>5. DriverType
  BY <1>1, <1>3 DEF Init, DriverType
<1>6. WorkerType
  BY DEF Init, WorkerType, WorkerStates
<1>7. CallerType /\ BrokerType
  <2>1. <<>> \in Seq(Deliveries) /\ <<>> \in Seq(Messages)
    OBVIOUS
  <2> QED
    BY <2>1 DEF Init, CallerType, BrokerType, CallerStates, CallStates
<1>8. WorkersInv
  BY <1>4 DEF Init, WorkersInv
<1>9. HandlersInv /\ RegisteredInv /\ DrainedInv
  BY DEF Init, HandlersInv, RegisteredInv, DrainedInv, Drained
<1>10. ConsumedInv
  BY Sizes DEF Init, ConsumedInv
<1>11. JudgedInv
  BY <1>3 DEF JudgedInv, At
<1> QED
  BY <1>4, <1>5, <1>6, <1>7, <1>8, <1>9, <1>10, <1>11 DEF IInv, TypeOK

(* Every step keeps the invariant. *)
LEMMA NextIInv ==
    ASSUME IInv, [Next]_vars
    PROVE  IInv'
<1>1. CASE Next
  <2>1. /\ TypeOK /\ Place /\ WorkersInv /\ HandlersInv /\ RegisteredInv /\ DrainedInv
        /\ ConsumedInv /\ JudgedInv /\ Next /\ outcome = "none"
    BY <1>1 DEF IInv, Next
  <2>2. TypeOK' /\ Place'
    BY <2>1, TypeStep
  <2>3. WorkersInv' /\ HandlersInv'
    BY <2>1, WorkersStep, HandlersStep
  <2>4. RegisteredInv' /\ DrainedInv'
    BY <2>1, RegisteredStep, DrainedStep
  <2>5. ConsumedInv' /\ JudgedInv'
    BY <2>1, ConsumedStep, JudgedStep
  <2> QED
    BY <2>2, <2>3, <2>4, <2>5 DEF IInv
<1>2. CASE UNCHANGED vars
  <2>1. /\ UNCHANGED <<scenario, phase, todo, callerFailure, baseline, stats, metrics, outcome>>
        /\ UNCHANGED <<worker, handlers, handled, framesSent, progressed, abandoned>>
        /\ UNCHANGED <<caller, call, consumed, cut>>
        /\ UNCHANGED <<up, registered, requests, pending, inbox, outbox, late, ended, closing,
                       failures, misbehaved, straggled>>
    BY <1>2 DEF vars, driverVars, workerVars, callerVars, brokerVars
  <2>2. TypeOK' <=> TypeOK
    <3>1. DriverType' <=> DriverType
      BY <2>1, ZenonT(60) DEF DriverType
    <3>2. (WorkerType' <=> WorkerType) /\ (CallerType' <=> CallerType)
      BY <2>1, Zenon DEF WorkerType, CallerType
    <3>3. BrokerType' <=> BrokerType
      BY <2>1, Zenon DEF BrokerType
    <3> QED
      BY <3>1, <3>2, <3>3, Zenon DEF TypeOK
  <2>3. /\ Kind' = Kind /\ Members' = Members /\ FramesPerCall' = FramesPerCall
        /\ (Place' <=> Place) /\ (Fresh' <=> Fresh) /\ (Over' <=> Over)
        /\ Head(todo)' = Head(todo)
    BY <2>1, SamePlace
  <2>4. (WorkersInv' <=> WorkersInv) /\ (DrainedInv' <=> DrainedInv)
    BY <2>1, <2>3, Zenon DEF WorkersInv, DrainedInv, Drained
  <2>5. (HandlersInv' <=> HandlersInv) /\ (RegisteredInv' <=> RegisteredInv)
    BY <2>1, <2>3, Zenon DEF HandlersInv, RegisteredInv, Alive
  <2>6. JudgedInv' <=> JudgedInv
    BY <2>1, <2>3, Zenon DEF JudgedInv, At, IsFleet
  <2>7. ConsumedInv'
    BY <2>1, ConsumedStays DEF IInv
  <2> QED
    BY <2>2, <2>3, <2>4, <2>5, <2>6, <2>7 DEF IInv
<1> QED
  BY <1>1, <1>2

(* The invariant holds in every reachable state. *)
THEOREM Invariance == Spec => []IInv
<1>1. Init => IInv
  BY InitIInv
<1>2. IInv /\ [Next]_vars => IInv'
  BY NextIInv
<1> QED
  BY <1>1, <1>2, PTL DEF Spec

(* Every variable keeps its type. *)
THEOREM TypeCorrect == Spec => []TypeOK
<1>1. IInv => TypeOK
  BY DEF IInv
<1> QED
  BY <1>1, Invariance, PTL

(* A fleet that the driver accepts was served exactly, for every number of
   replicas and frames and whatever the broker did: every call has all of its
   own frames, in order and from one worker. *)
THEOREM AcceptedFleetWasServed == Spec => []AcceptedIsExact
<1>1. IInv => AcceptedIsExact
  <2> SUFFICES ASSUME IInv, At("quiesce"), IsFleet(Kind), NEW c \in Members
               PROVE  \E w \in Workers : consumed[c] =
                        [n \in 1..FramesPerCall |-> [worker |-> w, call |-> c, frame |-> n]]
    BY DEF AcceptedIsExact
  <2> DEFINE q == consumed[c]
             w == q[1].worker
  <2>1. c \in Callers /\ FramesPerCall \in Nat /\ FramesPerCall >= 2
    BY Sizes
  <2>2. q \in Seq(Deliveries) /\ Len(q) = FramesPerCall
    BY <2>1 DEF IInv, TypeOK, CallerType, ConsumedInv, JudgedInv
  <2>3. ASSUME NEW n \in 1..FramesPerCall
        PROVE  q[n] \in Deliveries /\ q[n].call = c /\ q[n].frame = n /\ q[n].worker = w
    BY <2>1, <2>2 DEF IInv, ConsumedInv
  <2>4. w \in Workers
    <3>1. 1 \in 1..Len(q)
      BY <2>1, <2>2
    <3> QED
      BY <2>1, <3>1 DEF IInv, ConsumedInv
  <2>5. ASSUME NEW n \in 1..FramesPerCall
        PROVE  q[n] = [worker |-> w, call |-> c, frame |-> n]
    <3>1. q[n] \in [worker : 0..Replicas, call : Callers, frame : Nat]
      BY <2>3 DEF Deliveries
    <3> HIDE DEF q, w
    <3> QED
      BY <2>3, <3>1
  <2>6. q = [n \in 1..FramesPerCall |-> [worker |-> w, call |-> c, frame |-> n]]
    <3> HIDE DEF q, w
    <3>1. q = [n \in 1..Len(q) |-> q[n]]
      BY <2>2
    <3> QED
      BY <3>1, <2>2, <2>5
  <2> QED
    BY <2>4, <2>6
<1> QED
  BY <1>1, Invariance, PTL

(* A phase leaves no registration, call or handler to the next one, whatever
   fault it has injected, for every number of replicas and frames. *)
THEOREM PhasesAreDrained == Spec => []DrainedBetweenPhases
<1>1. IInv => DrainedBetweenPhases
  <2> SUFFICES ASSUME IInv, At("startWorkers") \/ outcome = "passed"
               PROVE  registered = {} /\ pending = {} /\ handlers = {}
    BY DEF DrainedBetweenPhases
  <2>1. DriverType /\ WorkerType /\ Place /\ WorkersInv /\ HandlersInv /\ DrainedInv
    BY DEF IInv, TypeOK
  <2>2. Fresh \/ outcome = "passed"
    BY <2>1, Order DEF At
  <2>3. Over
    BY <2>1, <2>2 DEF Over, DrainedInv
  <2>4. handlers = {}
    BY <2>1, <2>3 DEF WorkersInv, HandlersInv, Alive, WorkerType
  <2> QED
    BY <2>1, <2>2, <2>4 DEF DrainedInv, Drained
<1> QED
  BY <1>1, Invariance, PTL
=============================================================================
