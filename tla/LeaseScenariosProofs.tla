------------------------ MODULE LeaseScenariosProofs ------------------------
(* Proofs about LeaseScenarios: both verdicts tell the truth for every set of
   clients, number of critical sections and number of rounds. *)
EXTENDS LeaseScenarios, FiniteSetTheorems, TLAPS

StepNames ==
    {"contend", "startOwner", "awaitEntered", "startWaiter", "awaitReady", "killOwner",
     "finishWaiter", "probe", "acquire", "connect", "awaitDepth", "close", "release",
     "closeAndRelease", "settle", "awaitEmpty", "replace", "endRound"}

ClientStates == {"none", "starting", "idle", "acquiring", "entered", "done", "failed", "killed",
                 "closed"}

Admissions == [participant : Participants, sequence : Nat, token : Nat]

(* Every variable has its type. *)
TypeOK ==
    /\ scenario \in {"contention", "waiter-races"}
    /\ round \in Nat
    /\ todo \in Seq(StepNames)
    /\ outcome \in {"none", "passed", "rejected", "timeout"}
    /\ client \in [Participants -> ClientStates]
    /\ sequence \in [Participants -> Nat]
    /\ admissions \in SUBSET Admissions /\ IsFiniteSet(admissions)
    /\ fulfilled \in SUBSET Participants /\ ghosts \in Nat
    /\ holder \in Participants \cup {"none"}
    /\ waiters \in Seq(Participants)
    /\ token \in Nat
    /\ arriving \in SUBSET Participants
    /\ reply \in [Participants -> Nat]
    /\ retained \in SUBSET Participants
    /\ misbehaved \in BOOLEAN /\ lucky \in BOOLEAN

(* The steps that are left are the last ones of the program. *)
Program == IF scenario = "contention" THEN ContentionSteps ELSE RoundSteps(round)
Remains(q, p) == Len(q) \in 1..Len(p) /\ \A i \in 1..Len(q) : q[i] = p[i + Len(p) - Len(q)]
Left == Len(todo)

(* The roles of the contention, by the steps that are left of the driver's. *)
RolesInv ==
    /\ client["main"] = "none" /\ sequence["owner"] = 0
    /\ \A p \in Clients : client[p] \in {"idle", "acquiring", "entered", "done", "failed"}
    /\ client["owner"] \in {"none", "starting", "idle", "acquiring", "entered", "failed", "killed"}
    /\ client["waiter"] \in {"none", "starting", "idle", "acquiring", "entered", "done", "failed"}
    /\ Left <= 7 => \A p \in Clients : client[p] = "done"
    /\ Left >= 7 => client["owner"] = "none"
    /\ Left = 6 => client["owner"] # "killed"
    /\ Left \in 3..5 => client["owner"] = "entered"
    /\ Left <= 2 => client["owner"] = "killed"
    /\ Left >= 5 => client["waiter"] = "none"
    /\ Left = 1 => client["waiter"] = "done"

(* How many critical sections a participant has completed. *)
TurnsInv ==
    \A p \in Participants :
        /\ sequence[p] <= OperationsOf(p)
        /\ client[p] \in {"acquiring", "entered", "killed"} => sequence[p] < OperationsOf(p)
        /\ client[p] = "done" => sequence[p] = OperationsOf(p)
        /\ client[p] = "none" => sequence[p] = 0

(* A participant has passed through its critical section number k, or is in
   it. *)
Inside(p, k) == k = sequence[p] /\ client[p] \in {"entered", "killed"}
Been(p, k) == k < sequence[p] \/ Inside(p, k)

(* Every critical section has been logged, once. *)
AdmissionsInv ==
    /\ \A a \in admissions : Been(a.participant, a.sequence)
    /\ \A p \in Participants, k \in Nat :
          Been(p, k) => \E a \in admissions : a.participant = p /\ a.sequence = k
    /\ \A a, b \in admissions :
          a.participant = b.participant /\ a.sequence = b.sequence => a = b

(* What the driver has found out about the tokens. *)
FencedInv ==
    /\ Left <= 7 => \A a, b \in admissions :
          a.participant \in Clients /\ b.participant \in Clients /\ a.token = b.token => a = b
    /\ Left = 1 => \E a, b \in admissions :
          a.participant = "owner" /\ b.participant = "waiter" /\ a.token < b.token

(* A correct broker has one owner at a time, and numbers the grants. *)
GrantInv ==
    /\ retained = {} /\ \A p \in Participants : client[p] # "failed"
    /\ \A p \in Participants :
          /\ reply[p] > 0 => holder = p /\ client[p] = "acquiring" /\ reply[p] = token
          /\ client[p] = "entered" => holder = p
          /\ holder = p => client[p] \in {"entered", "killed"} \/ reply[p] > 0

(* Who waits for it has asked for it once. *)
QueueInv ==
    /\ \A i \in 1..Len(waiters) :
          /\ client[waiters[i]] = "acquiring" /\ holder # waiters[i]
          /\ waiters[i] \notin arriving
          /\ \A j \in 1..Len(waiters) : waiters[i] = waiters[j] => i = j
    /\ \A p \in arriving : client[p] = "acquiring" /\ holder # p

ExclusiveInv == GrantInv /\ QueueInv

(* Its tokens are unique, and the successor's is higher than the owner's. *)
TokensInv ==
    /\ \A a \in admissions : a.token <= token
    /\ \A p \in Participants : reply[p] > 0 => \A a \in admissions : a.token < token
    /\ \A a, b \in admissions : a.token = b.token => a = b
    /\ \A a, b \in admissions :
          a.participant = "owner" /\ b.participant = "waiter" => a.token < b.token
    /\ holder = "owner" => sequence["waiter"] = 0 /\ client["waiter"] # "entered"

ContentionInv ==
    /\ RolesInv /\ TurnsInv /\ AdmissionsInv /\ FencedInv
    /\ ~misbehaved => ExclusiveInv /\ TokensInv

(* A round of the waiter races, by its first step: who is connected, *)
RoundClients ==
    /\ \A p \in Participants : client[p] \in {"none", "acquiring", "entered", "failed", "closed"}
    /\ \A p \in Participants \ Clients : client[p] = "none"
    /\ Head(todo) = "awaitDepth" => \A p \in Clients : client[p] # "closed"
    /\ Head(todo) \in {"release", "settle", "awaitEmpty", "replace", "endRound"} =>
          \A p \in Clients : client[p] = "closed"
    /\ retained # {} => misbehaved
    /\ ~lucky => fulfilled = {} /\ ghosts = 0

(* who waits, *)
RoundQueue ==
    /\ arriving \subseteq Clients
    /\ Head(todo) \in {"acquire", "connect"} => waiters = <<>>
    /\ Head(todo) = "awaitDepth" => Len(waiters) + Cardinality(arriving) = Cardinality(Clients)
    /\ Head(todo) # "awaitDepth" => arriving = {}
    /\ Left <= 3 => waiters = <<>>

(* and who owns the lease. *)
RoundHolder ==
    /\ Head(todo) = "acquire" => holder \in {"none", "main"} /\ (~misbehaved => holder = "none")
    /\ Head(todo) \in {"connect", "awaitDepth", "close"} => holder = "main"
    /\ Left = 3 => holder = "none"
    /\ Left = 2 => holder = "main"
    /\ Left = 1 => holder \in {"none", "main"} /\ (~misbehaved => holder = "none")

RoundInv == RoundClients /\ RoundQueue /\ RoundHolder

Verdict == NoFalseAlarm /\ AcceptedIsReleased /\ AcceptedIsFenced

(* The inductive invariant. *)
IInv ==
    /\ TypeOK /\ Verdict
    /\ outcome = "none" =>
          /\ Remains(todo, Program)
          /\ scenario = "contention" => ContentionInv
          /\ scenario = "waiter-races" => RoundInv
-----------------------------------------------------------------------------
(* The order of the steps. *)

(* What is left after the first step is again the end of the program. *)
LEMMA TailRemains ==
    ASSUME NEW P \in Seq(StepNames), NEW q \in Seq(StepNames), Remains(q, P)
    PROVE  /\ q # <<>> /\ Len(q) \in Nat /\ Len(P) \in Nat /\ Len(q) <= Len(P)
           /\ Head(q) = P[Len(P) - Len(q) + 1]
           /\ Tail(q) \in Seq(StepNames) /\ Len(Tail(q)) = Len(q) - 1
           /\ Len(q) > 1 => Remains(Tail(q), P)
<1>1. /\ Len(q) \in 1..Len(P) /\ Len(P) \in Nat /\ q # <<>>
      /\ Head(q) = q[1] /\ Tail(q) \in Seq(StepNames) /\ Len(Tail(q)) = Len(q) - 1
      /\ \A i \in 1..Len(Tail(q)) : Tail(q)[i] = q[i + 1]
  BY DEF Remains
<1>2. Head(q) = P[Len(P) - Len(q) + 1]
  BY <1>1 DEF Remains
<1>3. ASSUME Len(q) > 1, NEW i \in 1..Len(Tail(q))
      PROVE  Tail(q)[i] = P[i + Len(P) - Len(Tail(q))]
  <2>1. i + 1 \in 1..Len(q) /\ (i + 1) + Len(P) - Len(q) = i + Len(P) - Len(Tail(q))
    BY <1>1
  <2> QED
    BY <1>1, <2>1 DEF Remains
<1> QED
  BY <1>1, <1>2, <1>3 DEF Remains

(* The program of the contention, step by step. *)
LEMMA ContentionProgram ==
    /\ ContentionSteps \in Seq(StepNames) /\ Len(ContentionSteps) = 8
    /\ ContentionSteps[1] = "contend" /\ ContentionSteps[2] = "startOwner"
    /\ ContentionSteps[3] = "awaitEntered" /\ ContentionSteps[4] = "startWaiter"
    /\ ContentionSteps[5] = "awaitReady" /\ ContentionSteps[6] = "killOwner"
    /\ ContentionSteps[7] = "finishWaiter" /\ ContentionSteps[8] = "probe"
BY DEF ContentionSteps, StepNames

(* The first step by the number of steps that are left of the contention. *)
LEMMA ContentionOrder ==
    ASSUME TypeOK, Remains(todo, ContentionSteps)
    PROVE  /\ Left \in 1..8 /\ todo # <<>>
           /\ Left = 8 <=> Head(todo) = "contend"
           /\ Left = 7 <=> Head(todo) = "startOwner"
           /\ Left = 6 <=> Head(todo) = "awaitEntered"
           /\ Left = 5 <=> Head(todo) = "startWaiter"
           /\ Left = 4 <=> Head(todo) = "awaitReady"
           /\ Left = 3 <=> Head(todo) = "killOwner"
           /\ Left = 2 <=> Head(todo) = "finishWaiter"
           /\ Left = 1 <=> Head(todo) = "probe"
           /\ Done /\ Left > 1 => Left' = Left - 1 /\ Remains(todo, ContentionSteps)'
           /\ UNCHANGED todo => Left' = Left /\ Remains(todo, ContentionSteps)'
<1>0. Len(todo) \in 1..8
  BY ContentionProgram DEF Remains
<1>1. /\ todo # <<>> /\ Head(todo) = ContentionSteps[8 - Len(todo) + 1]
      /\ Len(Tail(todo)) = Len(todo) - 1
      /\ Len(todo) > 1 => Remains(Tail(todo), ContentionSteps)
  BY TailRemains, ContentionProgram DEF TypeOK
<1>2. Done /\ Left > 1 => Left' = Left - 1 /\ Remains(todo, ContentionSteps)'
  BY <1>0, <1>1 DEF Done, Left, ContentionSteps
<1>3. UNCHANGED todo => Left' = Left /\ Remains(todo, ContentionSteps)'
  BY DEF Left, ContentionSteps
<1>4. Len(todo) \in {1, 2, 3, 4, 5, 6, 7, 8}
  BY <1>0
<1>5. Left = Len(todo) /\ todo # <<>> /\ Head(todo) = ContentionSteps[9 - Left]
  BY <1>0, <1>1 DEF Left
<1>6. /\ Left = 8 <=> Head(todo) = "contend"
      /\ Left = 7 <=> Head(todo) = "startOwner"
      /\ Left = 6 <=> Head(todo) = "awaitEntered"
      /\ Left = 5 <=> Head(todo) = "startWaiter"
      /\ Left = 4 <=> Head(todo) = "awaitReady"
      /\ Left = 3 <=> Head(todo) = "killOwner"
      /\ Left = 2 <=> Head(todo) = "finishWaiter"
      /\ Left = 1 <=> Head(todo) = "probe"
  <2> DEFINE n == Left
             h == Head(todo)
             P == ContentionSteps
  <2>1. n \in {1, 2, 3, 4, 5, 6, 7, 8} /\ h = P[9 - n]
    BY <1>4, <1>5
  <2>2. /\ P[1] = "contend" /\ P[2] = "startOwner" /\ P[3] = "awaitEntered"
        /\ P[4] = "startWaiter" /\ P[5] = "awaitReady" /\ P[6] = "killOwner"
        /\ P[7] = "finishWaiter" /\ P[8] = "probe"
    BY ContentionProgram
  <2> HIDE DEF n, h, P
  <2>3. /\ n = 8 <=> h = "contend"
        /\ n = 7 <=> h = "startOwner"
        /\ n = 6 <=> h = "awaitEntered"
        /\ n = 5 <=> h = "startWaiter"
        /\ n = 4 <=> h = "awaitReady"
        /\ n = 3 <=> h = "killOwner"
        /\ n = 2 <=> h = "finishWaiter"
        /\ n = 1 <=> h = "probe"
    BY <2>1, <2>2
  <2> QED
    BY <2>3 DEF n, h
<1> QED
  BY <1>0, <1>2, <1>3, <1>5, <1>6

(* The programs of a round. *)
LEMMA RoundProgram ==
    ASSUME NEW r \in Nat
    PROVE  /\ RoundSteps(r) \in Seq(StepNames) /\ Len(RoundSteps(r)) \in {9, 10}
           /\ Len(RoundSteps(r)) \in Nat /\ Len(RoundSteps(r)) >= 9
           /\ RoundSteps(r)[1] = "acquire" /\ RoundSteps(r)[2] = "connect"
           /\ RoundSteps(r)[3] = "awaitDepth"
           /\ Len(RoundSteps(r)) = 10 =>
                /\ RoundSteps(r)[4] = "close" /\ RoundSteps(r)[5] = "release"
                /\ RoundSteps(r)[6] = "settle" /\ RoundSteps(r)[7] = "awaitEmpty"
                /\ RoundSteps(r)[8] = "replace" /\ RoundSteps(r)[9] = "release"
                /\ RoundSteps(r)[10] = "endRound"
           /\ Len(RoundSteps(r)) = 9 =>
                /\ RoundSteps(r)[4] = "closeAndRelease"
                /\ RoundSteps(r)[5] = "settle" /\ RoundSteps(r)[6] = "awaitEmpty"
                /\ RoundSteps(r)[7] = "replace" /\ RoundSteps(r)[8] = "release"
                /\ RoundSteps(r)[9] = "endRound"
<1>1. CASE r % 2 = 0
  BY <1>1 DEF RoundSteps, StepNames
<1>2. CASE r % 2 # 0
  BY <1>2 DEF RoundSteps, StepNames
<1> QED
  BY <1>1, <1>2

(* The first step h by the number n of steps that are left of a round of l. *)
RoundTable(h, n, l) ==
    /\ h = "acquire" <=> n = l
    /\ h = "connect" <=> n = l - 1
    /\ h = "awaitDepth" <=> n = l - 2
    /\ h = "close" <=> l = 10 /\ n = 7
    /\ h = "closeAndRelease" <=> l = 9 /\ n = 6
    /\ h = "release" <=> n = 2 \/ (l = 10 /\ n = 6)
    /\ h = "settle" <=> n = 5
    /\ h = "awaitEmpty" <=> n = 4
    /\ h = "replace" <=> n = 3
    /\ h = "endRound" <=> n = 1

(* The place of the first step that is left in the round's program. *)
LEMMA RoundPlace ==
    ASSUME NEW r \in Nat, NEW q \in Seq(StepNames), Remains(q, RoundSteps(r))
    PROVE  /\ Len(RoundSteps(r)) \in {9, 10} /\ Len(q) \in Nat
           /\ Len(q) >= 1 /\ Len(q) <= Len(RoundSteps(r))
           /\ RoundTable(Head(q), Len(q), Len(RoundSteps(r)))
<1> DEFINE P == RoundSteps(r)
           n == Len(q)
           h == Head(q)
<1>1. P \in Seq(StepNames) /\ Remains(q, P)
  BY RoundProgram
<1>2. n \in Nat /\ n >= 1 /\ n <= Len(P) /\ Len(P) \in {9, 10}
  BY <1>1, RoundProgram DEF Remains
<1>3. h = P[Len(P) - n + 1]
  BY <1>1, TailRemains
<1>4. /\ P[1] = "acquire" /\ P[2] = "connect" /\ P[3] = "awaitDepth"
      /\ Len(P) = 10 => /\ P[4] = "close" /\ P[5] = "release" /\ P[6] = "settle"
                        /\ P[7] = "awaitEmpty" /\ P[8] = "replace" /\ P[9] = "release"
                        /\ P[10] = "endRound"
      /\ Len(P) = 9 => /\ P[4] = "closeAndRelease" /\ P[5] = "settle" /\ P[6] = "awaitEmpty"
                       /\ P[7] = "replace" /\ P[8] = "release" /\ P[9] = "endRound"
  BY RoundProgram
<1> HIDE DEF P, n, h
<1>5. ASSUME Len(P) = 10 PROVE RoundTable(h, n, 10)
  <2>1. n \in 1..10 /\ h = P[11 - n]
    BY <1>2, <1>3, <1>5
  <2>2. n \in {1, 2, 3, 4, 5, 6, 7, 8, 9, 10}
    BY <2>1
  <2> QED
    BY <1>4, <1>5, <2>1, <2>2 DEF RoundTable
<1>6. ASSUME Len(P) = 9 PROVE RoundTable(h, n, 9)
  <2>1. n \in 1..9 /\ h = P[10 - n]
    BY <1>2, <1>3, <1>6
  <2>2. n \in {1, 2, 3, 4, 5, 6, 7, 8, 9}
    BY <2>1
  <2> QED
    BY <1>4, <1>6, <2>1, <2>2 DEF RoundTable
<1>7. RoundTable(h, n, Len(P))
  BY <1>2, <1>5, <1>6
<1> QED
  BY <1>2, <1>7 DEF P, n, h

(* The first step of what is left of a round, and the one after it. *)
LEMMA RoundOrder ==
    ASSUME TypeOK, Remains(todo, RoundSteps(round))
    PROVE  /\ Len(RoundSteps(round)) \in {9, 10} /\ Left \in Nat /\ todo # <<>>
           /\ Left >= 1 /\ Left <= Len(RoundSteps(round))
           /\ RoundTable(Head(todo), Left, Len(RoundSteps(round)))
           /\ Done /\ UNCHANGED round /\ Left > 1 =>
                /\ Left' = Left - 1 /\ Remains(todo, RoundSteps(round))'
                /\ RoundTable(Head(todo'), Left - 1, Len(RoundSteps(round)))
           /\ UNCHANGED <<todo, round>> =>
                /\ Left' = Left /\ Remains(todo, RoundSteps(round))'
<1> DEFINE P == RoundSteps(round)
<1>1. /\ round \in Nat /\ P \in Seq(StepNames) /\ todo \in Seq(StepNames)
  BY RoundProgram DEF TypeOK
<1>2. /\ Len(P) \in {9, 10} /\ Len(todo) \in Nat /\ Len(todo) >= 1 /\ Len(todo) <= Len(P)
      /\ RoundTable(Head(todo), Len(todo), Len(P))
  BY <1>1, RoundPlace
<1>3. /\ todo # <<>> /\ Tail(todo) \in Seq(StepNames) /\ Len(Tail(todo)) = Len(todo) - 1
      /\ Len(todo) > 1 => Remains(Tail(todo), P)
  BY <1>1, TailRemains
<1>4. Len(todo) > 1 => RoundTable(Head(Tail(todo)), Len(todo) - 1, Len(P))
  BY <1>1, <1>3, RoundPlace
<1> HIDE DEF P
<1>5. ASSUME Done, UNCHANGED round, Left > 1
      PROVE  /\ Left' = Left - 1 /\ Remains(todo, RoundSteps(round))'
             /\ RoundTable(Head(todo'), Left - 1, Len(P))
  <2>1. todo' = Tail(todo) /\ Len(todo) > 1
    BY <1>5 DEF Done, Left
  <2>2. Remains(Tail(todo), P) /\ RoundTable(Head(Tail(todo)), Len(todo) - 1, Len(P))
    BY <1>3, <1>4, <2>1
  <2>3. Remains(todo, RoundSteps(round))'
    BY <1>5, <2>1, <2>2 DEF P
  <2> QED
    BY <1>3, <2>1, <2>2, <2>3 DEF Left
<1>6. UNCHANGED <<todo, round>> => Left' = Left /\ Remains(todo, RoundSteps(round))'
  BY DEF Left
<1> QED
  BY <1>2, <1>3, <1>5, <1>6 DEF P, Left

(* The queue without the waiter at a place. *)
LEMMA RemoveAtPlace ==
    ASSUME NEW S, NEW q \in Seq(S), NEW i \in DOMAIN q
    PROVE  /\ RemoveAt(q, i) \in Seq(S) /\ Len(RemoveAt(q, i)) = Len(q) - 1
           /\ \A j \in 1..(Len(q) - 1) : RemoveAt(q, i)[j] = IF j < i THEN q[j] ELSE q[j + 1]
<1> DEFINE a == SubSeq(q, 1, i - 1)
           b == SubSeq(q, i + 1, Len(q))
<1>1. Len(q) \in Nat /\ i \in 1..Len(q)
  OBVIOUS
<1>2. a \in Seq(S) /\ Len(a) = i - 1 /\ \A j \in 1..(i - 1) : a[j] = q[j]
  BY <1>1
<1>3. b \in Seq(S) /\ Len(b) = Len(q) - i /\ \A j \in 1..(Len(q) - i) : b[j] = q[i + j]
  BY <1>1
<1> HIDE DEF a, b
<1>4. a \o b \in Seq(S) /\ Len(a \o b) = Len(q) - 1
  BY <1>1, <1>2, <1>3
<1>5. \A j \in 1..(Len(q) - 1) : (a \o b)[j] = IF j < i THEN q[j] ELSE q[j + 1]
  BY <1>1, <1>2, <1>3
<1> QED
  BY <1>4, <1>5 DEF RemoveAt, a, b
-----------------------------------------------------------------------------
(* What assertLeaseAdmissions finds out. *)

(* What the proofs use of the constants. *)
LEMMA Bounds ==
    /\ Operations \in Nat /\ Operations > 0 /\ Rounds \in Nat
    /\ \A k : k \in 0..(Operations - 1) <=> k \in Nat /\ k < Operations
    /\ IsFiniteSet(Clients) /\ Clients # {}
    /\ Clients \subseteq Participants
    /\ "owner" \in Participants /\ "waiter" \in Participants /\ "main" \in Participants
    /\ "owner" \notin Clients /\ "waiter" \notin Clients /\ "main" \notin Clients
    /\ "none" \notin Participants
    /\ \A p \in Clients : OperationsOf(p) = Operations
    /\ OperationsOf("owner") = 1 /\ OperationsOf("waiter") = 1
    /\ \A p : OperationsOf(p) \in Nat /\ OperationsOf(p) > 0
<1>1. /\ Operations \in Nat /\ Operations > 0 /\ Rounds \in Nat
      /\ \A k : k \in 0..(Operations - 1) <=> k \in Nat /\ k < Operations
  BY BoundsAssumption
<1>2. Clients \cap {"owner", "waiter", "main", "none"} = {}
  BY ClientsAssumption
<1>3. /\ IsFiniteSet(Clients) /\ Clients # {}
  BY ClientsAssumption
<1>4. /\ "owner" \notin Clients /\ "waiter" \notin Clients /\ "main" \notin Clients
      /\ "none" \notin Clients
  BY <1>2
<1> QED
  BY <1>1, <1>3, <1>4 DEF Participants, OperationsOf

(* Participants are finitely many. *)
LEMMA ParticipantsAreFinite == IsFiniteSet(Participants)
<1>1. IsFiniteSet({"owner", "waiter", "main"})
  <2>1. {"owner", "waiter", "main"} = (({} \cup {"owner"}) \cup {"waiter"}) \cup {"main"}
    OBVIOUS
  <2>2. IsFiniteSet({} \cup {"owner"})
    BY FS_EmptySet, FS_AddElement
  <2>3. IsFiniteSet(({} \cup {"owner"}) \cup {"waiter"})
    BY <2>2, FS_AddElement
  <2>4. IsFiniteSet((({} \cup {"owner"}) \cup {"waiter"}) \cup {"main"})
    BY <2>3, FS_AddElement
  <2> QED
    BY <2>1, <2>4
<1> QED
  BY <1>1, Bounds, FS_Union DEF Participants

(* As many tokens as admissions: no token was given twice. *)
LEMMA AcceptedHasUniqueTokens ==
    ASSUME IsFiniteSet(admissions), LeaseAdmissionsAccepted(admissions)
    PROVE  \A a, b \in admissions : a.token = b.token => a = b
<1> DEFINE T == {a.token : a \in admissions}
           f == [a \in admissions |-> a.token]
<1>1. Cardinality(T) = Cardinality(admissions)
  BY DEF LeaseAdmissionsAccepted
<1>2. f \in Surjection(admissions, T)
  BY DEF Surjection
<1>3. f \in Injection(admissions, T)
  BY <1>1, <1>2, FS_Surjection
<1> QED
  BY <1>3 DEF Injection, IsInjective

(* The contenders that have done all of their critical sections, each under a
   token of its own, are accepted. *)
LEMMA CompleteIsAccepted ==
    ASSUME TypeOK, RolesInv, TurnsInv, AdmissionsInv, Left = 8,
           \A p \in Clients : client[p] = "done",
           \A a, b \in admissions : a.token = b.token => a = b
    PROVE  LeaseAdmissionsAccepted(admissions)
<1> USE Bounds
<1> DEFINE Turns == Clients \X (0..(Operations - 1))
           T == {a.token : a \in admissions}
           f == [a \in admissions |-> a.token]
           g == [a \in admissions |-> <<a.participant, a.sequence>>]
<1>1. \A a \in admissions : a.participant \in Participants /\ a.sequence \in Nat
  BY DEF TypeOK, Admissions
<1>2. \A p \in Participants \ Clients : client[p] = "none" /\ sequence[p] = 0
  BY DEF RolesInv, TurnsInv, Participants
<1>3. \A p \in Clients : sequence[p] = Operations
  BY DEF TurnsInv
<1>4. \A p \in Participants, k \in Nat : Been(p, k) <=> p \in Clients /\ k < Operations
  BY <1>2, <1>3 DEF Been, Inside
<1>5. \A a \in admissions : a.participant \in Clients /\ a.sequence \in 0..(Operations - 1)
  BY <1>1, <1>4 DEF AdmissionsInv
<1>6. \A p \in Clients, k \in 0..(Operations - 1) :
          \E a \in admissions : a.participant = p /\ a.sequence = k
  BY <1>4 DEF AdmissionsInv
<1>7. Cardinality(T) = Cardinality(admissions)
  <2>1. f \in Surjection(admissions, T) /\ f \in Injection(admissions, T)
    BY DEF Surjection, Injection, IsInjective
  <2> QED
    BY <2>1, FS_Surjection DEF TypeOK
<1>8. Cardinality(admissions) = Cardinality(Clients) * Operations
  <2>1. g \in [admissions -> Turns]
    BY <1>5
  <2>2. g \in Surjection(admissions, Turns)
    <3>1. ASSUME NEW t \in Turns PROVE \E a \in admissions : g[a] = t
      <4>1. t[1] \in Clients /\ t[2] \in 0..(Operations - 1) /\ t = <<t[1], t[2]>>
        BY <3>1
      <4>2. PICK a \in admissions : a.participant = t[1] /\ a.sequence = t[2]
        BY <1>6, <4>1
      <4> QED
        BY <4>1, <4>2
    <3> QED
      BY <2>1, <3>1 DEF Surjection
  <2>3. g \in Injection(admissions, Turns)
    BY <2>1 DEF Injection, IsInjective, AdmissionsInv
  <2>4. Cardinality(Turns) = Cardinality(admissions)
    BY <2>2, <2>3, FS_Surjection DEF TypeOK
  <2>5. IsFiniteSet(0..(Operations - 1)) /\ Cardinality(0..(Operations - 1)) = Operations
    BY FS_Interval
  <2>6. Cardinality(Turns) = Cardinality(Clients) * Cardinality(0..(Operations - 1))
    BY <2>5, FS_Product
  <2> QED
    BY <2>4, <2>5, <2>6
<1>9. {a.participant : a \in admissions} = Clients
  <2>1. 0 \in 0..(Operations - 1)
    OBVIOUS
  <2> QED
    BY <1>5, <1>6, <2>1
<1>10. \A p \in Clients :
          {a.sequence : a \in {b \in admissions : b.participant = p}} = 0..(Operations - 1)
  BY <1>5, <1>6
<1> QED
  BY <1>7, <1>8, <1>9, <1>10 DEF LeaseAdmissionsAccepted
-----------------------------------------------------------------------------
(* The steps of a run. *)

ContentionDriver ==
    \/ Contend \/ StartRole("startOwner", "owner") \/ AwaitEntered
    \/ StartRole("startWaiter", "waiter") \/ AwaitReady \/ KillOwner \/ FinishWaiter \/ Probe

RoundDriver ==
    \/ AcquireNow("acquire") \/ AcquireNow("replace") \/ ConnectWaiters
    \/ AwaitDepth("awaitDepth", Cardinality(Clients)) \/ AwaitDepth("awaitEmpty", 0)
    \/ (\E p \in Clients : CloseWaiter(p)) \/ Release \/ AllClosed \/ Settle \/ EndRound

(* Init establishes the inductive invariant. *)
LEMMA InitIInv == Init => IInv
<1> SUFFICES ASSUME Init PROVE IInv
  OBVIOUS
<1>1. scenario \in {"contention", "waiter-races"}
  BY ScenariosAssumption DEF Init
<1>2. todo = Program /\ Program \in Seq(StepNames) /\ Len(Program) \in Nat /\ Len(Program) >= 8
  <2> DEFINE P == RoundSteps(0)
  <2>1. P \in Seq(StepNames) /\ Len(P) \in Nat /\ Len(P) >= 9
    BY RoundProgram
  <2>2. CASE scenario = "contention"
    <3>1. todo = ContentionSteps /\ Program = ContentionSteps
      BY <2>2 DEF Init, Program
    <3> QED
      BY <3>1, ContentionProgram
  <2>3. CASE scenario = "waiter-races"
    <3>1. todo = P /\ Program = P
      BY <2>3 DEF Init, Program
    <3> HIDE DEF P
    <3>2. Len(P) \in Nat /\ Len(P) >= 8
      BY <2>1
    <3> QED
      BY <2>1, <3>1, <3>2, Zenon
  <2> QED
    BY <1>1, <2>2, <2>3
<1> USE Bounds
<1>3. Remains(todo, Program)
  BY <1>2 DEF Remains
<1>4. TypeOK
  <2>1. todo \in Seq(StepNames) /\ round \in Nat /\ waiters \in Seq(Participants) /\ token \in Nat
    BY <1>2 DEF Init
  <2>2. /\ client \in [Participants -> ClientStates] /\ sequence \in [Participants -> Nat]
        /\ reply \in [Participants -> Nat]
    BY DEF Init, ClientStates
  <2> QED
    BY <1>1, <2>1, <2>2, FS_EmptySet DEF Init, TypeOK
<1>5. scenario = "contention" => Left = 8 /\ ContentionInv
  <2> SUFFICES ASSUME scenario = "contention" PROVE Left = 8 /\ ContentionInv
    OBVIOUS
  <2>1. Left = 8
    BY <1>2, ContentionProgram DEF Left, Program
  <2>2. /\ \A p \in Clients : client[p] = "idle"
        /\ \A p \in Participants \ Clients : client[p] = "none"
        /\ \A p \in Participants : sequence[p] = 0 /\ reply[p] = 0
    BY DEF Init
  <2>3. RolesInv
    BY <2>1, <2>2 DEF RolesInv
  <2>4. TurnsInv /\ AdmissionsInv
    BY <2>2 DEF Init, TurnsInv, AdmissionsInv, Been, Inside
  <2>5. FencedInv
    BY <2>1 DEF Init, FencedInv
  <2>6. ExclusiveInv /\ TokensInv
    <3>1. Len(waiters) = 0 /\ holder = "none" /\ arriving = {} /\ admissions = {} /\ retained = {}
      BY DEF Init
    <3>2. \A p \in Participants : client[p] \in {"idle", "none"}
      BY <2>2
    <3> QED
      BY <2>2, <3>1, <3>2 DEF ExclusiveInv, GrantInv, QueueInv, TokensInv
  <2> QED
    BY <2>1, <2>3, <2>4, <2>5, <2>6 DEF ContentionInv
<1>6. scenario = "waiter-races" => RoundInv
  <2> SUFFICES ASSUME scenario = "waiter-races" PROVE RoundInv
    OBVIOUS
  <2>1. Head(todo) = "acquire" /\ Left >= 9
    <3> DEFINE P == RoundSteps(0)
    <3>1. todo = P
      BY DEF Init
    <3>2. /\ P \in Seq(StepNames) /\ Len(P) \in Nat /\ Len(P) >= 9 /\ P[1] = "acquire"
      BY RoundProgram
    <3> HIDE DEF P
    <3>3. Head(P) = P[1] /\ Len(P) >= 9
      BY <3>2
    <3>4. Head(todo) = Head(P) /\ Len(todo) = Len(P)
      BY <3>1, Zenon
    <3> QED
      BY <3>2, <3>3, <3>4 DEF Left
  <2> QED
    BY <2>1 DEF Init, RoundInv, RoundClients, RoundQueue, RoundHolder
<1>7. Verdict
  BY DEF Init, Verdict, NoFalseAlarm, AcceptedIsReleased, AcceptedIsFenced
<1> QED
  BY <1>3, <1>4, <1>5, <1>6, <1>7 DEF IInv

(* The driver takes the steps of its own scenario. *)
LEMMA ContentionMoves ==
    ASSUME IInv, scenario = "contention", Next
    PROVE  /\ TypeOK /\ outcome = "none" /\ Remains(todo, ContentionSteps) /\ ContentionInv
           /\ ContentionDriver \/ Others \/ DeadlinePasses
<1>1. TypeOK /\ outcome = "none" /\ Remains(todo, ContentionSteps) /\ ContentionInv
  BY DEF IInv, Next, Program
<1>2. Head(todo) \in {"contend", "startOwner", "awaitEntered", "startWaiter", "awaitReady",
                      "killOwner", "finishWaiter", "probe"}
  <2>1. /\ Left \in {1, 2, 3, 4, 5, 6, 7, 8}
    BY <1>1, ContentionOrder
  <2> QED
    BY <1>1, <2>1, ContentionOrder
<1>3. ~RoundDriver
  BY <1>2 DEF RoundDriver, AcquireNow, ConnectWaiters, AwaitDepth, CloseWaiter, Release,
              AllClosed, Settle, EndRound, At
<1>4. Driver => ContentionDriver \/ RoundDriver
  BY DEF Driver, ContentionDriver, RoundDriver
<1> QED
  BY <1>1, <1>3, <1>4 DEF Next

(* So does the driver of the waiter races. *)
LEMMA RoundMoves ==
    ASSUME IInv, scenario = "waiter-races", Next
    PROVE  /\ TypeOK /\ outcome = "none" /\ Remains(todo, RoundSteps(round)) /\ RoundInv
           /\ RoundDriver \/ Others \/ DeadlinePasses
<1>1. TypeOK /\ outcome = "none" /\ Remains(todo, RoundSteps(round)) /\ RoundInv
  BY DEF IInv, Next, Program
<1>2. Head(todo) \notin {"contend", "startOwner", "awaitEntered", "startWaiter", "awaitReady",
                         "killOwner", "finishWaiter", "probe"}
  <2> DEFINE h == Head(todo)
             l == Len(RoundSteps(round))
  <2>1. l \in {9, 10} /\ Left \in Nat /\ Left >= 1 /\ Left <= l /\ RoundTable(h, Left, l)
    BY <1>1, RoundOrder
  <2> HIDE DEF h, l
  <2>2. h \in {"acquire", "connect", "awaitDepth", "close", "closeAndRelease", "release",
               "settle", "awaitEmpty", "replace", "endRound"}
    <3>1. CASE l = 10
      <4>1. Left \in 1..10
        BY <2>1, <3>1
      <4>2. Left \in {1, 2, 3, 4, 5, 6, 7, 8, 9, 10}
        BY <4>1
      <4> QED
        BY <2>1, <3>1, <4>2 DEF RoundTable
    <3>2. CASE l = 9
      <4>1. Left \in 1..9
        BY <2>1, <3>2
      <4>2. Left \in {1, 2, 3, 4, 5, 6, 7, 8, 9}
        BY <4>1
      <4> QED
        BY <2>1, <3>2, <4>2 DEF RoundTable
    <3> QED
      BY <2>1, <3>1, <3>2
  <2> QED
    BY <2>2 DEF h
<1>3. ~ContentionDriver
  BY <1>2 DEF ContentionDriver, Contend, StartRole, AwaitEntered, AwaitReady, KillOwner,
              FinishWaiter, Probe, At
<1>4. Driver => ContentionDriver \/ RoundDriver
  BY DEF Driver, ContentionDriver, RoundDriver
<1> QED
  BY <1>1, <1>3, <1>4 DEF Next

(* Every step keeps the types. *)
LEMMA NextTypeOK == IInv /\ [Next]_vars => TypeOK'
<1> SUFFICES ASSUME IInv, [Next]_vars PROVE TypeOK'
  OBVIOUS
<1> USE Bounds
<1>a. TypeOK
  BY DEF IInv
<1>b. outcome = "none" => todo # <<>> /\ Tail(todo) \in Seq(StepNames)
  <2>1. CASE outcome = "none" /\ scenario = "contention"
    BY <1>a, <2>1, TailRemains, ContentionProgram DEF IInv, TypeOK, Program
  <2>2. CASE outcome = "none" /\ scenario = "waiter-races"
    BY <1>a, <2>2, TailRemains, RoundProgram DEF IInv, TypeOK, Program
  <2> QED
    BY <1>a, <2>1, <2>2 DEF TypeOK
<1>c. \A p \in Participants, s \in ClientStates :
        [client EXCEPT ![p] = s] \in [Participants -> ClientStates]
  BY <1>a DEF TypeOK
<1>d. /\ "starting" \in ClientStates /\ "idle" \in ClientStates /\ "acquiring" \in ClientStates
      /\ "entered" \in ClientStates /\ "done" \in ClientStates /\ "failed" \in ClientStates
      /\ "killed" \in ClientStates /\ "closed" \in ClientStates
  BY DEF ClientStates
<1>e. waiters # <<>> => /\ Head(waiters) \in Participants /\ Tail(waiters) \in Seq(Participants)
  BY <1>a DEF TypeOK
<1>1. ASSUME Contend PROVE TypeOK'
  BY <1>1, <1>a, <1>b, <1>c, <1>d
     DEF Contend, TypeOK, driverVars, clientVars, brokerVars, At, Done
<1>2. ASSUME StartRole("startOwner", "owner") PROVE TypeOK'
  BY <1>2, <1>a, <1>b, <1>c, <1>d
     DEF StartRole, TypeOK, driverVars, clientVars, brokerVars, At, Done
<1>3. ASSUME AwaitEntered PROVE TypeOK'
  BY <1>3, <1>a, <1>b, <1>c, <1>d
     DEF AwaitEntered, TypeOK, driverVars, clientVars, brokerVars, At, Done
<1>4. ASSUME StartRole("startWaiter", "waiter") PROVE TypeOK'
  BY <1>4, <1>a, <1>b, <1>c, <1>d
     DEF StartRole, TypeOK, driverVars, clientVars, brokerVars, At, Done
<1>5. ASSUME AwaitReady PROVE TypeOK'
  BY <1>5, <1>a, <1>b, <1>c, <1>d
     DEF AwaitReady, TypeOK, driverVars, clientVars, brokerVars, At, Done
<1>6. ASSUME KillOwner PROVE TypeOK'
  BY <1>6, <1>a, <1>b, <1>c, <1>d
     DEF KillOwner, TypeOK, driverVars, clientVars, brokerVars, At, Done
<1>7. ASSUME FinishWaiter PROVE TypeOK'
  BY <1>7, <1>a, <1>b, <1>c, <1>d
     DEF FinishWaiter, TypeOK, driverVars, clientVars, brokerVars, At, Done
<1>8. ASSUME Probe PROVE TypeOK'
  BY <1>8, <1>a, <1>b, <1>c, <1>d DEF Probe, TypeOK, driverVars, clientVars, brokerVars, At, Done
<1>9. ASSUME NEW p \in Participants, ClientConnects(p) PROVE TypeOK'
  BY <1>9, <1>a, <1>b, <1>c, <1>d
     DEF ClientConnects, TypeOK, driverVars, clientVars, brokerVars, At, Done
<1>10. ASSUME NEW p \in Participants, Acquire(p) PROVE TypeOK'
  BY <1>10, <1>a, <1>b, <1>c, <1>d
     DEF Acquire, TypeOK, driverVars, clientVars, brokerVars, At, Done
<1>11. ASSUME NEW p \in Participants, Enter(p) PROVE TypeOK'
  <2>1. /\ client' = [client EXCEPT ![p] = "entered"] /\ reply' = [reply EXCEPT ![p] = 0]
        /\ UNCHANGED <<driverVars, sequence, holder, waiters, token, arriving, retained,
                       misbehaved>>
    BY <1>11 DEF Enter
  <2>2. /\ client' \in [Participants -> ClientStates] /\ reply' \in [Participants -> Nat]
    BY <1>a, <1>c, <1>d, <2>1 DEF TypeOK
  <2>3. lucky' \in BOOLEAN /\ fulfilled' \in SUBSET Participants
    BY <1>a, <1>11 DEF Enter, TypeOK
  <2>4. admissions' \in SUBSET Admissions /\ IsFiniteSet(admissions')
    <3> DEFINE x == [participant |-> p, sequence |-> sequence[p], token |-> reply[p]]
    <3>1. x \in Admissions
      BY <1>a DEF TypeOK, Admissions
    <3>2. IsFiniteSet(admissions \cup {x})
      BY <1>a, FS_AddElement DEF TypeOK
    <3>3. admissions' = admissions \cup {x} \/ admissions' = admissions
      BY <1>11 DEF Enter
    <3> HIDE DEF x
    <3> QED
      BY <1>a, <3>1, <3>2, <3>3 DEF TypeOK
  <2> QED
    BY <1>a, <2>1, <2>2, <2>3, <2>4 DEF TypeOK, driverVars
<1>12. ASSUME NEW p \in Participants, Leave(p) PROVE TypeOK'
  <2>1. /\ client' = [client EXCEPT ![p] = "idle"] /\ sequence' = [sequence EXCEPT ![p] = @ + 1]
        /\ UNCHANGED <<driverVars, admissions, fulfilled, waiters, token, arriving, reply, lucky>>
    BY <1>12 DEF Leave
  <2>2. sequence[p] + 1 \in Nat
    BY <1>a DEF TypeOK
  <2>3. sequence' \in [Participants -> Nat] /\ client' \in [Participants -> ClientStates]
    BY <1>a, <1>c, <1>d, <2>1, <2>2 DEF TypeOK
  <2>4. /\ holder' \in Participants \cup {"none"} /\ retained' \in SUBSET Participants
        /\ misbehaved' \in BOOLEAN
    BY <1>a, <1>12 DEF Leave, TypeOK
  <2> QED
    BY <1>a, <2>1, <2>3, <2>4 DEF TypeOK, driverVars
<1>13. ASSUME NEW p \in Participants, ClientExits(p) PROVE TypeOK'
  BY <1>13, <1>a, <1>b, <1>c, <1>d
     DEF ClientExits, TypeOK, driverVars, clientVars, brokerVars, At, Done
<1>14. ASSUME NEW p \in Participants, AcquireTimesOut(p) PROVE TypeOK'
  BY <1>14, <1>a, <1>b, <1>c, <1>d
     DEF AcquireTimesOut, TypeOK, driverVars, clientVars, brokerVars, At, Done
<1>15. ASSUME NEW p \in Participants, BrokerReceives(p) PROVE TypeOK'
  <2>1. waiters' \in Seq(Participants) /\ arriving' \in SUBSET Participants
    <3>1. waiters' = Append(waiters, p) /\ arriving' = arriving \ {p}
      BY <1>15 DEF BrokerReceives
    <3>2. Append(waiters, p) \in Seq(Participants)
      BY <1>a DEF TypeOK
    <3> QED
      BY <1>a, <3>1, <3>2 DEF TypeOK
  <2> QED
    BY <1>a, <1>15, <2>1 DEF BrokerReceives, TypeOK, driverVars, clientVars
<1>16. ASSUME NEW p \in Participants, BrokerNotices(p) PROVE TypeOK'
  <2>1. waiters' \in Seq(Participants)
    BY <1>a, <1>16, RemoveAtPlace DEF BrokerNotices, TypeOK
  <2>2. holder' \in Participants \cup {"none"} /\ retained' \in SUBSET Participants
    BY <1>a, <1>16 DEF BrokerNotices, TypeOK
  <2>3. misbehaved' \in BOOLEAN
    BY <1>a, <1>16 DEF BrokerNotices, TypeOK
  <2>4. UNCHANGED <<driverVars, clientVars, token, arriving, reply, lucky>>
    BY <1>16 DEF BrokerNotices
  <2> QED
    BY <1>a, <2>1, <2>2, <2>3, <2>4 DEF TypeOK, driverVars, clientVars
<1>17. ASSUME BrokerGrants PROVE TypeOK'
  <2>1. /\ Head(waiters) \in Participants /\ Tail(waiters) \in Seq(Participants)
        /\ holder' = Head(waiters) /\ waiters' = Tail(waiters)
        /\ UNCHANGED <<driverVars, clientVars, arriving, retained, lucky>>
    BY <1>e, <1>17 DEF BrokerGrants
  <2>2. /\ token' \in Nat /\ misbehaved' \in BOOLEAN /\ reply' \in [Participants -> Nat]
    <3>1. token \in Nat /\ token + 1 \in Nat /\ \A old \in 1..token : old \in Nat
      BY <1>a DEF TypeOK
    <3>2. \E v \in Nat : reply' = [reply EXCEPT ![Head(waiters)] = v]
      BY <1>17, <3>1, Zenon DEF BrokerGrants
    <3>3. reply' \in [Participants -> Nat]
      BY <1>a, <2>1, <3>2 DEF TypeOK
    <3>4. token' \in Nat /\ misbehaved' \in BOOLEAN
      BY <1>a, <1>17, <3>1 DEF BrokerGrants, TypeOK
    <3> QED
      BY <3>3, <3>4
  <2> QED
    BY <1>a, <2>1, <2>2 DEF TypeOK, driverVars, clientVars
<1>18. ASSUME AcquireNow("acquire") PROVE TypeOK'
  <2>1. token' \in Nat /\ todo' \in Seq(StepNames)
    <3>1. token + 1 \in Nat
      BY <1>a DEF TypeOK
    <3> QED
      BY <1>a, <1>b, <1>18, <3>1 DEF AcquireNow, At, Done, TypeOK
  <2>2. /\ holder' \in Participants \cup {"none"}
        /\ outcome' \in {"none", "passed", "rejected", "timeout"}
    BY <1>a, <1>18 DEF AcquireNow, TypeOK
  <2> QED
    BY <1>a, <1>18, <2>1, <2>2 DEF AcquireNow, TypeOK, clientVars
<1>19. ASSUME AcquireNow("replace") PROVE TypeOK'
  <2>1. token' \in Nat /\ todo' \in Seq(StepNames)
    <3>1. token + 1 \in Nat
      BY <1>a DEF TypeOK
    <3> QED
      BY <1>a, <1>b, <1>19, <3>1 DEF AcquireNow, At, Done, TypeOK
  <2>2. /\ holder' \in Participants \cup {"none"}
        /\ outcome' \in {"none", "passed", "rejected", "timeout"}
    BY <1>a, <1>19 DEF AcquireNow, TypeOK
  <2> QED
    BY <1>a, <1>19, <2>1, <2>2 DEF AcquireNow, TypeOK, clientVars
<1>20. ASSUME ConnectWaiters PROVE TypeOK'
  BY <1>20, <1>a, <1>b, <1>c, <1>d
     DEF ConnectWaiters, TypeOK, driverVars, clientVars, brokerVars, At, Done
<1>21. ASSUME AwaitDepth("awaitDepth", Cardinality(Clients)) PROVE TypeOK'
  BY <1>21, <1>a, <1>b, <1>c, <1>d
     DEF AwaitDepth, TypeOK, driverVars, clientVars, brokerVars, At, Done
<1>22. ASSUME AwaitDepth("awaitEmpty", 0) PROVE TypeOK'
  BY <1>22, <1>a, <1>b, <1>c, <1>d
     DEF AwaitDepth, TypeOK, driverVars, clientVars, brokerVars, At, Done
<1>23. ASSUME NEW p \in Clients, CloseWaiter(p) PROVE TypeOK'
  BY <1>23, <1>a, <1>b, <1>c, <1>d
     DEF CloseWaiter, TypeOK, driverVars, clientVars, brokerVars, At, Done
<1>24. ASSUME Release PROVE TypeOK'
  BY <1>24, <1>a, <1>b, <1>c, <1>d
     DEF Release, TypeOK, driverVars, clientVars, brokerVars, At, Done
<1>25. ASSUME AllClosed PROVE TypeOK'
  BY <1>25, <1>a, <1>b, <1>c, <1>d
     DEF AllClosed, TypeOK, driverVars, clientVars, brokerVars, At, Done
<1>26. ASSUME Settle PROVE TypeOK'
  <2>1. Cardinality(fulfilled) \in Nat
    BY <1>a, ParticipantsAreFinite, FS_Subset, FS_CardinalityType DEF TypeOK
  <2>2. ghosts' \in Nat
    <3>1. ghosts' = ghosts + Cardinality(fulfilled) /\ ghosts \in Nat
      BY <1>a, <1>26 DEF Settle, TypeOK
    <3> QED
      BY <2>1, <3>1
  <2>3. todo' \in Seq(StepNames)
    BY <1>a, <1>b, <1>26 DEF Settle, At, Done
  <2> QED
    BY <1>a, <1>26, <2>2, <2>3 DEF Settle, TypeOK, clientVars, brokerVars
<1>27. ASSUME EndRound PROVE TypeOK'
  <2>1. todo' \in Seq(StepNames) /\ round' \in Nat
    <3>1. round + 1 \in Nat
      BY <1>a DEF TypeOK
    <3>2. RoundSteps(round + 1) \in Seq(StepNames)
      BY <3>1, RoundProgram
    <3> QED
      BY <1>a, <1>27, <3>1, <3>2 DEF EndRound, TypeOK
  <2>2. outcome' \in {"none", "passed", "rejected", "timeout"}
    BY <1>a, <1>27 DEF EndRound, TypeOK
  <2> QED
    BY <1>a, <1>27, <2>1, <2>2 DEF EndRound, TypeOK, clientVars, brokerVars
<1>28. ASSUME DeadlinePasses PROVE TypeOK'
  BY <1>28, <1>a, <1>b, <1>c, <1>d
     DEF DeadlinePasses, TypeOK, driverVars, clientVars, brokerVars, At, Done
<1>29. ASSUME UNCHANGED vars PROVE TypeOK'
  BY <1>29, <1>a DEF vars, TypeOK, driverVars, clientVars, brokerVars
<1> QED
  BY <1>1, <1>2, <1>3, <1>4, <1>5, <1>6, <1>7, <1>8, <1>9, <1>10, <1>11, <1>12, <1>13, <1>14,
     <1>15, <1>16, <1>17, <1>18, <1>19, <1>20, <1>21, <1>22, <1>23, <1>24, <1>25, <1>26, <1>27,
     <1>28, <1>29
     DEF Next, Driver, Others

(* Roles come and go with the steps of the driver. *)
LEMMA ContentionRoles ==
    ASSUME IInv, scenario = "contention", Next, outcome' = "none"
    PROVE  RolesInv'
<1> USE Bounds
<1>a. TypeOK /\ outcome = "none" /\ Remains(todo, ContentionSteps) /\ RolesInv /\ TurnsInv
  BY ContentionMoves DEF ContentionInv
<1>1. ASSUME Contend PROVE RolesInv'
  <2>1. Left = 8 /\ Left' = 7
    BY <1>1, <1>a, ContentionOrder DEF Contend, At
  <2> QED
    BY <1>1, <2>1, <1>a DEF Contend, TypeOK, RolesInv, clientVars
<1>2. ASSUME StartRole("startOwner", "owner") PROVE RolesInv'
  <2>1. Left = 7 /\ Left' = 6
    BY <1>2, <1>a, ContentionOrder DEF StartRole, At
  <2> QED
    BY <1>2, <2>1, <1>a DEF StartRole, TypeOK, RolesInv, clientVars
<1>3. ASSUME AwaitEntered PROVE RolesInv'
  <2>1. Left = 6 /\ Left' = 5
    BY <1>3, <1>a, ContentionOrder DEF AwaitEntered, At
  <2> QED
    BY <1>3, <2>1, <1>a DEF AwaitEntered, TypeOK, RolesInv, clientVars
<1>4. ASSUME StartRole("startWaiter", "waiter") PROVE RolesInv'
  <2>1. Left = 5 /\ Left' = 4
    BY <1>4, <1>a, ContentionOrder DEF StartRole, At
  <2> QED
    BY <1>4, <2>1, <1>a DEF StartRole, TypeOK, RolesInv, clientVars
<1>5. ASSUME AwaitReady PROVE RolesInv'
  <2>1. Left = 4 /\ Left' = 3
    BY <1>5, <1>a, ContentionOrder DEF AwaitReady, At
  <2> QED
    BY <1>5, <2>1, <1>a DEF AwaitReady, TypeOK, RolesInv, clientVars
<1>6. ASSUME KillOwner PROVE RolesInv'
  <2>1. Left = 3 /\ Left' = 2
    BY <1>6, <1>a, ContentionOrder DEF KillOwner, At
  <2> QED
    BY <1>6, <2>1, <1>a DEF KillOwner, TypeOK, RolesInv, clientVars
<1>7. ASSUME FinishWaiter PROVE RolesInv'
  <2>1. Left = 2 /\ Left' = 1
    BY <1>7, <1>a, ContentionOrder DEF FinishWaiter, At
  <2> QED
    BY <1>7, <2>1, <1>a DEF FinishWaiter, TypeOK, RolesInv, clientVars
<1>8. ASSUME Probe PROVE RolesInv'
  BY <1>8 DEF Probe
<1>9. ASSUME NEW p \in Participants, ClientConnects(p) PROVE RolesInv'
  <2>1. Left' = Left
    BY <1>9, <1>a, ContentionOrder DEF ClientConnects, driverVars
  <2> QED
    BY <1>9, <2>1, <1>a DEF ClientConnects, TypeOK, RolesInv, clientVars
<1>10. ASSUME NEW p \in Participants, Acquire(p) PROVE RolesInv'
  <2>1. Left' = Left
    BY <1>10, <1>a, ContentionOrder DEF Acquire, driverVars
  <2> QED
    BY <1>10, <2>1, <1>a DEF Acquire, TypeOK, RolesInv, clientVars
<1>11. ASSUME NEW p \in Participants, Enter(p) PROVE RolesInv'
  <2>1. Left' = Left
    BY <1>11, <1>a, ContentionOrder DEF Enter, driverVars
  <2> QED
    BY <1>11, <2>1, <1>a DEF Enter, TypeOK, RolesInv, clientVars
<1>12. ASSUME NEW p \in Participants, Leave(p) PROVE RolesInv'
  <2>1. Left' = Left
    BY <1>12, <1>a, ContentionOrder DEF Leave, driverVars
  <2> QED
    BY <1>12, <2>1, <1>a DEF Leave, TypeOK, RolesInv, clientVars
<1>13. ASSUME NEW p \in Participants, ClientExits(p) PROVE RolesInv'
  <2>1. Left' = Left
    BY <1>13, <1>a, ContentionOrder DEF ClientExits, driverVars
  <2>2. p # "owner"
    BY <1>13, <1>a DEF ClientExits, RolesInv
  <2> QED
    BY <1>13, <1>a, <2>1, <2>2 DEF ClientExits, TypeOK, RolesInv
<1>14. ASSUME NEW p \in Participants, AcquireTimesOut(p) PROVE RolesInv'
  <2>1. Left' = Left
    BY <1>14, <1>a, ContentionOrder DEF AcquireTimesOut, driverVars
  <2> QED
    BY <1>14, <2>1, <1>a DEF AcquireTimesOut, TypeOK, RolesInv, clientVars
<1>15. ASSUME NEW p \in Participants, BrokerReceives(p) PROVE RolesInv'
  <2>1. Left' = Left
    BY <1>15, <1>a, ContentionOrder DEF BrokerReceives, driverVars
  <2> QED
    BY <1>15, <2>1, <1>a DEF BrokerReceives, TypeOK, RolesInv, clientVars
<1>16. ASSUME NEW p \in Participants, BrokerNotices(p) PROVE RolesInv'
  <2>1. Left' = Left
    BY <1>16, <1>a, ContentionOrder DEF BrokerNotices, driverVars
  <2> QED
    BY <1>16, <2>1, <1>a DEF BrokerNotices, TypeOK, RolesInv, clientVars
<1>17. ASSUME BrokerGrants PROVE RolesInv'
  <2>1. Left' = Left
    BY <1>17, <1>a, ContentionOrder DEF BrokerGrants, driverVars
  <2> QED
    BY <1>17, <2>1, <1>a DEF BrokerGrants, TypeOK, RolesInv, clientVars
<1>18. ASSUME DeadlinePasses PROVE RolesInv'
  BY <1>18 DEF DeadlinePasses
<1> QED
  BY ContentionMoves, <1>1, <1>2, <1>3, <1>4, <1>5, <1>6, <1>7, <1>8, <1>9, <1>10, <1>11, <1>12,
     <1>13, <1>14, <1>15, <1>16, <1>17, <1>18
     DEF ContentionDriver, Others

(* A participant takes its turns one after the other. *)
LEMMA ContentionTurns ==
    ASSUME IInv, scenario = "contention", Next, outcome' = "none"
    PROVE  TurnsInv'
<1> USE Bounds
<1>a. TypeOK /\ outcome = "none" /\ Remains(todo, ContentionSteps) /\ RolesInv /\ TurnsInv
  BY ContentionMoves DEF ContentionInv
<1>1. ASSUME Contend PROVE TurnsInv'
  <2>1. Left = 8 /\ Left' = 7
    BY <1>1, <1>a, ContentionOrder DEF Contend, At
  <2> QED
    BY <1>1, <2>1, <1>a DEF Contend, TypeOK, TurnsInv, clientVars
<1>2. ASSUME StartRole("startOwner", "owner") PROVE TurnsInv'
  <2>1. Left = 7 /\ Left' = 6
    BY <1>2, <1>a, ContentionOrder DEF StartRole, At
  <2> QED
    BY <1>2, <2>1, <1>a DEF StartRole, RolesInv, TypeOK, TurnsInv, clientVars
<1>3. ASSUME AwaitEntered PROVE TurnsInv'
  <2>1. Left = 6 /\ Left' = 5
    BY <1>3, <1>a, ContentionOrder DEF AwaitEntered, At
  <2> QED
    BY <1>3, <2>1, <1>a DEF AwaitEntered, TypeOK, TurnsInv, clientVars
<1>4. ASSUME StartRole("startWaiter", "waiter") PROVE TurnsInv'
  <2>1. Left = 5 /\ Left' = 4
    BY <1>4, <1>a, ContentionOrder DEF StartRole, At
  <2> QED
    BY <1>4, <2>1, <1>a DEF StartRole, RolesInv, TypeOK, TurnsInv, clientVars
<1>5. ASSUME AwaitReady PROVE TurnsInv'
  <2>1. Left = 4 /\ Left' = 3
    BY <1>5, <1>a, ContentionOrder DEF AwaitReady, At
  <2> QED
    BY <1>5, <2>1, <1>a DEF AwaitReady, TypeOK, TurnsInv, clientVars
<1>6. ASSUME KillOwner PROVE TurnsInv'
  <2>1. Left = 3 /\ Left' = 2
    BY <1>6, <1>a, ContentionOrder DEF KillOwner, At
  <2> QED
    BY <1>6, <2>1, <1>a DEF KillOwner, RolesInv, TypeOK, TurnsInv, clientVars
<1>7. ASSUME FinishWaiter PROVE TurnsInv'
  <2>1. Left = 2 /\ Left' = 1
    BY <1>7, <1>a, ContentionOrder DEF FinishWaiter, At
  <2> QED
    BY <1>7, <2>1, <1>a DEF FinishWaiter, TypeOK, TurnsInv, clientVars
<1>8. ASSUME Probe PROVE TurnsInv'
  BY <1>8 DEF Probe
<1>9. ASSUME NEW p \in Participants, ClientConnects(p) PROVE TurnsInv'
  <2>1. Left' = Left
    BY <1>9, <1>a, ContentionOrder DEF ClientConnects, driverVars
  <2> QED
    BY <1>9, <2>1, <1>a DEF ClientConnects, TypeOK, TurnsInv, clientVars
<1>10. ASSUME NEW p \in Participants, Acquire(p) PROVE TurnsInv'
  <2>1. Left' = Left
    BY <1>10, <1>a, ContentionOrder DEF Acquire, driverVars
  <2> QED
    BY <1>10, <2>1, <1>a DEF Acquire, TypeOK, TurnsInv, clientVars
<1>11. ASSUME NEW p \in Participants, Enter(p) PROVE TurnsInv'
  <2>1. Left' = Left
    BY <1>11, <1>a, ContentionOrder DEF Enter, driverVars
  <2> QED
    BY <1>11, <2>1, <1>a DEF Enter, TypeOK, TurnsInv, clientVars
<1>12. ASSUME NEW p \in Participants, Leave(p) PROVE TurnsInv'
  <2>1. /\ client' = [client EXCEPT ![p] = "idle"] /\ sequence' = [sequence EXCEPT ![p] = @ + 1]
        /\ client[p] = "entered"
    BY <1>12 DEF Leave
  <2>2. sequence[p] \in Nat /\ sequence[p] < OperationsOf(p) /\ OperationsOf(p) \in Nat
    BY <1>a, <2>1 DEF TypeOK, TurnsInv
  <2>3. sequence[p] + 1 <= OperationsOf(p)
    BY <2>2
  <2>4. sequence'[p] = sequence[p] + 1 /\ client'[p] = "idle"
    BY <1>a, <2>1 DEF TypeOK
  <2>5. \A q \in Participants : q # p => sequence'[q] = sequence[q] /\ client'[q] = client[q]
    BY <1>a, <2>1 DEF TypeOK
  <2> QED
    BY <1>a, <2>3, <2>4, <2>5 DEF TurnsInv, OperationsOf
<1>13. ASSUME NEW p \in Participants, ClientExits(p) PROVE TurnsInv'
  <2>1. Left' = Left
    BY <1>13, <1>a, ContentionOrder DEF ClientExits, driverVars
  <2> QED
    BY <1>13, <2>1, <1>a DEF ClientExits, TypeOK, TurnsInv, clientVars
<1>14. ASSUME NEW p \in Participants, AcquireTimesOut(p) PROVE TurnsInv'
  BY <1>14, <1>a DEF AcquireTimesOut, TypeOK, TurnsInv
<1>15. ASSUME NEW p \in Participants, BrokerReceives(p) PROVE TurnsInv'
  <2>1. Left' = Left
    BY <1>15, <1>a, ContentionOrder DEF BrokerReceives, driverVars
  <2> QED
    BY <1>15, <2>1, <1>a DEF BrokerReceives, TypeOK, TurnsInv, clientVars
<1>16. ASSUME NEW p \in Participants, BrokerNotices(p) PROVE TurnsInv'
  <2>1. Left' = Left
    BY <1>16, <1>a, ContentionOrder DEF BrokerNotices, driverVars
  <2> QED
    BY <1>16, <2>1, <1>a DEF BrokerNotices, TypeOK, TurnsInv, clientVars
<1>17. ASSUME BrokerGrants PROVE TurnsInv'
  <2>1. Left' = Left
    BY <1>17, <1>a, ContentionOrder DEF BrokerGrants, driverVars
  <2> QED
    BY <1>17, <2>1, <1>a DEF BrokerGrants, TypeOK, TurnsInv, clientVars
<1>18. ASSUME DeadlinePasses PROVE TurnsInv'
  BY <1>18 DEF DeadlinePasses
<1> QED
  BY ContentionMoves, <1>1, <1>2, <1>3, <1>4, <1>5, <1>6, <1>7, <1>8, <1>9, <1>10, <1>11, <1>12,
     <1>13, <1>14, <1>15, <1>16, <1>17, <1>18
     DEF ContentionDriver, Others

(* Nothing new is logged when nobody enters. *)
LEMMA SameAdmissions ==
    ASSUME AdmissionsInv, UNCHANGED admissions,
           \A p \in Participants, k \in Nat : Been(p, k)' <=> Been(p, k),
           TypeOK
    PROVE  AdmissionsInv'
<1>1. \A a \in admissions : a.participant \in Participants /\ a.sequence \in Nat
  BY DEF TypeOK, Admissions
<1> QED
  BY <1>1 DEF AdmissionsInv

(* Every critical section is logged once. *)
LEMMA ContentionAdmissions ==
    ASSUME IInv, scenario = "contention", Next, outcome' = "none"
    PROVE  AdmissionsInv'
<1> USE Bounds
<1>a. /\ TypeOK /\ outcome = "none" /\ Remains(todo, ContentionSteps)
      /\ RolesInv /\ TurnsInv /\ AdmissionsInv
  BY ContentionMoves DEF ContentionInv
<1>1. ASSUME Contend PROVE AdmissionsInv'
  <2>1. \A q \in Participants, k \in Nat : Been(q, k)' <=> Been(q, k)
    BY <1>1, <1>a DEF Contend, TypeOK, Been, Inside, clientVars
  <2> QED
    BY <1>1, <1>a, <2>1, SameAdmissions DEF Contend, clientVars
<1>2. ASSUME StartRole("startOwner", "owner") PROVE AdmissionsInv'
  <2>1. client["owner"] = "none"
    BY <1>2, <1>a, ContentionOrder DEF StartRole, At, RolesInv
  <2>2. \A q \in Participants, k \in Nat : Been(q, k)' <=> Been(q, k)
    BY <1>2, <1>a, <2>1 DEF StartRole, TypeOK, Been, Inside
  <2> QED
    BY <1>2, <1>a, <2>2, SameAdmissions DEF StartRole
<1>3. ASSUME AwaitEntered PROVE AdmissionsInv'
  <2>1. \A q \in Participants, k \in Nat : Been(q, k)' <=> Been(q, k)
    BY <1>3, <1>a DEF AwaitEntered, TypeOK, Been, Inside, clientVars
  <2> QED
    BY <1>3, <1>a, <2>1, SameAdmissions DEF AwaitEntered, clientVars
<1>4. ASSUME StartRole("startWaiter", "waiter") PROVE AdmissionsInv'
  <2>1. client["waiter"] = "none"
    BY <1>4, <1>a, ContentionOrder DEF StartRole, At, RolesInv
  <2>2. \A q \in Participants, k \in Nat : Been(q, k)' <=> Been(q, k)
    BY <1>4, <1>a, <2>1 DEF StartRole, TypeOK, Been, Inside
  <2> QED
    BY <1>4, <1>a, <2>2, SameAdmissions DEF StartRole
<1>5. ASSUME AwaitReady PROVE AdmissionsInv'
  <2>1. \A q \in Participants, k \in Nat : Been(q, k)' <=> Been(q, k)
    BY <1>5, <1>a DEF AwaitReady, TypeOK, Been, Inside, clientVars
  <2> QED
    BY <1>5, <1>a, <2>1, SameAdmissions DEF AwaitReady, clientVars
<1>6. ASSUME KillOwner PROVE AdmissionsInv'
  <2>1. client["owner"] = "entered"
    BY <1>6, <1>a, ContentionOrder DEF KillOwner, At, RolesInv
  <2>2. \A q \in Participants, k \in Nat : Been(q, k)' <=> Been(q, k)
    BY <1>6, <1>a, <2>1 DEF KillOwner, TypeOK, Been, Inside
  <2> QED
    BY <1>6, <1>a, <2>2, SameAdmissions DEF KillOwner
<1>7. ASSUME FinishWaiter PROVE AdmissionsInv'
  <2>1. \A q \in Participants, k \in Nat : Been(q, k)' <=> Been(q, k)
    BY <1>7, <1>a DEF FinishWaiter, TypeOK, Been, Inside, clientVars
  <2> QED
    BY <1>7, <1>a, <2>1, SameAdmissions DEF FinishWaiter, clientVars
<1>8. ASSUME Probe PROVE AdmissionsInv'
  BY <1>8 DEF Probe
<1>9. ASSUME NEW p \in Participants, ClientConnects(p) PROVE AdmissionsInv'
  <2>1. \A q \in Participants, k \in Nat : Been(q, k)' <=> Been(q, k)
    BY <1>9, <1>a DEF ClientConnects, TypeOK, Been, Inside, clientVars
  <2> QED
    BY <1>9, <1>a, <2>1, SameAdmissions DEF ClientConnects, clientVars
<1>10. ASSUME NEW p \in Participants, Acquire(p) PROVE AdmissionsInv'
  <2>1. \A q \in Participants, k \in Nat : Been(q, k)' <=> Been(q, k)
    BY <1>10, <1>a DEF Acquire, TypeOK, Been, Inside, clientVars
  <2> QED
    BY <1>10, <1>a, <2>1, SameAdmissions DEF Acquire, clientVars
<1>11. ASSUME NEW p \in Participants, Enter(p) PROVE AdmissionsInv'
  <2> DEFINE x == [participant |-> p, sequence |-> sequence[p], token |-> reply[p]]
  <2>1. /\ client' = [client EXCEPT ![p] = "entered"] /\ UNCHANGED sequence
        /\ client[p] = "acquiring" /\ admissions' = admissions \cup {x}
    BY <1>11 DEF Enter
  <2>2. x.participant = p /\ x.sequence = sequence[p] /\ sequence[p] \in Nat
    BY <1>a DEF TypeOK
  <2>3. \A a \in admissions : a.participant \in Participants /\ a.sequence \in Nat
    BY <1>a DEF TypeOK, Admissions
  <2> HIDE DEF x
  <2>4. \A q \in Participants, k \in Nat :
          Been(q, k)' <=> Been(q, k) \/ (q = p /\ k = sequence[p])
    BY <1>a, <2>1 DEF TypeOK, Been, Inside
  <2>5. ~Been(p, sequence[p])
    BY <2>1, <2>2 DEF Been, Inside
  <2>6. \A a \in admissions : ~(a.participant = p /\ a.sequence = sequence[p])
    BY <1>a, <2>5 DEF AdmissionsInv
  <2>7. \A a \in admissions' : Been(a.participant, a.sequence)'
    BY <1>a, <2>1, <2>2, <2>3, <2>4 DEF AdmissionsInv
  <2>8. \A q \in Participants, k \in Nat :
          Been(q, k)' => \E a \in admissions' : a.participant = q /\ a.sequence = k
    BY <1>a, <2>1, <2>2, <2>4 DEF AdmissionsInv
  <2>9. \A a, b \in admissions' :
          a.participant = b.participant /\ a.sequence = b.sequence => a = b
    BY <1>a, <2>1, <2>2, <2>6 DEF AdmissionsInv
  <2> QED
    BY <2>7, <2>8, <2>9 DEF AdmissionsInv
<1>12. ASSUME NEW p \in Participants, Leave(p) PROVE AdmissionsInv'
  <2>1. /\ client' = [client EXCEPT ![p] = "idle"] /\ sequence' = [sequence EXCEPT ![p] = @ + 1]
        /\ client[p] = "entered" /\ UNCHANGED admissions
    BY <1>12 DEF Leave
  <2>2. sequence[p] \in Nat /\ sequence'[p] = sequence[p] + 1 /\ client'[p] = "idle"
    BY <1>a, <2>1 DEF TypeOK
  <2>3. \A q \in Participants : q # p => sequence'[q] = sequence[q] /\ client'[q] = client[q]
    BY <1>a, <2>1 DEF TypeOK
  <2>4. ASSUME NEW k \in Nat PROVE Been(p, k)' <=> Been(p, k)
    <3>1. Been(p, k)' <=> k < sequence[p] + 1
      BY <2>2 DEF Been, Inside
    <3>2. Been(p, k) <=> k < sequence[p] \/ k = sequence[p]
      BY <2>1 DEF Been, Inside
    <3> QED
      BY <2>2, <3>1, <3>2
  <2>5. \A q \in Participants, k \in Nat : Been(q, k)' <=> Been(q, k)
    BY <2>3, <2>4 DEF Been, Inside
  <2> QED
    BY <1>a, <2>1, <2>5, SameAdmissions
<1>13. ASSUME NEW p \in Participants, ClientExits(p) PROVE AdmissionsInv'
  <2>1. \A q \in Participants, k \in Nat : Been(q, k)' <=> Been(q, k)
    BY <1>13, <1>a DEF ClientExits, TypeOK, Been, Inside, clientVars
  <2> QED
    BY <1>13, <1>a, <2>1, SameAdmissions DEF ClientExits, clientVars
<1>14. ASSUME NEW p \in Participants, AcquireTimesOut(p) PROVE AdmissionsInv'
  <2>1. \A q \in Participants, k \in Nat : Been(q, k)' <=> Been(q, k)
    BY <1>14, <1>a DEF AcquireTimesOut, TypeOK, Been, Inside, clientVars
  <2> QED
    BY <1>14, <1>a, <2>1, SameAdmissions DEF AcquireTimesOut, clientVars
<1>15. ASSUME NEW p \in Participants, BrokerReceives(p) PROVE AdmissionsInv'
  <2>1. \A q \in Participants, k \in Nat : Been(q, k)' <=> Been(q, k)
    BY <1>15, <1>a DEF BrokerReceives, TypeOK, Been, Inside, clientVars
  <2> QED
    BY <1>15, <1>a, <2>1, SameAdmissions DEF BrokerReceives, clientVars
<1>16. ASSUME NEW p \in Participants, BrokerNotices(p) PROVE AdmissionsInv'
  <2>1. \A q \in Participants, k \in Nat : Been(q, k)' <=> Been(q, k)
    BY <1>16, <1>a DEF BrokerNotices, TypeOK, Been, Inside, clientVars
  <2> QED
    BY <1>16, <1>a, <2>1, SameAdmissions DEF BrokerNotices, clientVars
<1>17. ASSUME BrokerGrants PROVE AdmissionsInv'
  <2>1. \A q \in Participants, k \in Nat : Been(q, k)' <=> Been(q, k)
    BY <1>17, <1>a DEF BrokerGrants, TypeOK, Been, Inside, clientVars
  <2> QED
    BY <1>17, <1>a, <2>1, SameAdmissions DEF BrokerGrants, clientVars
<1>18. ASSUME DeadlinePasses PROVE AdmissionsInv'
  BY <1>18 DEF DeadlinePasses
<1> QED
  BY ContentionMoves, <1>1, <1>2, <1>3, <1>4, <1>5, <1>6, <1>7, <1>8, <1>9, <1>10, <1>11, <1>12,
     <1>13, <1>14, <1>15, <1>16, <1>17, <1>18
     DEF ContentionDriver, Others

(* The broker that has misbehaved has misbehaved for good. *)
LEMMA MisbehavedStays ==
    ASSUME Next, ~misbehaved'
    PROVE  ~misbehaved
<1>1. ASSUME Contend PROVE ~misbehaved
  BY <1>1 DEF Contend, brokerVars
<1>2. ASSUME StartRole("startOwner", "owner") PROVE ~misbehaved
  BY <1>2 DEF StartRole, brokerVars
<1>3. ASSUME AwaitEntered PROVE ~misbehaved
  BY <1>3 DEF AwaitEntered, brokerVars
<1>4. ASSUME StartRole("startWaiter", "waiter") PROVE ~misbehaved
  BY <1>4 DEF StartRole, brokerVars
<1>5. ASSUME AwaitReady PROVE ~misbehaved
  BY <1>5 DEF AwaitReady, brokerVars
<1>6. ASSUME KillOwner PROVE ~misbehaved
  BY <1>6 DEF KillOwner, brokerVars
<1>7. ASSUME FinishWaiter PROVE ~misbehaved
  BY <1>7 DEF FinishWaiter, brokerVars
<1>8. ASSUME Probe PROVE ~misbehaved
  BY <1>8 DEF Probe, brokerVars
<1>9. ASSUME NEW p \in Participants, ClientConnects(p) PROVE ~misbehaved
  BY <1>9 DEF ClientConnects, brokerVars
<1>10. ASSUME NEW p \in Participants, Acquire(p) PROVE ~misbehaved
  BY <1>10 DEF Acquire, brokerVars
<1>11. ASSUME NEW p \in Participants, Enter(p) PROVE ~misbehaved
  BY <1>11 DEF Enter, brokerVars
<1>12. ASSUME NEW p \in Participants, Leave(p) PROVE ~misbehaved
  BY <1>12 DEF Leave, brokerVars
<1>13. ASSUME NEW p \in Participants, ClientExits(p) PROVE ~misbehaved
  BY <1>13 DEF ClientExits, brokerVars
<1>14. ASSUME NEW p \in Participants, AcquireTimesOut(p) PROVE ~misbehaved
  BY <1>14 DEF AcquireTimesOut, brokerVars
<1>15. ASSUME NEW p \in Participants, BrokerReceives(p) PROVE ~misbehaved
  BY <1>15 DEF BrokerReceives, brokerVars
<1>16. ASSUME NEW p \in Participants, BrokerNotices(p) PROVE ~misbehaved
  BY <1>16 DEF BrokerNotices, brokerVars
<1>17. ASSUME BrokerGrants PROVE ~misbehaved
  BY <1>17 DEF BrokerGrants, brokerVars
<1>18. ASSUME AcquireNow("acquire") PROVE ~misbehaved
  BY <1>18 DEF AcquireNow, brokerVars
<1>19. ASSUME AcquireNow("replace") PROVE ~misbehaved
  BY <1>19 DEF AcquireNow, brokerVars
<1>20. ASSUME ConnectWaiters PROVE ~misbehaved
  BY <1>20 DEF ConnectWaiters, brokerVars
<1>21. ASSUME AwaitDepth("awaitDepth", Cardinality(Clients)) PROVE ~misbehaved
  BY <1>21 DEF AwaitDepth, brokerVars
<1>22. ASSUME AwaitDepth("awaitEmpty", 0) PROVE ~misbehaved
  BY <1>22 DEF AwaitDepth, brokerVars
<1>23. ASSUME NEW p \in Clients, CloseWaiter(p) PROVE ~misbehaved
  BY <1>23 DEF CloseWaiter, brokerVars
<1>24. ASSUME Release PROVE ~misbehaved
  BY <1>24 DEF Release, brokerVars
<1>25. ASSUME AllClosed PROVE ~misbehaved
  BY <1>25 DEF AllClosed, brokerVars
<1>26. ASSUME Settle PROVE ~misbehaved
  BY <1>26 DEF Settle, brokerVars
<1>27. ASSUME EndRound PROVE ~misbehaved
  BY <1>27 DEF EndRound, brokerVars
<1>28. ASSUME DeadlinePasses PROVE ~misbehaved
  BY <1>28 DEF DeadlinePasses, brokerVars
<1> QED
  BY <1>1, <1>2, <1>3, <1>4, <1>5, <1>6, <1>7, <1>8, <1>9, <1>10, <1>11, <1>12, <1>13, <1>14,
     <1>15, <1>16, <1>17, <1>18, <1>19, <1>20, <1>21, <1>22, <1>23, <1>24, <1>25, <1>26, <1>27,
     <1>28
     DEF Next, Driver, Others

(* The driver knows that the tokens are unique, and that the successor's is higher. *)
LEMMA ContentionFenced ==
    ASSUME IInv, scenario = "contention", Next, outcome' = "none"
    PROVE  FencedInv'
<1> USE Bounds
<1>a. /\ TypeOK /\ outcome = "none" /\ Remains(todo, ContentionSteps)
      /\ RolesInv /\ TurnsInv /\ AdmissionsInv /\ FencedInv
  BY ContentionMoves DEF ContentionInv
<1>1. ASSUME Contend PROVE FencedInv'
  <2>1. Left = 8 /\ Left' = 7
    BY <1>1, <1>a, ContentionOrder DEF Contend, At
  <2>2. LeaseAdmissionsAccepted(admissions) /\ UNCHANGED admissions
    BY <1>1 DEF Contend, clientVars
  <2>3. \A a, b \in admissions : a.token = b.token => a = b
    BY <1>a, <2>2, AcceptedHasUniqueTokens DEF TypeOK
  <2> QED
    BY <2>1, <2>2, <2>3 DEF FencedInv
<1>2. ASSUME StartRole("startOwner", "owner") PROVE FencedInv'
  <2>1. Left = 7 /\ Left' = 6
    BY <1>2, <1>a, ContentionOrder DEF StartRole, At
  <2> QED
    BY <1>2, <2>1, <1>a DEF StartRole, FencedInv, clientVars
<1>3. ASSUME AwaitEntered PROVE FencedInv'
  <2>1. Left = 6 /\ Left' = 5
    BY <1>3, <1>a, ContentionOrder DEF AwaitEntered, At
  <2> QED
    BY <1>3, <2>1, <1>a DEF AwaitEntered, FencedInv, clientVars
<1>4. ASSUME StartRole("startWaiter", "waiter") PROVE FencedInv'
  <2>1. Left = 5 /\ Left' = 4
    BY <1>4, <1>a, ContentionOrder DEF StartRole, At
  <2> QED
    BY <1>4, <2>1, <1>a DEF StartRole, FencedInv, clientVars
<1>5. ASSUME AwaitReady PROVE FencedInv'
  <2>1. Left = 4 /\ Left' = 3
    BY <1>5, <1>a, ContentionOrder DEF AwaitReady, At
  <2> QED
    BY <1>5, <2>1, <1>a DEF AwaitReady, FencedInv, clientVars
<1>6. ASSUME KillOwner PROVE FencedInv'
  <2>1. Left = 3 /\ Left' = 2
    BY <1>6, <1>a, ContentionOrder DEF KillOwner, At
  <2> QED
    BY <1>6, <2>1, <1>a DEF KillOwner, FencedInv, clientVars
<1>7. ASSUME FinishWaiter PROVE FencedInv'
  <2>1. Left = 2 /\ Left' = 1
    BY <1>7, <1>a, ContentionOrder DEF FinishWaiter, At
  <2>2. /\ client["waiter"] = "done" /\ UNCHANGED admissions
        /\ \A t \in TokensOf("waiter"), u \in TokensOf("owner") : t > u
    BY <1>7 DEF FinishWaiter, clientVars
  <2>3. client["owner"] = "killed"
    BY <1>a, <2>1 DEF RolesInv
  <2>4. sequence["waiter"] = 1 /\ sequence["owner"] = 0
    BY <1>a, <2>2 DEF TurnsInv, RolesInv
  <2>5. Been("waiter", 0) /\ Been("owner", 0)
    BY <2>3, <2>4 DEF Been, Inside
  <2>6. PICK a \in admissions : a.participant = "owner"
    BY <1>a, <2>5 DEF AdmissionsInv
  <2>7. PICK b \in admissions : b.participant = "waiter"
    BY <1>a, <2>5 DEF AdmissionsInv
  <2>8. a.token \in TokensOf("owner") /\ b.token \in TokensOf("waiter")
    BY <2>6, <2>7 DEF TokensOf
  <2>9. a.token \in Nat /\ b.token \in Nat
    BY <1>a DEF TypeOK, Admissions
  <2>10. a.token < b.token
    BY <2>2, <2>8, <2>9
  <2> QED
    BY <1>a, <2>1, <2>2, <2>6, <2>7, <2>10 DEF FencedInv
<1>8. ASSUME Probe PROVE FencedInv'
  BY <1>8 DEF Probe
<1>9. ASSUME NEW p \in Participants, ClientConnects(p) PROVE FencedInv'
  <2>1. Left' = Left
    BY <1>9, <1>a, ContentionOrder DEF ClientConnects, driverVars
  <2> QED
    BY <1>9, <2>1, <1>a DEF ClientConnects, FencedInv, clientVars
<1>10. ASSUME NEW p \in Participants, Acquire(p) PROVE FencedInv'
  <2>1. Left' = Left
    BY <1>10, <1>a, ContentionOrder DEF Acquire, driverVars
  <2> QED
    BY <1>10, <2>1, <1>a DEF Acquire, FencedInv, clientVars
<1>11. ASSUME NEW p \in Participants, Enter(p) PROVE FencedInv'
  <2> DEFINE x == [participant |-> p, sequence |-> sequence[p], token |-> reply[p]]
  <2>1. Left' = Left /\ client[p] = "acquiring" /\ admissions' = admissions \cup {x}
    BY <1>11, <1>a, ContentionOrder DEF Enter, driverVars
  <2>2. x.participant = p
    OBVIOUS
  <2> HIDE DEF x
  <2>3. Left <= 7 => p \notin Clients
    BY <1>a, <2>1 DEF RolesInv
  <2> QED
    BY <1>a, <2>1, <2>2, <2>3 DEF FencedInv
<1>12. ASSUME NEW p \in Participants, Leave(p) PROVE FencedInv'
  <2>1. Left' = Left
    BY <1>12, <1>a, ContentionOrder DEF Leave, driverVars
  <2> QED
    BY <1>12, <2>1, <1>a DEF Leave, FencedInv, clientVars
<1>13. ASSUME NEW p \in Participants, ClientExits(p) PROVE FencedInv'
  <2>1. Left' = Left
    BY <1>13, <1>a, ContentionOrder DEF ClientExits, driverVars
  <2> QED
    BY <1>13, <2>1, <1>a DEF ClientExits, FencedInv, clientVars
<1>14. ASSUME NEW p \in Participants, AcquireTimesOut(p) PROVE FencedInv'
  <2>1. Left' = Left
    BY <1>14, <1>a, ContentionOrder DEF AcquireTimesOut, driverVars
  <2> QED
    BY <1>14, <2>1, <1>a DEF AcquireTimesOut, FencedInv, clientVars
<1>15. ASSUME NEW p \in Participants, BrokerReceives(p) PROVE FencedInv'
  <2>1. Left' = Left
    BY <1>15, <1>a, ContentionOrder DEF BrokerReceives, driverVars
  <2> QED
    BY <1>15, <2>1, <1>a DEF BrokerReceives, FencedInv, clientVars
<1>16. ASSUME NEW p \in Participants, BrokerNotices(p) PROVE FencedInv'
  <2>1. Left' = Left
    BY <1>16, <1>a, ContentionOrder DEF BrokerNotices, driverVars
  <2> QED
    BY <1>16, <2>1, <1>a DEF BrokerNotices, FencedInv, clientVars
<1>17. ASSUME BrokerGrants PROVE FencedInv'
  <2>1. Left' = Left
    BY <1>17, <1>a, ContentionOrder DEF BrokerGrants, driverVars
  <2> QED
    BY <1>17, <2>1, <1>a DEF BrokerGrants, FencedInv, clientVars
<1>18. ASSUME DeadlinePasses PROVE FencedInv'
  BY <1>18 DEF DeadlinePasses
<1> QED
  BY ContentionMoves, <1>1, <1>2, <1>3, <1>4, <1>5, <1>6, <1>7, <1>8, <1>9, <1>10, <1>11, <1>12,
     <1>13, <1>14, <1>15, <1>16, <1>17, <1>18
     DEF ContentionDriver, Others

(* A correct broker grants a free lease to the first one in the queue. *)
LEMMA GrantIs ==
    ASSUME TypeOK, ExclusiveInv, BrokerGrants, ~misbehaved'
    PROVE  /\ holder = "none" /\ holder' = Head(waiters) /\ Head(waiters) \in Participants
           /\ token' = token + 1 /\ reply' = [reply EXCEPT ![Head(waiters)] = token + 1]
           /\ client[Head(waiters)] = "acquiring" /\ Head(waiters) \notin arriving
           /\ \A q \in Participants : reply[q] = 0 /\ client[q] # "entered"
           /\ Len(waiters') = Len(waiters) - 1 /\ Len(waiters) \in Nat /\ Len(waiters) >= 1
           /\ \A i \in 1..Len(waiters') :
                 /\ waiters'[i] = waiters[i + 1] /\ waiters'[i] # Head(waiters)
                 /\ i \in Nat /\ i + 1 \in 1..Len(waiters)
           /\ UNCHANGED <<driverVars, clientVars, arriving, retained>>
<1>1. /\ holder = "none" /\ waiters # <<>> /\ holder' = Head(waiters) /\ waiters' = Tail(waiters)
      /\ token' = token + 1 /\ reply' = [reply EXCEPT ![Head(waiters)] = token + 1]
      /\ UNCHANGED <<driverVars, clientVars, arriving, retained>>
  BY DEF BrokerGrants
<1>2. /\ Head(waiters) = waiters[1] /\ Head(waiters) \in Participants
      /\ Len(Tail(waiters)) = Len(waiters) - 1 /\ Len(waiters) \in Nat /\ Len(waiters) >= 1
      /\ \A i \in 1..Len(Tail(waiters)) : Tail(waiters)[i] = waiters[i + 1]
  BY <1>1 DEF TypeOK
<1>3. /\ 1 \in 1..Len(waiters)
      /\ \A i \in 1..Len(Tail(waiters)) : i + 1 \in 1..Len(waiters) /\ i + 1 # 1
  BY <1>2
<1>4. /\ client[Head(waiters)] = "acquiring" /\ Head(waiters) \notin arriving
      /\ \A i \in 1..Len(Tail(waiters)) : waiters[i + 1] # Head(waiters)
  BY <1>2, <1>3 DEF ExclusiveInv, QueueInv
<1>5. \A q \in Participants : ~(reply[q] > 0) /\ reply[q] \in Nat /\ client[q] # "entered"
  BY <1>1, Bounds DEF ExclusiveInv, GrantInv, TypeOK
<1>6. \A q \in Participants : reply[q] = 0
  BY <1>5
<1> QED
  BY <1>1, <1>2, <1>3, <1>4, <1>5, <1>6

(* In the contention the end of a session is noticed when the killed owner has
   the lease. *)
LEMMA NoticeIs ==
    ASSUME TypeOK, RolesInv, ExclusiveInv, NEW p \in Participants, BrokerNotices(p), ~misbehaved'
    PROVE  /\ client[p] = "killed" /\ holder = p /\ holder' = "none"
           /\ UNCHANGED <<driverVars, clientVars, waiters, token, arriving, reply, retained>>
<1>1. client[p] = "killed"
  BY DEF BrokerNotices, Dead, RolesInv, Participants
<1>2. p \notin ToSet(waiters)
  <2>1. \A i \in 1..Len(waiters) : waiters[i] # p
    BY <1>1 DEF ExclusiveInv, QueueInv
  <2>2. DOMAIN waiters = 1..Len(waiters)
    BY DEF TypeOK
  <2> QED
    BY <2>1, <2>2 DEF ToSet
<1>3. holder = p
  BY <1>2 DEF BrokerNotices
<1>4. UNCHANGED waiters
  <2>1. \A i \in DOMAIN waiters : waiters[i] \in ToSet(waiters)
    BY DEF ToSet
  <2> QED
    BY <1>2, <2>1 DEF BrokerNotices
<1> QED
  BY <1>1, <1>3, <1>4 DEF BrokerNotices

(* A correct broker has one owner at a time. *)
LEMMA ContentionGrants ==
    ASSUME IInv, scenario = "contention", Next, outcome' = "none", ~misbehaved'
    PROVE  GrantInv'
<1> USE Bounds
<1>a. /\ TypeOK /\ outcome = "none" /\ Remains(todo, ContentionSteps)
      /\ RolesInv /\ TurnsInv /\ AdmissionsInv /\ ExclusiveInv
  BY MisbehavedStays, ContentionMoves DEF ContentionInv
<1>1. ASSUME Contend PROVE GrantInv'
  <2>1. Left = 8 /\ Left' = 7
    BY <1>1, <1>a, ContentionOrder DEF Contend, At
  <2> QED
    BY <1>1, <2>1, <1>a DEF Contend, TypeOK, ExclusiveInv, GrantInv, clientVars, brokerVars
<1>2. ASSUME StartRole("startOwner", "owner") PROVE GrantInv'
  <2>1. Left = 7 /\ Left' = 6
    BY <1>2, <1>a, ContentionOrder DEF StartRole, At
  <2> QED
    BY <1>2, <2>1, <1>a
       DEF StartRole, RolesInv, TypeOK, ExclusiveInv, GrantInv, clientVars, brokerVars
<1>3. ASSUME AwaitEntered PROVE GrantInv'
  <2>1. Left = 6 /\ Left' = 5
    BY <1>3, <1>a, ContentionOrder DEF AwaitEntered, At
  <2> QED
    BY <1>3, <2>1, <1>a DEF AwaitEntered, TypeOK, ExclusiveInv, GrantInv, clientVars, brokerVars
<1>4. ASSUME StartRole("startWaiter", "waiter") PROVE GrantInv'
  <2>1. Left = 5 /\ Left' = 4
    BY <1>4, <1>a, ContentionOrder DEF StartRole, At
  <2> QED
    BY <1>4, <2>1, <1>a
       DEF StartRole, RolesInv, TypeOK, ExclusiveInv, GrantInv, clientVars, brokerVars
<1>5. ASSUME AwaitReady PROVE GrantInv'
  <2>1. Left = 4 /\ Left' = 3
    BY <1>5, <1>a, ContentionOrder DEF AwaitReady, At
  <2> QED
    BY <1>5, <2>1, <1>a DEF AwaitReady, TypeOK, ExclusiveInv, GrantInv, clientVars, brokerVars
<1>6. ASSUME KillOwner PROVE GrantInv'
  <2>1. Left = 3 /\ Left' = 2
    BY <1>6, <1>a, ContentionOrder DEF KillOwner, At
  <2> QED
    BY <1>6, <2>1, <1>a
       DEF KillOwner, RolesInv, TypeOK, ExclusiveInv, GrantInv, clientVars, brokerVars
<1>7. ASSUME FinishWaiter PROVE GrantInv'
  <2>1. Left = 2 /\ Left' = 1
    BY <1>7, <1>a, ContentionOrder DEF FinishWaiter, At
  <2> QED
    BY <1>7, <2>1, <1>a DEF FinishWaiter, TypeOK, ExclusiveInv, GrantInv, clientVars, brokerVars
<1>8. ASSUME Probe PROVE GrantInv'
  BY <1>8 DEF Probe
<1>9. ASSUME NEW p \in Participants, ClientConnects(p) PROVE GrantInv'
  <2>1. Left' = Left
    BY <1>9, <1>a, ContentionOrder DEF ClientConnects, driverVars
  <2> QED
    BY <1>9, <2>1, <1>a DEF ClientConnects, TypeOK, ExclusiveInv, GrantInv, clientVars, brokerVars
<1>10. ASSUME NEW p \in Participants, Acquire(p) PROVE GrantInv'
  <2>1. Left' = Left
    BY <1>10, <1>a, ContentionOrder DEF Acquire, driverVars
  <2> QED
    BY <1>10, <2>1, <1>a DEF Acquire, TypeOK, ExclusiveInv, GrantInv, clientVars, brokerVars
<1>11. ASSUME NEW p \in Participants, Enter(p) PROVE GrantInv'
  <2>1. /\ client' = [client EXCEPT ![p] = "entered"] /\ reply' = [reply EXCEPT ![p] = 0]
        /\ UNCHANGED <<holder, token, retained>> /\ holder = p
    BY <1>11, <1>a DEF Enter, ExclusiveInv, GrantInv
  <2>2. /\ client'[p] = "entered" /\ reply'[p] = 0
        /\ \A q \in Participants : q # p => client'[q] = client[q] /\ reply'[q] = reply[q]
    BY <1>a, <2>1 DEF TypeOK
  <2> QED
    BY <1>a, <2>1, <2>2 DEF ExclusiveInv, GrantInv
<1>12. ASSUME NEW p \in Participants, Leave(p) PROVE GrantInv'
  <2>1. Left' = Left
    BY <1>12, <1>a, ContentionOrder DEF Leave, driverVars
  <2> QED
    BY <1>12, <2>1, <1>a DEF Leave, TypeOK, ExclusiveInv, GrantInv, clientVars, brokerVars
<1>13. ASSUME NEW p \in Participants, ClientExits(p) PROVE GrantInv'
  <2>1. Left' = Left
    BY <1>13, <1>a, ContentionOrder DEF ClientExits, driverVars
  <2> QED
    BY <1>13, <2>1, <1>a DEF ClientExits, TypeOK, ExclusiveInv, GrantInv, clientVars, brokerVars
<1>14. ASSUME NEW p \in Participants, AcquireTimesOut(p) PROVE GrantInv'
  <2>1. Left' = Left
    BY <1>14, <1>a, ContentionOrder DEF AcquireTimesOut, driverVars
  <2> QED
    BY <1>14, <2>1, <1>a DEF AcquireTimesOut, TypeOK, ExclusiveInv, GrantInv, clientVars, brokerVars
<1>15. ASSUME NEW p \in Participants, BrokerReceives(p) PROVE GrantInv'
  <2>1. Left' = Left
    BY <1>15, <1>a, ContentionOrder DEF BrokerReceives, driverVars
  <2> QED
    BY <1>15, <2>1, <1>a DEF BrokerReceives, TypeOK, ExclusiveInv, GrantInv, clientVars, brokerVars
<1>16. ASSUME NEW p \in Participants, BrokerNotices(p) PROVE GrantInv'
  <2>1. /\ client[p] = "killed" /\ holder = p /\ holder' = "none"
        /\ UNCHANGED <<clientVars, token, reply, retained>>
    BY <1>16, <1>a, NoticeIs
  <2> QED
    BY <1>a, <2>1 DEF ExclusiveInv, GrantInv, clientVars
<1>17. ASSUME BrokerGrants PROVE GrantInv'
  <2> DEFINE h == Head(waiters)
  <2>1. /\ h \in Participants /\ holder' = h /\ token' = token + 1 /\ client[h] = "acquiring"
        /\ reply' = [reply EXCEPT ![h] = token + 1] /\ holder = "none"
        /\ \A q \in Participants : reply[q] = 0 /\ client[q] # "entered"
        /\ UNCHANGED <<client, retained>>
    BY <1>17, <1>a, GrantIs DEF clientVars
  <2> HIDE DEF h
  <2>2. /\ reply'[h] = token' /\ token' > 0
        /\ \A q \in Participants : q # h => reply'[q] = 0
    BY <1>a, <2>1 DEF TypeOK
  <2>3. retained = {} /\ \A q \in Participants : client[q] # "failed"
    BY <1>a DEF ExclusiveInv, GrantInv
  <2> QED
    BY <2>1, <2>2, <2>3 DEF GrantInv
<1>18. ASSUME DeadlinePasses PROVE GrantInv'
  BY <1>18 DEF DeadlinePasses
<1> QED
  BY ContentionMoves, <1>1, <1>2, <1>3, <1>4, <1>5, <1>6, <1>7, <1>8, <1>9, <1>10, <1>11, <1>12,
     <1>13, <1>14, <1>15, <1>16, <1>17, <1>18
     DEF ContentionDriver, Others

(* The queue stays as it is when no one in it changes. *)
LEMMA SameQueue ==
    ASSUME TypeOK, QueueInv, UNCHANGED <<waiters, arriving>>,
           \A q \in Participants : client[q] = "acquiring" /\ holder # q =>
               client'[q] = "acquiring" /\ holder' # q
    PROVE  QueueInv'
<1>1. /\ \A i \in 1..Len(waiters) : waiters[i] \in Participants
      /\ \A p \in arriving : p \in Participants
  BY DEF TypeOK
<1> QED
  BY <1>1 DEF QueueInv

(* Who waits for the lease has asked for it once. *)
LEMMA ContentionQueue ==
    ASSUME IInv, scenario = "contention", Next, outcome' = "none", ~misbehaved'
    PROVE  QueueInv'
<1> USE Bounds
<1>a. /\ TypeOK /\ outcome = "none" /\ Remains(todo, ContentionSteps)
      /\ RolesInv /\ TurnsInv /\ AdmissionsInv /\ ExclusiveInv
  BY MisbehavedStays, ContentionMoves DEF ContentionInv
<1>1. ASSUME Contend PROVE QueueInv'
  <2>1. \A q \in Participants : client[q] = "acquiring" /\ holder # q =>
            client'[q] = "acquiring" /\ holder' # q
    BY <1>1, <1>a DEF Contend, TypeOK, ExclusiveInv, GrantInv, clientVars, brokerVars
  <2> QED
    BY <1>1, <1>a, <2>1, SameQueue DEF Contend, ExclusiveInv, brokerVars
<1>2. ASSUME StartRole("startOwner", "owner") PROVE QueueInv'
  <2>1. client["owner"] = "none"
    BY <1>2, <1>a, ContentionOrder DEF StartRole, At, RolesInv
  <2>2. \A q \in Participants : client[q] = "acquiring" /\ holder # q =>
            client'[q] = "acquiring" /\ holder' # q
    BY <1>2, <1>a, <2>1 DEF StartRole, TypeOK, brokerVars
  <2> QED
    BY <1>2, <1>a, <2>2, SameQueue DEF StartRole, ExclusiveInv, brokerVars
<1>3. ASSUME AwaitEntered PROVE QueueInv'
  <2>1. \A q \in Participants : client[q] = "acquiring" /\ holder # q =>
            client'[q] = "acquiring" /\ holder' # q
    BY <1>3, <1>a DEF AwaitEntered, TypeOK, ExclusiveInv, GrantInv, clientVars, brokerVars
  <2> QED
    BY <1>3, <1>a, <2>1, SameQueue DEF AwaitEntered, ExclusiveInv, brokerVars
<1>4. ASSUME StartRole("startWaiter", "waiter") PROVE QueueInv'
  <2>1. client["waiter"] = "none"
    BY <1>4, <1>a, ContentionOrder DEF StartRole, At, RolesInv
  <2>2. \A q \in Participants : client[q] = "acquiring" /\ holder # q =>
            client'[q] = "acquiring" /\ holder' # q
    BY <1>4, <1>a, <2>1 DEF StartRole, TypeOK, brokerVars
  <2> QED
    BY <1>4, <1>a, <2>2, SameQueue DEF StartRole, ExclusiveInv, brokerVars
<1>5. ASSUME AwaitReady PROVE QueueInv'
  <2>1. \A q \in Participants : client[q] = "acquiring" /\ holder # q =>
            client'[q] = "acquiring" /\ holder' # q
    BY <1>5, <1>a DEF AwaitReady, TypeOK, ExclusiveInv, GrantInv, clientVars, brokerVars
  <2> QED
    BY <1>5, <1>a, <2>1, SameQueue DEF AwaitReady, ExclusiveInv, brokerVars
<1>6. ASSUME KillOwner PROVE QueueInv'
  <2>1. client["owner"] = "entered"
    BY <1>6, <1>a, ContentionOrder DEF KillOwner, At, RolesInv
  <2>2. \A q \in Participants : client[q] = "acquiring" /\ holder # q =>
            client'[q] = "acquiring" /\ holder' # q
    BY <1>6, <1>a, <2>1 DEF KillOwner, TypeOK, brokerVars
  <2> QED
    BY <1>6, <1>a, <2>2, SameQueue DEF KillOwner, ExclusiveInv, brokerVars
<1>7. ASSUME FinishWaiter PROVE QueueInv'
  <2>1. \A q \in Participants : client[q] = "acquiring" /\ holder # q =>
            client'[q] = "acquiring" /\ holder' # q
    BY <1>7, <1>a DEF FinishWaiter, TypeOK, ExclusiveInv, GrantInv, clientVars, brokerVars
  <2> QED
    BY <1>7, <1>a, <2>1, SameQueue DEF FinishWaiter, ExclusiveInv, brokerVars
<1>8. ASSUME Probe PROVE QueueInv'
  BY <1>8 DEF Probe
<1>9. ASSUME NEW p \in Participants, ClientConnects(p) PROVE QueueInv'
  <2>1. \A q \in Participants : client[q] = "acquiring" /\ holder # q =>
            client'[q] = "acquiring" /\ holder' # q
    BY <1>9, <1>a DEF ClientConnects, TypeOK, ExclusiveInv, GrantInv, clientVars, brokerVars
  <2> QED
    BY <1>9, <1>a, <2>1, SameQueue DEF ClientConnects, ExclusiveInv, brokerVars
<1>10. ASSUME NEW p \in Participants, Acquire(p) PROVE QueueInv'
  <2>1. /\ client' = [client EXCEPT ![p] = "acquiring"] /\ arriving' = arriving \cup {p}
        /\ client[p] = "idle" /\ UNCHANGED <<waiters, holder>>
    BY <1>10 DEF Acquire
  <2>2. holder # p
    BY <1>a, <2>1 DEF ExclusiveInv, GrantInv
  <2>3. \A q \in Participants : client'[q] = IF q = p THEN "acquiring" ELSE client[q]
    BY <1>a, <2>1 DEF TypeOK
  <2>4. \A i \in 1..Len(waiters) : waiters[i] \in Participants /\ waiters[i] # p
    <3>1. \A i \in 1..Len(waiters) : client[waiters[i]] = "acquiring"
      BY <1>a DEF ExclusiveInv, QueueInv
    <3>2. \A i \in 1..Len(waiters) : waiters[i] \in Participants
      BY <1>a DEF TypeOK
    <3> QED
      BY <2>1, <3>1, <3>2
  <2>5. \A q \in arriving : q \in Participants
    BY <1>a DEF TypeOK
  <2> QED
    BY <1>a, <2>1, <2>2, <2>3, <2>4, <2>5 DEF ExclusiveInv, QueueInv
<1>11. ASSUME NEW p \in Participants, Enter(p) PROVE QueueInv'
  <2>1. \A q \in Participants : client[q] = "acquiring" /\ holder # q =>
            client'[q] = "acquiring" /\ holder' # q
    BY <1>11, <1>a DEF Enter, TypeOK, ExclusiveInv, GrantInv, clientVars, brokerVars
  <2> QED
    BY <1>11, <1>a, <2>1, SameQueue DEF Enter, ExclusiveInv, brokerVars
<1>12. ASSUME NEW p \in Participants, Leave(p) PROVE QueueInv'
  <2>1. \A q \in Participants : client[q] = "acquiring" /\ holder # q =>
            client'[q] = "acquiring" /\ holder' # q
    BY <1>12, <1>a DEF Leave, TypeOK, ExclusiveInv, GrantInv, clientVars, brokerVars
  <2> QED
    BY <1>12, <1>a, <2>1, SameQueue DEF Leave, ExclusiveInv, brokerVars
<1>13. ASSUME NEW p \in Participants, ClientExits(p) PROVE QueueInv'
  <2>1. \A q \in Participants : client[q] = "acquiring" /\ holder # q =>
            client'[q] = "acquiring" /\ holder' # q
    BY <1>13, <1>a DEF ClientExits, TypeOK, ExclusiveInv, GrantInv, clientVars, brokerVars
  <2> QED
    BY <1>13, <1>a, <2>1, SameQueue DEF ClientExits, ExclusiveInv, brokerVars
<1>14. ASSUME NEW p \in Participants, AcquireTimesOut(p) PROVE QueueInv'
  <2>1. \A q \in Participants : client[q] = "acquiring" /\ holder # q =>
            client'[q] = "acquiring" /\ holder' # q
    BY <1>14, <1>a DEF AcquireTimesOut, TypeOK, ExclusiveInv, GrantInv, clientVars, brokerVars
  <2> QED
    BY <1>14, <1>a, <2>1, SameQueue DEF AcquireTimesOut, ExclusiveInv, brokerVars
<1>15. ASSUME NEW p \in Participants, BrokerReceives(p) PROVE QueueInv'
  <2>1. /\ p \in arriving /\ arriving' = arriving \ {p} /\ waiters' = Append(waiters, p)
        /\ UNCHANGED <<client, holder>>
    BY <1>15 DEF BrokerReceives, clientVars
  <2>2. client[p] = "acquiring" /\ holder # p /\ \A i \in 1..Len(waiters) : waiters[i] # p
    BY <1>a, <2>1 DEF ExclusiveInv, QueueInv
  <2>3. /\ Len(waiters) \in Nat /\ Len(waiters') = Len(waiters) + 1
        /\ waiters'[Len(waiters) + 1] = p
        /\ \A i \in 1..Len(waiters) : waiters'[i] = waiters[i]
    BY <1>a, <2>1 DEF TypeOK
  <2>4. \A i \in 1..Len(waiters') : i = Len(waiters) + 1 \/ i \in 1..Len(waiters)
    BY <2>3
  <2> QED
    BY <1>a, <2>1, <2>2, <2>3, <2>4 DEF ExclusiveInv, QueueInv
<1>16. ASSUME NEW p \in Participants, BrokerNotices(p) PROVE QueueInv'
  <2>1. holder' = "none" /\ UNCHANGED <<clientVars, waiters, arriving>>
    BY <1>16, <1>a, NoticeIs
  <2> QED
    BY <1>a, <2>1, SameQueue DEF ExclusiveInv, clientVars
<1>17. ASSUME BrokerGrants PROVE QueueInv'
  <2> DEFINE h == Head(waiters)
  <2>1. /\ holder' = h /\ h \notin arriving /\ UNCHANGED <<client, arriving>>
        /\ Len(waiters') = Len(waiters) - 1 /\ Len(waiters) \in Nat /\ Len(waiters) >= 1
        /\ \A i \in 1..Len(waiters') : /\ waiters'[i] = waiters[i + 1] /\ waiters'[i] # h
                                       /\ i \in Nat /\ i + 1 \in 1..Len(waiters)
    BY <1>17, <1>a, GrantIs DEF clientVars
  <2> HIDE DEF h
  <2>2. ASSUME NEW i \in 1..Len(waiters')
        PROVE  /\ client'[waiters'[i]] = "acquiring" /\ holder' # waiters'[i]
               /\ waiters'[i] \notin arriving'
               /\ \A j \in 1..Len(waiters') : waiters'[i] = waiters'[j] => i = j
    <3>1. /\ client[waiters[i + 1]] = "acquiring" /\ waiters[i + 1] \notin arriving
          /\ \A j \in 1..Len(waiters) : waiters[i + 1] = waiters[j] => i + 1 = j
      BY <1>a, <2>1 DEF ExclusiveInv, QueueInv
    <3>2. ASSUME NEW j \in 1..Len(waiters'), waiters'[i] = waiters'[j] PROVE i = j
      <4>1. i + 1 = j + 1 /\ i \in Nat /\ j \in Nat
        BY <2>1, <3>1, <3>2
      <4> QED
        BY <4>1
    <3> QED
      BY <2>1, <3>1, <3>2
  <2>3. \A q \in arriving' : client'[q] = "acquiring" /\ holder' # q
    BY <1>a, <2>1 DEF ExclusiveInv, QueueInv
  <2> QED
    BY <2>2, <2>3 DEF QueueInv
<1>18. ASSUME DeadlinePasses PROVE QueueInv'
  BY <1>18 DEF DeadlinePasses
<1> QED
  BY ContentionMoves, <1>1, <1>2, <1>3, <1>4, <1>5, <1>6, <1>7, <1>8, <1>9, <1>10, <1>11, <1>12,
     <1>13, <1>14, <1>15, <1>16, <1>17, <1>18
     DEF ContentionDriver, Others

(* The tokens of a correct broker grow. *)
LEMMA ContentionTokens ==
    ASSUME IInv, scenario = "contention", Next, outcome' = "none", ~misbehaved'
    PROVE  TokensInv'
<1> USE Bounds
<1>a. /\ TypeOK /\ outcome = "none" /\ Remains(todo, ContentionSteps)
      /\ RolesInv /\ TurnsInv /\ AdmissionsInv /\ ExclusiveInv /\ TokensInv
  BY MisbehavedStays, ContentionMoves DEF ContentionInv
<1>1. ASSUME Contend PROVE TokensInv'
  <2>1. Left = 8 /\ Left' = 7
    BY <1>1, <1>a, ContentionOrder DEF Contend, At
  <2> QED
    BY <1>1, <2>1, <1>a DEF Contend, TypeOK, TokensInv, clientVars, brokerVars
<1>2. ASSUME StartRole("startOwner", "owner") PROVE TokensInv'
  <2>1. Left = 7 /\ Left' = 6
    BY <1>2, <1>a, ContentionOrder DEF StartRole, At
  <2> QED
    BY <1>2, <2>1, <1>a DEF StartRole, RolesInv, TypeOK, TokensInv, clientVars, brokerVars
<1>3. ASSUME AwaitEntered PROVE TokensInv'
  <2>1. Left = 6 /\ Left' = 5
    BY <1>3, <1>a, ContentionOrder DEF AwaitEntered, At
  <2> QED
    BY <1>3, <2>1, <1>a DEF AwaitEntered, TypeOK, TokensInv, clientVars, brokerVars
<1>4. ASSUME StartRole("startWaiter", "waiter") PROVE TokensInv'
  <2>1. Left = 5 /\ Left' = 4
    BY <1>4, <1>a, ContentionOrder DEF StartRole, At
  <2> QED
    BY <1>4, <2>1, <1>a DEF StartRole, RolesInv, TypeOK, TokensInv, clientVars, brokerVars
<1>5. ASSUME AwaitReady PROVE TokensInv'
  <2>1. Left = 4 /\ Left' = 3
    BY <1>5, <1>a, ContentionOrder DEF AwaitReady, At
  <2> QED
    BY <1>5, <2>1, <1>a DEF AwaitReady, TypeOK, TokensInv, clientVars, brokerVars
<1>6. ASSUME KillOwner PROVE TokensInv'
  <2>1. Left = 3 /\ Left' = 2
    BY <1>6, <1>a, ContentionOrder DEF KillOwner, At
  <2> QED
    BY <1>6, <2>1, <1>a DEF KillOwner, RolesInv, TypeOK, TokensInv, clientVars, brokerVars
<1>7. ASSUME FinishWaiter PROVE TokensInv'
  <2>1. Left = 2 /\ Left' = 1
    BY <1>7, <1>a, ContentionOrder DEF FinishWaiter, At
  <2> QED
    BY <1>7, <2>1, <1>a DEF FinishWaiter, TypeOK, TokensInv, clientVars, brokerVars
<1>8. ASSUME Probe PROVE TokensInv'
  BY <1>8 DEF Probe
<1>9. ASSUME NEW p \in Participants, ClientConnects(p) PROVE TokensInv'
  <2>1. Left' = Left
    BY <1>9, <1>a, ContentionOrder DEF ClientConnects, driverVars
  <2> QED
    BY <1>9, <2>1, <1>a DEF ClientConnects, TypeOK, TokensInv, clientVars, brokerVars
<1>10. ASSUME NEW p \in Participants, Acquire(p) PROVE TokensInv'
  <2>1. Left' = Left
    BY <1>10, <1>a, ContentionOrder DEF Acquire, driverVars
  <2> QED
    BY <1>10, <2>1, <1>a DEF Acquire, TypeOK, TokensInv, clientVars, brokerVars
<1>11. ASSUME NEW p \in Participants, Enter(p) PROVE TokensInv'
  <2> DEFINE x == [participant |-> p, sequence |-> sequence[p], token |-> reply[p]]
  <2>1. /\ client' = [client EXCEPT ![p] = "entered"] /\ reply' = [reply EXCEPT ![p] = 0]
        /\ UNCHANGED <<holder, token, sequence>> /\ holder = p /\ reply[p] = token /\ reply[p] > 0
        /\ admissions' = admissions \cup {x}
    BY <1>11, <1>a DEF Enter, ExclusiveInv, GrantInv
  <2>2. /\ \A a \in admissions : /\ a.token < token /\ a.token \in Nat
                                  /\ a.participant \in Participants
        /\ token \in Nat
    BY <1>a, <2>1 DEF TypeOK, Admissions, TokensInv
  <2>3. x.participant = p /\ x.token = token
    BY <2>1
  <2> HIDE DEF x
  <2>4. /\ \A q \in Participants : q # p => reply'[q] = reply[q] /\ client'[q] = client[q]
        /\ reply'[p] = 0
    BY <1>a, <2>1 DEF TypeOK
  <2>5. p = "owner" => \A a \in admissions : a.participant # "waiter"
    <3>1. p = "owner" => \A k \in Nat : ~Been("waiter", k)
      BY <1>a, <2>1 DEF TokensInv, RolesInv, Been, Inside
    <3>2. \A a \in admissions : a.sequence \in Nat
      BY <1>a DEF TypeOK, Admissions
    <3> QED
      BY <1>a, <3>1, <3>2 DEF AdmissionsInv
  <2>6. \A a \in admissions' : a = x \/ a \in admissions
    BY <2>1
  <2>7. \A a \in admissions' : a.token <= token'
    BY <2>1, <2>2, <2>3, <2>6
  <2>8. \A q \in Participants : ~(reply'[q] > 0)
    BY <1>a, <2>1, <2>4 DEF ExclusiveInv, GrantInv
  <2>9. \A a, b \in admissions' : a.token = b.token => a = b
    BY <1>a, <2>2, <2>3, <2>6 DEF TokensInv
  <2>10. \A a, b \in admissions' :
          a.participant = "owner" /\ b.participant = "waiter" => a.token < b.token
    BY <1>a, <2>2, <2>3, <2>5, <2>6 DEF TokensInv
  <2>11. holder' = "owner" => sequence'["waiter"] = 0 /\ client'["waiter"] # "entered"
    BY <1>a, <2>1, <2>4 DEF TokensInv
  <2> QED
    BY <2>7, <2>8, <2>9, <2>10, <2>11 DEF TokensInv
<1>12. ASSUME NEW p \in Participants, Leave(p) PROVE TokensInv'
  <2>1. Left' = Left
    BY <1>12, <1>a, ContentionOrder DEF Leave, driverVars
  <2> QED
    BY <1>12, <2>1, <1>a DEF Leave, TypeOK, TokensInv, clientVars, brokerVars
<1>13. ASSUME NEW p \in Participants, ClientExits(p) PROVE TokensInv'
  <2>1. Left' = Left
    BY <1>13, <1>a, ContentionOrder DEF ClientExits, driverVars
  <2> QED
    BY <1>13, <2>1, <1>a DEF ClientExits, TypeOK, TokensInv, clientVars, brokerVars
<1>14. ASSUME NEW p \in Participants, AcquireTimesOut(p) PROVE TokensInv'
  <2>1. Left' = Left
    BY <1>14, <1>a, ContentionOrder DEF AcquireTimesOut, driverVars
  <2> QED
    BY <1>14, <2>1, <1>a DEF AcquireTimesOut, TypeOK, TokensInv, clientVars, brokerVars
<1>15. ASSUME NEW p \in Participants, BrokerReceives(p) PROVE TokensInv'
  <2>1. Left' = Left
    BY <1>15, <1>a, ContentionOrder DEF BrokerReceives, driverVars
  <2> QED
    BY <1>15, <2>1, <1>a DEF BrokerReceives, TypeOK, TokensInv, clientVars, brokerVars
<1>16. ASSUME NEW p \in Participants, BrokerNotices(p) PROVE TokensInv'
  <2>1. holder' = "none" /\ UNCHANGED <<clientVars, token, reply>>
    BY <1>16, <1>a, NoticeIs
  <2> QED
    BY <1>a, <2>1 DEF TokensInv, clientVars
<1>17. ASSUME BrokerGrants PROVE TokensInv'
  <2> DEFINE h == Head(waiters)
  <2>1. /\ h \in Participants /\ holder' = h /\ token' = token + 1 /\ client[h] = "acquiring"
        /\ UNCHANGED <<client, sequence, admissions, todo>>
    BY <1>17, <1>a, GrantIs DEF clientVars, driverVars
  <2>2. h = "owner" => client["waiter"] = "none"
    <3>1. Left \in 1..8
      BY <1>a, ContentionOrder
    <3> QED
      BY <1>a, <2>1, <3>1 DEF RolesInv
  <2> HIDE DEF h
  <2>3. \A a \in admissions : a.token <= token /\ a.token \in Nat /\ token \in Nat
    BY <1>a DEF TypeOK, Admissions, TokensInv
  <2>4. \A a \in admissions : a.token < token' /\ a.token <= token'
    BY <2>1, <2>3
  <2>5. h = "owner" => sequence["waiter"] = 0
    BY <1>a, <2>2 DEF TurnsInv
  <2> QED
    BY <1>a, <2>1, <2>2, <2>4, <2>5 DEF TokensInv
<1>18. ASSUME DeadlinePasses PROVE TokensInv'
  BY <1>18 DEF DeadlinePasses
<1> QED
  BY ContentionMoves, <1>1, <1>2, <1>3, <1>4, <1>5, <1>6, <1>7, <1>8, <1>9, <1>10, <1>11, <1>12,
     <1>13, <1>14, <1>15, <1>16, <1>17, <1>18
     DEF ContentionDriver, Others

(* The contention's own part of what follows from a step. *)
LEMMA ContentionRemains ==
    ASSUME IInv, scenario = "contention", Next, outcome' = "none"
    PROVE  Remains(todo, ContentionSteps)'
<1>1. TypeOK /\ Remains(todo, ContentionSteps) /\ (ContentionDriver \/ Others \/ DeadlinePasses)
  BY ContentionMoves
<1>2. (Done /\ Left > 1) \/ UNCHANGED todo
  <2>1. CASE Others
    BY <2>1 DEF Others, BrokerGrants, ClientConnects, Acquire, Enter, Leave, ClientExits,
                AcquireTimesOut, BrokerReceives, BrokerNotices, driverVars
  <2>2. CASE ContentionDriver
    BY <1>1, <2>2, ContentionOrder
       DEF ContentionDriver, Contend, StartRole, AwaitEntered, AwaitReady, KillOwner,
           FinishWaiter, Probe, At
  <2>3. CASE DeadlinePasses
    BY <2>3 DEF DeadlinePasses
  <2> QED
    BY <1>1, <2>1, <2>2, <2>3
<1> QED
  BY <1>1, <1>2, ContentionOrder

(* The verdict of the contention. *)
LEMMA ContentionVerdict ==
    ASSUME IInv, scenario = "contention", Next
    PROVE  Verdict'
<1> USE Bounds
<1>a. TypeOK /\ outcome = "none" /\ Remains(todo, ContentionSteps) /\ ContentionInv
  BY ContentionMoves
<1>b. /\ RolesInv /\ TurnsInv /\ AdmissionsInv /\ FencedInv
      /\ ~misbehaved => GrantInv /\ QueueInv /\ TokensInv
  BY <1>a DEF ContentionInv, ExclusiveInv
<1>c. outcome' \notin {"rejected", "passed"} => Verdict'
  BY DEF Verdict, NoFalseAlarm, AcceptedIsReleased, AcceptedIsFenced
<1>d. outcome' = "rejected" /\ misbehaved' => Verdict'
  BY DEF Verdict, NoFalseAlarm, AcceptedIsReleased, AcceptedIsFenced
<1>1. ASSUME Contend PROVE Verdict'
  <2>1. Left = 8 /\ UNCHANGED misbehaved /\ \A p \in Clients : client[p] \in {"done", "failed"}
    BY <1>a, <1>1, ContentionOrder DEF Contend, At, Ended, brokerVars
  <2>2. ASSUME ~misbehaved PROVE outcome' = "none"
    <3>1. \A p \in Clients : client[p] = "done"
      BY <1>b, <2>1, <2>2 DEF GrantInv
    <3>2. LeaseAdmissionsAccepted(admissions)
      BY <1>a, <1>b, <2>1, <2>2, <3>1, CompleteIsAccepted DEF TokensInv
    <3> QED
      BY <1>1, <3>1, <3>2 DEF Contend
  <2>3. outcome' \in {"none", "rejected"}
    BY <1>1 DEF Contend
  <2> QED
    BY <1>c, <1>d, <2>1, <2>2, <2>3
<1>2. ASSUME AwaitEntered PROVE Verdict'
  <2>1. ~misbehaved => outcome' = "none"
    BY <1>b, <1>2 DEF AwaitEntered, GrantInv
  <2>2. outcome' \in {"none", "rejected"} /\ UNCHANGED misbehaved
    BY <1>2 DEF AwaitEntered, brokerVars
  <2> QED
    BY <1>c, <1>d, <2>1, <2>2
<1>3. ASSUME FinishWaiter PROVE Verdict'
  <2>1. ASSUME ~misbehaved PROVE outcome' = "none"
    <3>1. client["waiter"] = "done"
      BY <1>b, <1>3, <2>1 DEF FinishWaiter, Ended, GrantInv
    <3>2. ASSUME NEW t \in TokensOf("waiter"), NEW u \in TokensOf("owner") PROVE t > u
      <4>1. PICK a \in admissions : a.participant = "waiter" /\ a.token = t
        BY DEF TokensOf
      <4>2. PICK b \in admissions : b.participant = "owner" /\ b.token = u
        BY DEF TokensOf
      <4>3. b.token < a.token /\ a.token \in Nat /\ b.token \in Nat
        BY <1>a, <1>b, <2>1, <4>1, <4>2 DEF TokensInv, TypeOK, Admissions
      <4> QED
        BY <4>1, <4>2, <4>3
    <3> QED
      BY <1>3, <3>1, <3>2 DEF FinishWaiter
  <2>2. outcome' \in {"none", "rejected"} /\ UNCHANGED misbehaved
    BY <1>3 DEF FinishWaiter, brokerVars
  <2> QED
    BY <1>c, <1>d, <2>1, <2>2
<1>4. ASSUME Probe PROVE Verdict'
  <2>1. Left = 1
    BY <1>a, <1>4, ContentionOrder DEF Probe, At
  <2>2. /\ \A p \in Clients : client[p] = "done"
        /\ client["owner"] = "killed" /\ client["waiter"] = "done" /\ client["main"] = "none"
    BY <1>b, <2>1 DEF RolesInv
  <2>3. ASSUME ~misbehaved PROVE holder = "none" /\ waiters = <<>>
    <3>1. holder # "owner"
      BY <1>b, <2>2, <2>3 DEF TokensInv, TurnsInv
    <3>2. \A p \in Participants : client[p] \notin {"acquiring", "entered"}
                                  /\ (p # "owner" => client[p] # "killed")
      BY <2>2 DEF Participants
    <3>3. \A p \in Participants : holder # p
      BY <1>b, <2>3, <3>1, <3>2 DEF GrantInv
    <3>4. waiters = <<>>
      <4>1. waiters # <<>> => waiters[1] \in Participants /\ 1 \in 1..Len(waiters)
        BY <1>a DEF TypeOK
      <4> QED
        BY <1>b, <2>3, <3>2, <4>1 DEF QueueInv
    <3> QED
      BY <1>a, <3>3, <3>4 DEF TypeOK
  <2>4. UNCHANGED <<misbehaved, holder, waiters, admissions, scenario>>
    BY <1>4 DEF Probe, clientVars, brokerVars
  <2>5. CASE holder = "none" /\ waiters = <<>>
    <3>1. outcome' = "passed"
      BY <1>4, <2>5 DEF Probe
    <3> QED
      BY <1>b, <2>1, <2>4, <2>5, <3>1
         DEF Verdict, NoFalseAlarm, AcceptedIsReleased, AcceptedIsFenced, FencedInv
  <2>6. CASE ~(holder = "none" /\ waiters = <<>>)
    BY <1>4, <1>d, <2>3, <2>4, <2>6 DEF Probe
  <2> QED
    BY <2>5, <2>6
<1>5. ASSUME \/ StartRole("startOwner", "owner") \/ StartRole("startWaiter", "waiter")
             \/ AwaitReady \/ KillOwner \/ DeadlinePasses
      PROVE  Verdict'
  BY <1>a, <1>5, <1>c DEF StartRole, AwaitReady, KillOwner, DeadlinePasses
<1>6. ASSUME Others PROVE Verdict'
  <2>1. UNCHANGED outcome
    BY <1>6 DEF Others, BrokerGrants, ClientConnects, Acquire, Enter, Leave, ClientExits,
                AcquireTimesOut, BrokerReceives, BrokerNotices, driverVars
  <2> QED
    BY <1>a, <1>c, <2>1
<1> QED
  BY ContentionMoves, <1>1, <1>2, <1>3, <1>4, <1>5, <1>6 DEF ContentionDriver
-----------------------------------------------------------------------------
(* The rounds. *)

(* The first step that is left, *)
LEMMA RoundHead ==
    ASSUME TypeOK, Remains(todo, RoundSteps(round))
    PROVE  /\ Left \in Nat /\ todo # <<>>
           /\ Head(todo) \in {"acquire", "connect", "awaitDepth"} => Left > 6
           /\ Head(todo) = "close" => Left = 7
           /\ Head(todo) = "closeAndRelease" => Left = 6
           /\ Head(todo) = "release" => Left \in {2, 6}
           /\ Head(todo) = "settle" => Left = 5
           /\ Head(todo) = "awaitEmpty" => Left = 4
           /\ Head(todo) = "replace" => Left = 3
           /\ Head(todo) = "endRound" <=> Left = 1
<1> DEFINE l == Len(RoundSteps(round))
           n == Left
           h == Head(todo)
<1>1. l \in {9, 10} /\ n \in Nat /\ RoundTable(h, n, l) /\ todo # <<>>
  BY RoundOrder
<1> HIDE DEF l, n, h
<1>2. CASE l = 9
  BY <1>1, <1>2 DEF RoundTable, n, h
<1>3. CASE l = 10
  BY <1>1, <1>3 DEF RoundTable, n, h
<1> QED
  BY <1>1, <1>2, <1>3

(* and the one after it. *)
LEMMA RoundDone ==
    ASSUME TypeOK, Remains(todo, RoundSteps(round)), Done, UNCHANGED round,
           Head(todo) # "endRound"
    PROVE  /\ Remains(todo, RoundSteps(round))' /\ Left' \in Nat
           /\ Head(todo) = "acquire" => Head(todo') = "connect" /\ Left' > 6
           /\ Head(todo) = "connect" => Head(todo') = "awaitDepth" /\ Left' > 6
           /\ Head(todo) = "awaitDepth" => Head(todo') \in {"close", "closeAndRelease"} /\ Left' > 5
           /\ Head(todo) = "close" => Head(todo') = "release" /\ Left' = 6
           /\ Head(todo) = "closeAndRelease" => Head(todo') = "settle" /\ Left' = 5
           /\ Head(todo) = "release" => \/ Head(todo') = "settle" /\ Left' = 5
                                        \/ Head(todo') = "endRound" /\ Left' = 1
           /\ Head(todo) = "settle" => Head(todo') = "awaitEmpty" /\ Left' = 4
           /\ Head(todo) = "awaitEmpty" => Head(todo') = "replace" /\ Left' = 3
           /\ Head(todo) = "replace" => Head(todo') = "release" /\ Left' = 2
<1> DEFINE l == Len(RoundSteps(round))
           n == Left
           h == Head(todo)
           k == Head(todo')
<1>1. /\ l \in {9, 10} /\ n \in Nat /\ n >= 1 /\ n <= l /\ RoundTable(h, n, l)
  BY RoundOrder
<1>2. n > 1
  <2>1. n # 1
    BY <1>1, RoundHead
  <2> QED
    BY <1>1, <2>1
<1>3. Left' = n - 1 /\ Remains(todo, RoundSteps(round))' /\ RoundTable(k, n - 1, l)
  BY <1>2, RoundOrder
<1> HIDE DEF l, n, h, k
<1>4. n - 1 \in Nat
  BY <1>1, <1>2
<1>5. /\ h = "acquire" => k = "connect" /\ n - 1 > 6
      /\ h = "connect" => k = "awaitDepth" /\ n - 1 > 6
      /\ h = "awaitDepth" => k \in {"close", "closeAndRelease"} /\ n - 1 > 5
      /\ h = "close" => k = "release" /\ n - 1 = 6
      /\ h = "closeAndRelease" => k = "settle" /\ n - 1 = 5
      /\ h = "release" => \/ k = "settle" /\ n - 1 = 5
                          \/ k = "endRound" /\ n - 1 = 1
      /\ h = "settle" => k = "awaitEmpty" /\ n - 1 = 4
      /\ h = "awaitEmpty" => k = "replace" /\ n - 1 = 3
      /\ h = "replace" => k = "release" /\ n - 1 = 2
  <2>1. CASE l = 9
    BY <1>1, <1>2, <1>3, <2>1 DEF RoundTable
  <2>2. CASE l = 10
    BY <1>1, <1>2, <1>3, <2>2 DEF RoundTable
  <2> QED
    BY <1>1, <2>1, <2>2
<1> QED
  BY <1>3, <1>4, <1>5 DEF h, k

(* A round goes from an owned lease with waiters to a free one without. *)
LEMMA NextRoundInv ==
    ASSUME IInv, scenario = "waiter-races", Next, outcome' = "none"
    PROVE  RoundInv' /\ Remains(todo, RoundSteps(round))'
<1> DEFINE Goal == RoundInv' /\ Remains(todo, RoundSteps(round))'
<1> USE Bounds
<1>a. /\ TypeOK /\ outcome = "none" /\ Remains(todo, RoundSteps(round))
      /\ RoundClients /\ RoundQueue /\ RoundHolder
  BY RoundMoves DEF RoundInv
<1>b. RoundClients' /\ RoundQueue' /\ RoundHolder' /\ Remains(todo, RoundSteps(round))' => Goal
  BY DEF RoundInv
<1>c. UNCHANGED <<todo, round>> =>
          Head(todo') = Head(todo) /\ Left' = Left /\ Remains(todo, RoundSteps(round))'
  BY <1>a, RoundOrder
<1> HIDE DEF Goal
<1>1. ASSUME NEW p \in Participants, ClientConnects(p) PROVE Goal
  BY <1>1, <1>a DEF ClientConnects, RoundClients
<1>2. ASSUME NEW p \in Participants, Acquire(p) PROVE Goal
  BY <1>2, <1>a DEF Acquire, RoundClients
<1>3. ASSUME NEW p \in Participants, Enter(p) PROVE Goal
  <2>1. Head(todo') = Head(todo) /\ Left' = Left /\ Remains(todo, RoundSteps(round))'
    BY <1>3, <1>c DEF Enter, driverVars
  <2>2. RoundClients'
    BY <1>3, <1>a, <2>1 DEF Enter, TypeOK, RoundClients, clientVars, brokerVars, driverVars
  <2>3. RoundQueue'
    BY <1>3, <1>a, <2>1 DEF Enter, TypeOK, RoundQueue, clientVars, brokerVars, driverVars
  <2>4. RoundHolder'
    BY <1>3, <1>a, <2>1 DEF Enter, TypeOK, RoundHolder, clientVars, brokerVars, driverVars
  <2> QED
    BY <1>b, <2>1, <2>2, <2>3, <2>4
<1>4. ASSUME NEW p \in Participants, Leave(p) PROVE Goal
  BY <1>4, <1>a DEF Leave
<1>5. ASSUME NEW p \in Participants, ClientExits(p) PROVE Goal
  BY <1>5, <1>a DEF ClientExits, RoundClients
<1>6. ASSUME NEW p \in Participants, AcquireTimesOut(p) PROVE Goal
  <2>1. Head(todo') = Head(todo) /\ Left' = Left /\ Remains(todo, RoundSteps(round))'
    BY <1>6, <1>c DEF AcquireTimesOut, driverVars
  <2>2. RoundClients'
    BY <1>6, <1>a, <2>1
       DEF AcquireTimesOut, TypeOK, RoundClients, clientVars, brokerVars, driverVars
  <2>3. RoundQueue'
    BY <1>6, <1>a, <2>1 DEF AcquireTimesOut, TypeOK, RoundQueue, clientVars, brokerVars, driverVars
  <2>4. RoundHolder'
    BY <1>6, <1>a, <2>1
       DEF AcquireTimesOut, TypeOK, RoundHolder, clientVars, brokerVars, driverVars
  <2> QED
    BY <1>b, <2>1, <2>2, <2>3, <2>4
<1>7. ASSUME NEW p \in Participants, BrokerReceives(p) PROVE Goal
  <2>1. Head(todo') = Head(todo) /\ Left' = Left /\ Remains(todo, RoundSteps(round))'
    BY <1>7, <1>c DEF BrokerReceives, driverVars
  <2>2. RoundClients'
    BY <1>7, <1>a, <2>1
       DEF BrokerReceives, TypeOK, RoundClients, clientVars, brokerVars, driverVars
  <2>3. RoundQueue'
    <3>1. /\ p \in arriving /\ arriving' = arriving \ {p} /\ arriving \subseteq Clients
          /\ Head(todo) = "awaitDepth" /\ waiters \in Seq(Participants)
      BY <1>7, <1>a DEF BrokerReceives, TypeOK, RoundQueue
    <3>a. Len(waiters') = Len(waiters) + 1
      BY <1>7, <3>1 DEF BrokerReceives
    <3>2. IsFiniteSet(arriving)
      BY <3>1, FS_Subset, ClientsAssumption
    <3>3. /\ Cardinality(arriving') = Cardinality(arriving) - 1 /\ Cardinality(arriving) \in Nat
          /\ Len(waiters) \in Nat /\ Cardinality(Clients) \in Nat
      BY <3>1, <3>2, FS_RemoveElement, FS_CardinalityType, ClientsAssumption
    <3>4. Len(waiters) + Cardinality(arriving) = Cardinality(Clients) /\ Left > 6 /\ Left \in Nat
      BY <1>a, <3>1, RoundHead DEF RoundQueue
    <3>5. Len(waiters') + Cardinality(arriving') = Cardinality(Clients)
      BY <3>a, <3>3, <3>4
    <3> QED
      BY <2>1, <3>1, <3>4, <3>5 DEF RoundQueue
  <2>4. RoundHolder'
    BY <1>7, <1>a, <2>1 DEF BrokerReceives, TypeOK, RoundHolder, clientVars, brokerVars, driverVars
  <2> QED
    BY <1>b, <2>1, <2>2, <2>3, <2>4
<1>8. ASSUME NEW p \in Participants, BrokerNotices(p) PROVE Goal
  <2>1. Head(todo') = Head(todo) /\ Left' = Left /\ Remains(todo, RoundSteps(round))'
    BY <1>8, <1>c DEF BrokerNotices, driverVars
  <2>a. /\ client[p] = "closed" /\ p \in Clients /\ p # "main" /\ p # "none"
        /\ Head(todo) # "awaitDepth"
    BY <1>8, <1>a, ClientsAssumption DEF BrokerNotices, Dead, RoundClients
  <2>b. waiters = <<>> => waiters' = <<>> /\ holder = p
    <3>1. waiters = <<>> => ToSet(waiters) = {} /\ DOMAIN waiters = {}
      BY DEF ToSet
    <3> QED
      BY <1>8, <3>1 DEF BrokerNotices
  <2>2. RoundClients'
    BY <1>8, <1>a, <2>1 DEF BrokerNotices, TypeOK, RoundClients, clientVars, brokerVars, driverVars
  <2>3. RoundQueue'
    BY <1>8, <1>a, <2>1, <2>a, <2>b DEF BrokerNotices, RoundQueue
  <2>4. RoundHolder'
    <3>1. UNCHANGED holder \/ holder = p
      BY <1>8 DEF BrokerNotices
    <3>2. misbehaved => misbehaved'
      BY <1>8, <1>a DEF BrokerNotices, TypeOK
    <3>3. /\ UNCHANGED holder => RoundHolder'
          /\ holder = p => RoundHolder'
      BY <1>a, <2>1, <2>a, <3>2 DEF RoundHolder
    <3> QED
      BY <3>1, <3>3
  <2> QED
    BY <1>b, <2>1, <2>2, <2>3, <2>4
<1>9. ASSUME BrokerGrants PROVE Goal
  <2>1. Head(todo') = Head(todo) /\ Left' = Left /\ Remains(todo, RoundSteps(round))'
    BY <1>9, <1>c DEF BrokerGrants, driverVars
  <2>a. /\ Head(todo) \notin {"acquire", "connect", "awaitDepth", "close"}
        /\ Left > 3 /\ Left \in Nat /\ arriving = {}
    BY <1>9, <1>a, RoundHead DEF BrokerGrants, RoundQueue, RoundHolder
  <2>2. RoundClients'
    BY <1>9, <1>a, <2>1 DEF BrokerGrants, TypeOK, RoundClients, clientVars, brokerVars, driverVars
  <2>3. RoundQueue'
    BY <1>9, <2>1, <2>a DEF BrokerGrants, RoundQueue
  <2>4. RoundHolder'
    BY <2>1, <2>a DEF RoundHolder
  <2> QED
    BY <1>b, <2>1, <2>2, <2>3, <2>4
<1>10. ASSUME AcquireNow("acquire") PROVE Goal
  <2>1. /\ Head(todo) = "acquire" /\ Head(todo') = "connect" /\ Left' > 6 /\ Left' \in Nat
        /\ Remains(todo, RoundSteps(round))'
    BY <1>10, <1>a, RoundDone DEF AcquireNow, At
  <2>2. RoundClients'
    BY <1>10, <1>a, <2>1 DEF AcquireNow, TypeOK, RoundClients, clientVars, brokerVars
  <2>3. RoundQueue'
    BY <1>10, <1>a, <2>1 DEF AcquireNow, TypeOK, RoundQueue, clientVars, brokerVars
  <2>4. RoundHolder'
    BY <1>10, <1>a, <2>1 DEF AcquireNow, TypeOK, RoundHolder, clientVars, brokerVars
  <2> QED
    BY <1>b, <2>1, <2>2, <2>3, <2>4
<1>11. ASSUME AcquireNow("replace") PROVE Goal
  <2>1. /\ Head(todo) = "replace" /\ Head(todo') = "release" /\ Left' = 2 /\ Left = 3
        /\ Left' \in Nat
        /\ Remains(todo, RoundSteps(round))'
    BY <1>11, <1>a, RoundDone, RoundHead DEF AcquireNow, At
  <2>2. RoundClients'
    BY <1>11, <1>a, <2>1 DEF AcquireNow, TypeOK, RoundClients, clientVars, brokerVars
  <2>3. RoundQueue'
    BY <1>11, <1>a, <2>1 DEF AcquireNow, TypeOK, RoundQueue, clientVars, brokerVars
  <2>4. RoundHolder'
    BY <1>11, <1>a, <2>1 DEF AcquireNow, TypeOK, RoundHolder, clientVars, brokerVars
  <2> QED
    BY <1>b, <2>1, <2>2, <2>3, <2>4
<1>12. ASSUME ConnectWaiters PROVE Goal
  <2>1. /\ Head(todo) = "connect" /\ Head(todo') = "awaitDepth" /\ Left' > 6 /\ Left' \in Nat
        /\ Remains(todo, RoundSteps(round))'
    BY <1>12, <1>a, RoundDone DEF ConnectWaiters, At
  <2>2. RoundClients'
    BY <1>12, <1>a, <2>1 DEF ConnectWaiters, TypeOK, RoundClients, clientVars, brokerVars
  <2>3. RoundQueue'
    <3>1. waiters' = <<>> /\ arriving' = Clients
      BY <1>12, <1>a, <2>1 DEF ConnectWaiters, RoundQueue
    <3>2. Len(waiters') + Cardinality(arriving') = Cardinality(Clients)
      <4>1. Len(waiters') = 0 /\ Cardinality(arriving') = Cardinality(Clients)
        BY <3>1
      <4> QED
        BY <4>1, FS_CardinalityType, ClientsAssumption
    <3> QED
      BY <2>1, <3>1, <3>2 DEF RoundQueue
  <2>4. RoundHolder'
    BY <1>12, <1>a, <2>1 DEF ConnectWaiters, TypeOK, RoundHolder, clientVars, brokerVars
  <2> QED
    BY <1>b, <2>1, <2>2, <2>3, <2>4
<1>13. ASSUME AwaitDepth("awaitDepth", Cardinality(Clients)) PROVE Goal
  <2>0. Head(todo) = "awaitDepth" /\ Done /\ Len(waiters) = Cardinality(Clients)
    BY <1>13 DEF AwaitDepth, DepthReached, At
  <2>1. /\ Head(todo') \in {"close", "closeAndRelease"} /\ Left' > 5 /\ Left' \in Nat
        /\ Remains(todo, RoundSteps(round))'
    BY <1>13, <1>a, <2>0, RoundDone DEF AwaitDepth
  <2>2. RoundClients'
    BY <1>13, <1>a, <2>1, <2>0 DEF AwaitDepth, TypeOK, RoundClients, clientVars, brokerVars
  <2>3. RoundQueue'
    <3>1. IsFiniteSet(arriving) /\ Len(waiters) + Cardinality(arriving) = Cardinality(Clients)
      BY <1>a, <2>0, FS_Subset, ClientsAssumption DEF RoundQueue
    <3>2. Cardinality(arriving) = 0
      BY <2>0, <3>1, FS_CardinalityType, ClientsAssumption
    <3>3. arriving = {}
      BY <3>1, <3>2, FS_EmptySet
    <3> QED
      BY <1>13, <2>1, <3>3 DEF AwaitDepth, brokerVars, RoundQueue
  <2>4. RoundHolder'
    BY <1>13, <1>a, <2>1, <2>0 DEF AwaitDepth, TypeOK, RoundHolder, clientVars, brokerVars
  <2> QED
    BY <1>b, <2>1, <2>2, <2>3, <2>4
<1>14. ASSUME AwaitDepth("awaitEmpty", 0) PROVE Goal
  <2>0. Head(todo) = "awaitEmpty" /\ Done /\ Len(waiters) = 0 /\ holder = "none"
    BY <1>14 DEF AwaitDepth, DepthReached, At
  <2>1. /\ Head(todo') = "replace" /\ Left' = 3 /\ Left' \in Nat
        /\ Remains(todo, RoundSteps(round))'
    BY <1>14, <1>a, <2>0, RoundDone DEF AwaitDepth
  <2>2. RoundClients'
    BY <1>14, <1>a, <2>1, <2>0 DEF AwaitDepth, TypeOK, RoundClients, clientVars, brokerVars
  <2>3. RoundQueue'
    <3>1. waiters = <<>> /\ arriving = {}
      BY <1>a, <2>0 DEF TypeOK, RoundQueue
    <3> QED
      BY <1>14, <2>1, <3>1 DEF AwaitDepth, brokerVars, RoundQueue
  <2>4. RoundHolder'
    BY <1>14, <1>a, <2>1, <2>0 DEF AwaitDepth, TypeOK, RoundHolder, clientVars, brokerVars
  <2> QED
    BY <1>b, <2>1, <2>2, <2>3, <2>4
<1>15. ASSUME NEW p \in Clients, CloseWaiter(p) PROVE Goal
  <2>1. Head(todo') = Head(todo) /\ Left' = Left /\ Remains(todo, RoundSteps(round))'
    BY <1>15, <1>c DEF CloseWaiter, driverVars
  <2>2. RoundClients'
    BY <1>15, <1>a, <2>1
       DEF CloseWaiter, TypeOK, RoundClients, clientVars, brokerVars, driverVars, At
  <2>3. RoundQueue'
    BY <1>15, <1>a, <2>1 DEF CloseWaiter, TypeOK, RoundQueue, clientVars, brokerVars, driverVars, At
  <2>4. RoundHolder'
    BY <1>15, <1>a, <2>1
       DEF CloseWaiter, TypeOK, RoundHolder, clientVars, brokerVars, driverVars, At
  <2> QED
    BY <1>b, <2>1, <2>2, <2>3, <2>4
<1>16. ASSUME Release PROVE Goal
  <2>1. CASE Head(todo) = "release"
    <3>1. /\ Done /\ UNCHANGED <<round, client, fulfilled, waiters, arriving, ghosts, lucky>>
      BY <1>16, <2>1 DEF Release, Done, clientVars
    <3>a. \/ holder' = "none" /\ UNCHANGED <<retained, misbehaved>>
          \/ holder' = "main" /\ misbehaved'
      BY <1>16 DEF Release
    <3>2. /\ \/ Head(todo') = "settle" /\ Left' = 5
             \/ Head(todo') = "endRound" /\ Left' = 1
          /\ Remains(todo, RoundSteps(round))'
      BY <1>a, <2>1, <3>1, RoundDone
    <3>b. Left' = 1 => Left = 2
      <4>1. Left' = Left - 1 /\ Left \in {2, 6}
        BY <1>a, <2>1, <3>1, RoundHead DEF Left, TypeOK, Done
      <4> QED
        BY <4>1
    <3>3. RoundClients'
      BY <1>a, <2>1, <3>1, <3>a, <3>2 DEF RoundClients
    <3>4. RoundQueue'
      BY <1>a, <2>1, <3>1, <3>2, <3>b DEF RoundQueue
    <3>5. RoundHolder'
      BY <3>a, <3>2 DEF RoundHolder
    <3> QED
      BY <1>b, <3>2, <3>3, <3>4, <3>5
  <2>2. CASE Head(todo) = "closeAndRelease"
    <3>1. UNCHANGED <<todo, round, clientVars, waiters, arriving, ghosts, lucky, retained,
                      misbehaved>>
      BY <1>16, <2>2 DEF Release
    <3>2. /\ Head(todo') = Head(todo) /\ Left' = Left /\ Remains(todo, RoundSteps(round))'
          /\ Left = 6
      BY <1>a, <1>c, <2>2, <3>1, RoundHead
    <3>3. RoundClients'
      BY <1>a, <3>1, <3>2 DEF RoundClients, clientVars
    <3>4. RoundQueue'
      BY <1>a, <3>1, <3>2 DEF RoundQueue
    <3>5. RoundHolder'
      BY <2>2, <3>2 DEF RoundHolder
    <3> QED
      BY <1>b, <3>2, <3>3, <3>4, <3>5
  <2> QED
    BY <1>16, <2>1, <2>2 DEF Release, At
<1>17. ASSUME AllClosed PROVE Goal
  <2>1. /\ Head(todo) \in {"close", "closeAndRelease"}
        /\ \/ Head(todo') = "release" /\ Left' = 6
           \/ Head(todo') = "settle" /\ Left' = 5
        /\ Remains(todo, RoundSteps(round))'
    BY <1>17, <1>a, RoundDone DEF AllClosed, At
  <2>a. /\ UNCHANGED <<client, fulfilled, ghosts, waiters, arriving, retained, misbehaved, lucky>>
        /\ \A p \in Clients : client[p] = "closed"
    BY <1>17 DEF AllClosed, clientVars, brokerVars
  <2>2. RoundClients'
    BY <1>a, <2>1, <2>a DEF RoundClients
  <2>3. RoundQueue'
    BY <1>a, <2>1, <2>a DEF RoundQueue
  <2>4. RoundHolder'
    BY <2>1 DEF RoundHolder
  <2> QED
    BY <1>b, <2>1, <2>2, <2>3, <2>4
<1>18. ASSUME Settle PROVE Goal
  <2>1. /\ Head(todo) = "settle" /\ Head(todo') = "awaitEmpty" /\ Left' = 4 /\ Left' \in Nat
        /\ Remains(todo, RoundSteps(round))'
    BY <1>18, <1>a, RoundDone DEF Settle, At
  <2>a. UNCHANGED <<client, fulfilled, holder, waiters, arriving, retained, misbehaved, lucky>>
    BY <1>18 DEF Settle, clientVars, brokerVars
  <2>2. RoundClients'
    <3>1. ~lucky => ghosts' = 0
      <4>1. ~lucky => fulfilled = {} /\ ghosts = 0
        BY <1>a DEF RoundClients
      <4>2. ghosts' = ghosts + Cardinality(fulfilled)
        BY <1>18 DEF Settle
      <4>3. fulfilled = {} => Cardinality(fulfilled) = 0
        BY FS_EmptySet, Zenon
      <4> QED
        BY <4>1, <4>2, <4>3
    <3> QED
      BY <1>a, <2>1, <2>a, <3>1 DEF RoundClients
  <2>3. RoundQueue'
    BY <1>a, <2>1, <2>a DEF RoundQueue
  <2>4. RoundHolder'
    BY <2>1 DEF RoundHolder
  <2> QED
    BY <1>b, <2>1, <2>2, <2>3, <2>4
<1>19. ASSUME EndRound PROVE Goal
  <2> DEFINE P == RoundSteps(round')
  <2>1. todo' = P /\ Left = 1 /\ UNCHANGED <<clientVars, brokerVars, ghosts>> /\ round' \in Nat
    <3>1. Left = 1 /\ UNCHANGED <<clientVars, brokerVars, ghosts>> /\ round \in Nat
      BY <1>19, <1>a, RoundHead DEF EndRound, At, TypeOK
    <3>2. CASE round + 1 < Rounds
      BY <1>19, <3>1, <3>2 DEF EndRound
    <3>3. CASE ~(round + 1 < Rounds)
      BY <1>19, <3>3 DEF EndRound
    <3> QED
      BY <3>1, <3>2, <3>3
  <2>2. Head(todo') = "acquire" /\ Left' >= 9 /\ Left' \in Nat /\ Remains(todo', P)
    <3>1. P \in Seq(StepNames) /\ Len(P) \in Nat /\ Len(P) >= 9 /\ P[1] = "acquire"
      BY <2>1, RoundProgram
    <3> HIDE DEF P
    <3>2. Head(P) = P[1] /\ Remains(P, P)
      BY <3>1 DEF Remains
    <3> QED
      BY <2>1, <3>1, <3>2, Zenon DEF Left
  <2> HIDE DEF P
  <2>3. RoundClients'
    BY <1>a, <2>1, <2>2 DEF RoundClients, clientVars, brokerVars
  <2>4. RoundQueue'
    BY <1>19, <1>a, <2>1, <2>2 DEF EndRound, At, RoundQueue, brokerVars
  <2>5. RoundHolder'
    BY <1>a, <2>1, <2>2 DEF RoundHolder, brokerVars
  <2> QED
    BY <1>b, <2>2, <2>3, <2>4, <2>5 DEF P
<1>20. ASSUME DeadlinePasses PROVE Goal
  BY <1>20, <1>a DEF DeadlinePasses
<1> QED
  BY RoundMoves, <1>1, <1>2, <1>3, <1>4, <1>5, <1>6, <1>7, <1>8, <1>9, <1>10, <1>11, <1>12, <1>13,
     <1>14, <1>15, <1>16, <1>17, <1>18, <1>19, <1>20
     DEF RoundDriver, Others, Goal

(* The verdict of the waiter races. *)
LEMMA RoundVerdict ==
    ASSUME IInv, scenario = "waiter-races", Next
    PROVE  Verdict'
<1>a. /\ TypeOK /\ outcome = "none" /\ Remains(todo, RoundSteps(round))
      /\ RoundClients /\ RoundQueue /\ RoundHolder
  BY RoundMoves DEF RoundInv
<1>b. outcome' \notin {"rejected", "passed"} => Verdict'
  BY DEF Verdict, NoFalseAlarm, AcceptedIsReleased, AcceptedIsFenced
<1>c. outcome' = "rejected" /\ (misbehaved' \/ lucky') => Verdict'
  BY DEF Verdict, NoFalseAlarm, AcceptedIsReleased, AcceptedIsFenced
<1>1. ASSUME UNCHANGED outcome PROVE Verdict'
  BY <1>1, <1>a, <1>b
<1>2. ASSUME AcquireNow("acquire") PROVE Verdict'
  <2>1. CASE holder = "none"
    BY <1>1, <1>2, <2>1 DEF AcquireNow
  <2>2. CASE holder # "none"
    <3>1. Head(todo) = "acquire" /\ outcome' = "rejected" /\ UNCHANGED misbehaved
      BY <1>2, <2>2 DEF AcquireNow, At
    <3> QED
      BY <1>a, <1>c, <2>2, <3>1 DEF RoundHolder
  <2> QED
    BY <2>1, <2>2
<1>3. ASSUME AcquireNow("replace") PROVE Verdict'
  <2>1. Head(todo) = "replace"
    BY <1>3 DEF AcquireNow, At
  <2>2. Left = 3
    BY <1>a, <2>1, RoundHead
  <2>3. holder = "none"
    BY <1>a, <2>2 DEF RoundHolder
  <2> QED
    BY <1>1, <1>3, <2>3 DEF AcquireNow
<1>4. ASSUME NEW step, NEW expected, AwaitDepth(step, expected) PROVE Verdict'
  <2>1. UNCHANGED outcome \/ (outcome' = "rejected" /\ retained # {})
    BY <1>4 DEF AwaitDepth
  <2>2. UNCHANGED misbehaved
    BY <1>4 DEF AwaitDepth, brokerVars
  <2> QED
    BY <1>1, <1>a, <1>c, <2>1, <2>2 DEF RoundClients
<1>5. ASSUME EndRound PROVE Verdict'
  <2>1. Head(todo) = "endRound"
    BY <1>5 DEF EndRound, At
  <2>2. Left = 1
    BY <1>a, <2>1, RoundHead
  <2>3. waiters = <<>> /\ holder \in {"none", "main"} /\ (ghosts # 0 => lucky)
    BY <1>a, <2>2 DEF RoundClients, RoundQueue, RoundHolder
  <2>4. UNCHANGED <<scenario, holder, waiters, lucky>>
    BY <1>5 DEF EndRound, brokerVars
  <2>5. \/ UNCHANGED outcome
        \/ outcome' = "passed"
        \/ outcome' = "rejected" /\ ghosts # 0
    <3>1. CASE round + 1 < Rounds
      BY <1>5, <3>1 DEF EndRound
    <3>2. CASE ~(round + 1 < Rounds)
      BY <1>5, <2>3, <3>2 DEF EndRound
    <3> QED
      BY <3>1, <3>2
  <2>6. outcome' = "passed" => Verdict'
    BY <2>3, <2>4 DEF Verdict, NoFalseAlarm, AcceptedIsReleased, AcceptedIsFenced
  <2> QED
    BY <1>1, <1>c, <2>3, <2>4, <2>5, <2>6
<1>6. ASSUME \/ ConnectWaiters \/ (\E p \in Clients : CloseWaiter(p)) \/ Release \/ AllClosed
             \/ Settle
      PROVE  UNCHANGED outcome
  BY <1>6 DEF ConnectWaiters, CloseWaiter, Release, AllClosed, Settle, driverVars
<1>7. ASSUME Others PROVE UNCHANGED outcome
  BY <1>7 DEF Others, BrokerGrants, ClientConnects, Acquire, Enter, Leave, ClientExits,
              AcquireTimesOut, BrokerReceives, BrokerNotices, driverVars
<1>8. ASSUME DeadlinePasses PROVE Verdict'
  BY <1>8, <1>b DEF DeadlinePasses
<1> QED
  BY RoundMoves, <1>1, <1>2, <1>3, <1>4, <1>5, <1>6, <1>7, <1>8 DEF RoundDriver
-----------------------------------------------------------------------------
(* A step keeps the scenario. *)
LEMMA SameScenario == Next => UNCHANGED scenario
<1>1. ASSUME Others PROVE UNCHANGED scenario
  BY <1>1 DEF Others, BrokerGrants, ClientConnects, Acquire, Enter, Leave, ClientExits,
              AcquireTimesOut, BrokerReceives, BrokerNotices, driverVars
<1>2. ASSUME ContentionDriver PROVE UNCHANGED scenario
  BY <1>2 DEF ContentionDriver, Contend, StartRole, AwaitEntered, AwaitReady, KillOwner,
              FinishWaiter, Probe
<1>3. ASSUME RoundDriver PROVE UNCHANGED scenario
  BY <1>3 DEF RoundDriver, AcquireNow, ConnectWaiters, AwaitDepth, CloseWaiter, Release,
              AllClosed, Settle, EndRound, driverVars
<1>4. ASSUME DeadlinePasses PROVE UNCHANGED scenario
  BY <1>4 DEF DeadlinePasses
<1>5. Driver => ContentionDriver \/ RoundDriver
  BY DEF Driver, ContentionDriver, RoundDriver
<1> QED
  BY <1>1, <1>2, <1>3, <1>4, <1>5 DEF Next

(* Every step preserves the inductive invariant. *)
LEMMA NextIInv == IInv /\ [Next]_vars => IInv'
<1> SUFFICES ASSUME IInv, [Next]_vars PROVE IInv'
  OBVIOUS
<1>1. TypeOK'
  BY NextTypeOK
<1>2. CASE UNCHANGED vars
  <2>1. /\ UNCHANGED <<scenario, round, todo, outcome, ghosts>>
        /\ UNCHANGED <<client, sequence, admissions, fulfilled>>
        /\ UNCHANGED <<holder, waiters, token, arriving, reply, retained, misbehaved, lucky>>
    BY <1>2 DEF vars, driverVars, clientVars, brokerVars
  <2>2. Verdict'
    BY <2>1 DEF IInv, Verdict, NoFalseAlarm, AcceptedIsReleased, AcceptedIsFenced
  <2>3. ASSUME outcome' = "none"
        PROVE  /\ Remains(todo, Program)'
               /\ scenario' = "contention" => ContentionInv'
               /\ scenario' = "waiter-races" => RoundInv'
    <3>1. /\ Remains(todo, Program)
          /\ scenario = "contention" => ContentionInv
          /\ scenario = "waiter-races" => RoundInv
      BY <2>1, <2>3 DEF IInv
    <3>2. Remains(todo, Program)' <=> Remains(todo, Program)
      BY <2>1 DEF Program
    <3>3. ContentionInv' <=> ContentionInv
      <4>1. RolesInv' <=> RolesInv
        BY <2>1, Zenon DEF RolesInv, Left
      <4>2. TurnsInv' <=> TurnsInv
        BY <2>1 DEF TurnsInv
      <4>3. AdmissionsInv' <=> AdmissionsInv
        BY <2>1, SMT DEF AdmissionsInv, Been, Inside
      <4>4. FencedInv' <=> FencedInv
        BY <2>1, Zenon DEF FencedInv, Left
      <4>5. (GrantInv' <=> GrantInv) /\ (QueueInv' <=> QueueInv)
        BY <2>1, Zenon DEF GrantInv, QueueInv
      <4>6. TokensInv' <=> TokensInv
        BY <2>1, Zenon DEF TokensInv
      <4> QED
        BY <2>1, <4>1, <4>2, <4>3, <4>4, <4>5, <4>6 DEF ContentionInv, ExclusiveInv
    <3>4. RoundInv' <=> RoundInv
      <4>1. RoundClients' <=> RoundClients
        BY <2>1, Zenon DEF RoundClients
      <4>2. RoundQueue' <=> RoundQueue
        BY <2>1, Zenon DEF RoundQueue, Left
      <4>3. RoundHolder' <=> RoundHolder
        BY <2>1, Zenon DEF RoundHolder, Left
      <4> QED
        BY <4>1, <4>2, <4>3 DEF RoundInv
    <3> QED
      BY <2>1, <3>1, <3>2, <3>3, <3>4
  <2> QED
    BY <1>1, <2>2, <2>3 DEF IInv
<1>3. CASE Next /\ scenario = "contention"
  <2>1. scenario' = "contention" /\ Verdict'
    BY <1>3, SameScenario, ContentionVerdict
  <2>2. ASSUME outcome' = "none" PROVE Remains(todo, Program)' /\ ContentionInv'
    <3>1. Remains(todo, ContentionSteps)'
      BY <1>3, <2>2, ContentionRemains
    <3>2. RolesInv' /\ TurnsInv' /\ AdmissionsInv' /\ FencedInv'
      BY <1>3, <2>2, ContentionRoles, ContentionTurns, ContentionAdmissions, ContentionFenced
    <3>3. ASSUME ~misbehaved' PROVE ExclusiveInv' /\ TokensInv'
      BY <1>3, <2>2, <3>3, ContentionGrants, ContentionQueue, ContentionTokens DEF ExclusiveInv
    <3> QED
      BY <2>1, <3>1, <3>2, <3>3 DEF Program, ContentionInv
  <2> QED
    BY <1>1, <2>1, <2>2 DEF IInv
<1>4. CASE Next /\ scenario = "waiter-races"
  <2>1. scenario' = "waiter-races" /\ Verdict'
    BY <1>4, SameScenario, RoundVerdict
  <2>2. ASSUME outcome' = "none" PROVE Remains(todo, Program)' /\ RoundInv'
    <3>1. Remains(todo, RoundSteps(round))' /\ RoundInv'
      BY <1>4, <2>2, NextRoundInv
    <3> QED
      BY <2>1, <3>1 DEF Program
  <2> QED
    BY <1>1, <2>1, <2>2 DEF IInv
<1> QED
  BY <1>2, <1>3, <1>4 DEF IInv, TypeOK

(* The contention's clients take turns and its tokens are those the broker
   gave them; a round ends with the lease free and its waiters closed. *)
THEOREM LeaseInvariant == Spec => []IInv
<1> QED
  BY InitIInv, NextIInv, PTL DEF Spec

(* No correct broker is rejected by assertLeaseAdmissions, by the probe, by an
   acquisition with waitSeconds 0, by waitForWaiterDepth or by
   assertLeaseWaiterRaceEvidence, however late it notices that an owner or a
   waiter is gone, unless a waiter was granted the lease before it was closed;
   for every set of clients, number of critical sections and of rounds. *)
THEOREM LeaseNoFalseAlarm == Spec => []NoFalseAlarm
<1>1. IInv => NoFalseAlarm
  BY DEF IInv, Verdict
<1> QED
  BY <1>1, LeaseInvariant, PTL

(* A run that passes has left no owner and no waiter behind, though the broker
   may have kept a lease or what a dead session had, or granted an old number;
   the contenders' fencing tokens were unique and the waiter's was higher than
   the killed owner's. *)
THEOREM LeaseAcceptedIsTrue == Spec => []AcceptedIsTrue
<1>1. IInv => AcceptedIsTrue
  BY DEF IInv, Verdict, AcceptedIsTrue
<1> QED
  BY <1>1, LeaseInvariant, PTL
=============================================================================
