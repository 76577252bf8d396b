------------------------ MODULE DurabilityCutsProofs ------------------------
(* Proofs about DurabilityCuts for every campaign: any domains, number of
   iterations, seed and combination of misbehaviours. *)
EXTENDS DurabilityCuts, TLAPS

StepNames ==
    {"healthy", "latency", "reset", "partition", "pauseSqrzl", "unpauseSqrzl", "startGated",
     "startUngated", "awaitReady", "awaitDispatched", "awaitAcknowledged", "signal", "killFitz",
     "restartFitz", "ensureReady", "finishWriter", "verify", "judge"}

CrashCuts == {"request-dispatch", "blocked-provider-access", "provider-recovery",
              "broker-kill", "acknowledgement", "restart-with-storage-inflight"}
StorageFaults == {"bounded-latency", "connection-reset", "provider-partition",
                  "restored-provider", "fitz-crash-inflight"}

(* How steps are ordered in a sequence q of them: a occurs; every a has a b
   after it; no a has one; an a that has a b after it has a c after it. *)
Has(q, a) == \E i \in 1..Len(q) : q[i] = a
After(q, a, b) ==
    \A i \in 1..Len(q) : q[i] = a => \E j \in 1..Len(q) : i < j /\ q[j] = b
NotAfter(q, a, b) == \A i, j \in 1..Len(q) : i < j => ~(q[i] = a /\ q[j] = b)
Brings(q, a, b, c) ==
    \A i, k \in 1..Len(q) : i < k /\ q[i] = a /\ q[k] = b =>
        \E j \in 1..Len(q) : i < j /\ q[j] = c

(* The order of the driver's steps that the properties rest on, in whatever is
   left of the baseline, of an iteration or of the verification. *)
FaultsAreUndone(q) ==
    /\ After(q, "pauseSqrzl", "unpauseSqrzl")
    /\ After(q, "unpauseSqrzl", "restartFitz")
    /\ After(q, "killFitz", "restartFitz")
    /\ \A mode \in {"latency", "reset", "partition"} : After(q, mode, "healthy")

OneWriter(q) ==
    /\ \A s \in {"startGated", "startUngated"} :
          /\ After(q, s, "finishWriter")
          /\ \A later \in {"startGated", "startUngated", "pauseSqrzl"} : NotAfter(q, s, later)
          /\ NotAfter(q, "finishWriter", s)
          /\ NotAfter(q, "killFitz", s)
    /\ NotAfter(q, "finishWriter", "finishWriter")
    /\ NotAfter(q, "signal", "signal")

VerdictIsLast(q) ==
    /\ After(q, "verify", "judge")
    /\ \A s \in StepNames \ {"judge"} : NotAfter(q, "verify", s) /\ NotAfter(q, "judge", s)
    /\ \A s \in StepNames \ {"healthy", "ensureReady", "verify"} : NotAfter(q, s, "judge")

WellOrdered(q) == FaultsAreUndone(q) /\ OneWriter(q) /\ VerdictIsLast(q)

(* Rest is the part of the steps after the first one. *)
LEMMA TailSteps ==
    ASSUME NEW q \in Seq(StepNames), q # <<>>
    PROVE  /\ Tail(q) \in Seq(StepNames)
           /\ Len(Tail(q)) = Len(q) - 1 /\ Len(q) \in Nat \ {0}
           /\ \A i \in 1..Len(Tail(q)) : Tail(q)[i] = q[i + 1]
           /\ Head(q) = q[1] /\ Head(q) \in StepNames
OBVIOUS

(* What the first step tells about the rest. *)
LEMMA HeadTail ==
    ASSUME NEW q \in Seq(StepNames), q # <<>>
    PROVE  /\ Has(q, Head(q))
           /\ \A s : Has(Tail(q), s) => Has(q, s)
           /\ \A s : Has(q, s) /\ s # Head(q) => Has(Tail(q), s)
           /\ \A s : After(q, Head(q), s) => Has(Tail(q), s)
           /\ \A s : NotAfter(q, Head(q), s) => ~Has(Tail(q), s)
           /\ \A b, c : Brings(q, Head(q), b, c) /\ Has(Tail(q), b) => Has(Tail(q), c)
<1> DEFINE t == Tail(q)
<1>1. /\ Len(t) = Len(q) - 1 /\ Len(q) \in Nat \ {0}
      /\ \A i \in 1..Len(t) : t[i] = q[i + 1]
      /\ Head(q) = q[1]
  BY TailSteps
<1>2. \A j \in 1..Len(q) : j > 1 => j - 1 \in 1..Len(t) /\ t[j - 1] = q[j]
  BY <1>1
<1>3. \A i \in 1..Len(t) : i + 1 \in 1..Len(q) /\ 1 < i + 1 /\ t[i] = q[i + 1]
  BY <1>1
<1>4. 1 \in 1..Len(q)
  BY <1>1
<1> HIDE DEF t
<1>5. Has(q, Head(q))
  BY <1>1, <1>4 DEF Has
<1>6. \A s : Has(t, s) => Has(q, s)
  BY <1>3 DEF Has
<1>7. \A s : Has(q, s) /\ s # Head(q) => Has(t, s)
  <2> SUFFICES ASSUME NEW s, Has(q, s), s # Head(q) PROVE Has(t, s)
    OBVIOUS
  <2>1. PICK j \in 1..Len(q) : q[j] = s
    BY DEF Has
  <2>2. j > 1
    BY <1>1, <2>1
  <2> QED
    BY <1>2, <2>1, <2>2 DEF Has
<1>8. \A s : After(q, Head(q), s) => Has(t, s)
  <2> SUFFICES ASSUME NEW s, After(q, Head(q), s) PROVE Has(t, s)
    OBVIOUS
  <2>1. PICK j \in 1..Len(q) : 1 < j /\ q[j] = s
    BY <1>1, <1>4 DEF After
  <2> QED
    BY <1>2, <2>1 DEF Has
<1>9. \A s : NotAfter(q, Head(q), s) => ~Has(t, s)
  <2> SUFFICES ASSUME NEW s, NotAfter(q, Head(q), s), NEW i \in 1..Len(t), t[i] = s
               PROVE  FALSE
    BY DEF Has
  <2> QED
    BY <1>1, <1>3, <1>4 DEF NotAfter
<1>10. \A b, c : Brings(q, Head(q), b, c) /\ Has(t, b) => Has(t, c)
  <2> SUFFICES ASSUME NEW b, NEW c, Brings(q, Head(q), b, c), NEW i \in 1..Len(t), t[i] = b
               PROVE  Has(t, c)
    BY DEF Has
  <2>1. i + 1 \in 1..Len(q) /\ 1 < i + 1 /\ q[1] = Head(q) /\ q[i + 1] = b
    BY <1>1, <1>3
  <2>2. PICK j \in 1..Len(q) : 1 < j /\ q[j] = c
    BY <1>4, <2>1 DEF Brings
  <2> QED
    BY <1>2, <2>2 DEF Has
<1> QED
  BY <1>5, <1>6, <1>7, <1>8, <1>9, <1>10 DEF t

(* The order of the steps holds of what is left of them. *)
LEMMA TailOrder ==
    ASSUME NEW q \in Seq(StepNames), q # <<>>
    PROVE  /\ \A a, b : After(q, a, b) => After(Tail(q), a, b)
           /\ \A a, b : NotAfter(q, a, b) => NotAfter(Tail(q), a, b)
           /\ \A a, b, c : Brings(q, a, b, c) => Brings(Tail(q), a, b, c)
<1> DEFINE t == Tail(q)
<1>1. /\ Len(t) = Len(q) - 1 /\ Len(q) \in Nat \ {0}
      /\ \A i \in 1..Len(t) : t[i] = q[i + 1]
  BY TailSteps
<1>2. \A j \in 1..Len(q) : j > 1 => j - 1 \in 1..Len(t) /\ t[j - 1] = q[j]
  BY <1>1
<1>3. \A i \in 1..Len(t) : i + 1 \in 1..Len(q) /\ 1 < i + 1 /\ t[i] = q[i + 1]
  BY <1>1
<1> HIDE DEF t
<1>4. ASSUME NEW a, NEW b, After(q, a, b) PROVE After(t, a, b)
  <2> SUFFICES ASSUME NEW i \in 1..Len(t), t[i] = a
               PROVE  \E j \in 1..Len(t) : i < j /\ t[j] = b
    BY DEF After
  <2>1. PICK j \in 1..Len(q) : i + 1 < j /\ q[j] = b
    BY <1>3, <1>4 DEF After
  <2>2. j - 1 \in 1..Len(t) /\ t[j - 1] = b /\ i < j - 1
    BY <1>2, <2>1
  <2> QED
    BY <2>2
<1>5. ASSUME NEW a, NEW b, NotAfter(q, a, b) PROVE NotAfter(t, a, b)
  <2> SUFFICES ASSUME NEW i \in 1..Len(t), NEW j \in 1..Len(t), i < j, t[i] = a, t[j] = b
               PROVE  FALSE
    BY DEF NotAfter
  <2> QED
    BY <1>3, <1>5 DEF NotAfter
<1>6. ASSUME NEW a, NEW b, NEW c, Brings(q, a, b, c) PROVE Brings(t, a, b, c)
  <2> SUFFICES ASSUME NEW i \in 1..Len(t), NEW k \in 1..Len(t), i < k, t[i] = a, t[k] = b
               PROVE  \E j \in 1..Len(t) : i < j /\ t[j] = c
    BY DEF Brings
  <2>1. i + 1 \in 1..Len(q) /\ k + 1 \in 1..Len(q) /\ i + 1 < k + 1 /\ q[i + 1] = a /\ q[k + 1] = b
    BY <1>3
  <2>2. PICK j \in 1..Len(q) : i + 1 < j /\ q[j] = c
    BY <1>6, <2>1 DEF Brings
  <2>3. j - 1 \in 1..Len(t) /\ t[j - 1] = c /\ i < j - 1
    BY <1>2, <2>2
  <2> QED
    BY <2>3
<1> QED
  BY <1>4, <1>5, <1>6 DEF t

(* Taking the first step off keeps the order of the others. *)
LEMMA TailWellOrdered ==
    ASSUME NEW q \in Seq(StepNames), q # <<>>, WellOrdered(q)
    PROVE  WellOrdered(Tail(q))
BY TailOrder DEF WellOrdered, FaultsAreUndone, OneWriter, VerdictIsLast

(* What the plan makes sure of in an iteration with the given identity: its
   writer is gated or not, and the fault is set before the operations start and
   lifted after they were dispatched. *)
Gated(identity) == identity \in CrashCuts \/ WaitForGate(identity)

PlanOrder(q, identity) ==
    /\ Gated(identity) => ~Has(q, "startUngated")
    /\ ~Gated(identity) => ~Has(q, "startGated")
    /\ Gated(identity) /\ identity # "request-dispatch" =>
          After(q, "startGated", "awaitDispatched")
    /\ PausesProvider(identity) =>
          /\ After(q, "pauseSqrzl", "startGated")
          /\ NotAfter(q, "unpauseSqrzl", "awaitDispatched")
          /\ NotAfter(q, "unpauseSqrzl", "startGated")
    /\ ~PausesProvider(identity) => ~Has(q, "pauseSqrzl")
    /\ identity = "bounded-latency" =>
          /\ ~Has(q, "reset") /\ ~Has(q, "partition")
          /\ After(q, "latency", "startUngated")
          /\ Brings(q, "healthy", "finishWriter", "latency")
    /\ identity = "connection-reset" =>
          /\ ~Has(q, "latency") /\ ~Has(q, "partition")
          /\ After(q, "reset", "signal")
          /\ Brings(q, "healthy", "awaitDispatched", "reset")
    /\ identity \in {"provider-partition", "fitz-crash-inflight"} =>
          /\ ~Has(q, "latency") /\ ~Has(q, "reset")
          /\ After(q, "partition", "signal")
          /\ Brings(q, "healthy", "awaitDispatched", "partition")
    /\ identity = "acknowledgement" =>
          /\ After(q, "startGated", "awaitAcknowledged")
          /\ NotAfter(q, "killFitz", "awaitAcknowledged")

(* A whole iteration has a writer, and the fault of its identity. *)
PlanBegins(q, identity) ==
    /\ Has(q, "finishWriter") /\ ~Has(q, "judge")
    /\ Has(q, "startGated") \/ Has(q, "startUngated")
    /\ PausesProvider(identity) => Has(q, "pauseSqrzl")
    /\ identity = "bounded-latency" => Has(q, "latency")
    /\ identity = "connection-reset" => Has(q, "reset")
    /\ identity \in {"provider-partition", "fitz-crash-inflight"} => Has(q, "partition")

IsPlan(q, identity) ==
    q \in Seq(StepNames) /\ WellOrdered(q) /\ PlanOrder(q, identity) /\ PlanBegins(q, identity)

(* The plan of an iteration of crash-cuts. *)
LEMMA CrashCutPlanned ==
    ASSUME NEW cut \in CrashCuts
    PROVE  IsPlan(CrashCutSteps(cut), cut)
<1>1. IsPlan(CrashCutSteps("request-dispatch"), "request-dispatch")
  <2> DEFINE q == CrashCutSteps("request-dispatch")
  <2>1. /\ q \in Seq(StepNames) /\ Len(q) = 6
        /\ q[1] = "startGated" /\ q[2] = "awaitReady" /\ q[3] = "signal"
        /\ q[4] = "killFitz" /\ q[5] = "restartFitz" /\ q[6] = "finishWriter"
    BY DEF CrashCutSteps, When, PausesProvider, StepNames
  <2> HIDE DEF q
  <2>2. FaultsAreUndone(q)
    BY <2>1 DEF FaultsAreUndone, After
  <2>3. OneWriter(q)
    BY <2>1 DEF OneWriter, After, NotAfter
  <2>4. VerdictIsLast(q)
    BY <2>1 DEF VerdictIsLast, After, NotAfter
  <2>5. PlanOrder(q, "request-dispatch")
    BY <2>1 DEF PlanOrder, Gated, CrashCuts, WaitForGate, PausesProvider, Has, After, NotAfter, Brings
  <2>6. PlanBegins(q, "request-dispatch")
    BY <2>1 DEF PlanBegins, PausesProvider, Has
  <2> QED
    BY <2>1, <2>2, <2>3, <2>4, <2>5, <2>6 DEF IsPlan, WellOrdered, q
<1>2. IsPlan(CrashCutSteps("blocked-provider-access"), "blocked-provider-access")
  <2> DEFINE q == CrashCutSteps("blocked-provider-access")
  <2>1. /\ q \in Seq(StepNames) /\ Len(q) = 9
        /\ q[1] = "pauseSqrzl" /\ q[2] = "startGated" /\ q[3] = "awaitReady"
        /\ q[4] = "signal" /\ q[5] = "awaitDispatched" /\ q[6] = "killFitz"
        /\ q[7] = "unpauseSqrzl" /\ q[8] = "restartFitz" /\ q[9] = "finishWriter"
    BY DEF CrashCutSteps, When, PausesProvider, StepNames
  <2> HIDE DEF q
  <2>2. FaultsAreUndone(q)
    BY <2>1 DEF FaultsAreUndone, After
  <2>3. OneWriter(q)
    BY <2>1 DEF OneWriter, After, NotAfter
  <2>4. VerdictIsLast(q)
    BY <2>1 DEF VerdictIsLast, After, NotAfter
  <2>5. PlanOrder(q, "blocked-provider-access")
    BY <2>1 DEF PlanOrder, Gated, CrashCuts, WaitForGate, PausesProvider, Has, After, NotAfter, Brings
  <2>6. PlanBegins(q, "blocked-provider-access")
    BY <2>1 DEF PlanBegins, PausesProvider, Has
  <2> QED
    BY <2>1, <2>2, <2>3, <2>4, <2>5, <2>6 DEF IsPlan, WellOrdered, q
<1>3. IsPlan(CrashCutSteps("provider-recovery"), "provider-recovery")
  <2> DEFINE q == CrashCutSteps("provider-recovery")
  <2>1. /\ q \in Seq(StepNames) /\ Len(q) = 9
        /\ q[1] = "pauseSqrzl" /\ q[2] = "startGated" /\ q[3] = "awaitReady"
        /\ q[4] = "signal" /\ q[5] = "awaitDispatched" /\ q[6] = "unpauseSqrzl"
        /\ q[7] = "killFitz" /\ q[8] = "restartFitz" /\ q[9] = "finishWriter"
    BY DEF CrashCutSteps, When, PausesProvider, StepNames
  <2> HIDE DEF q
  <2>2. FaultsAreUndone(q)
    BY <2>1 DEF FaultsAreUndone, After
  <2>3. OneWriter(q)
    BY <2>1 DEF OneWriter, After, NotAfter
  <2>4. VerdictIsLast(q)
    BY <2>1 DEF VerdictIsLast, After, NotAfter
  <2>5. PlanOrder(q, "provider-recovery")
    BY <2>1 DEF PlanOrder, Gated, CrashCuts, WaitForGate, PausesProvider, Has, After, NotAfter, Brings
  <2>6. PlanBegins(q, "provider-recovery")
    BY <2>1 DEF PlanBegins, PausesProvider, Has
  <2> QED
    BY <2>1, <2>2, <2>3, <2>4, <2>5, <2>6 DEF IsPlan, WellOrdered, q
<1>4. IsPlan(CrashCutSteps("broker-kill"), "broker-kill")
  <2> DEFINE q == CrashCutSteps("broker-kill")
  <2>1. /\ q \in Seq(StepNames) /\ Len(q) = 7
        /\ q[1] = "startGated" /\ q[2] = "awaitReady" /\ q[3] = "signal"
        /\ q[4] = "awaitDispatched" /\ q[5] = "killFitz" /\ q[6] = "restartFitz"
        /\ q[7] = "finishWriter"
    BY DEF CrashCutSteps, When, PausesProvider, StepNames
  <2> HIDE DEF q
  <2>2. FaultsAreUndone(q)
    BY <2>1 DEF FaultsAreUndone, After
  <2>3. OneWriter(q)
    BY <2>1 DEF OneWriter, After, NotAfter
  <2>4. VerdictIsLast(q)
    BY <2>1 DEF VerdictIsLast, After, NotAfter
  <2>5. PlanOrder(q, "broker-kill")
    BY <2>1 DEF PlanOrder, Gated, CrashCuts, WaitForGate, PausesProvider, Has, After, NotAfter, Brings
  <2>6. PlanBegins(q, "broker-kill")
    BY <2>1 DEF PlanBegins, PausesProvider, Has
  <2> QED
    BY <2>1, <2>2, <2>3, <2>4, <2>5, <2>6 DEF IsPlan, WellOrdered, q
<1>5. IsPlan(CrashCutSteps("acknowledgement"), "acknowledgement")
  <2> DEFINE q == CrashCutSteps("acknowledgement")
  <2>1. /\ q \in Seq(StepNames) /\ Len(q) = 8
        /\ q[1] = "startGated" /\ q[2] = "awaitReady" /\ q[3] = "signal"
        /\ q[4] = "awaitDispatched" /\ q[5] = "awaitAcknowledged" /\ q[6] = "killFitz"
        /\ q[7] = "restartFitz" /\ q[8] = "finishWriter"
    BY DEF CrashCutSteps, When, PausesProvider, StepNames
  <2> HIDE DEF q
  <2>2. FaultsAreUndone(q)
    BY <2>1 DEF FaultsAreUndone, After
  <2>3. OneWriter(q)
    BY <2>1 DEF OneWriter, After, NotAfter
  <2>4. VerdictIsLast(q)
    BY <2>1 DEF VerdictIsLast, After, NotAfter
  <2>5. PlanOrder(q, "acknowledgement")
    BY <2>1 DEF PlanOrder, Gated, CrashCuts, WaitForGate, PausesProvider, Has, After, NotAfter, Brings
  <2>6. PlanBegins(q, "acknowledgement")
    BY <2>1 DEF PlanBegins, PausesProvider, Has
  <2> QED
    BY <2>1, <2>2, <2>3, <2>4, <2>5, <2>6 DEF IsPlan, WellOrdered, q
<1>6. IsPlan(CrashCutSteps("restart-with-storage-inflight"), "restart-with-storage-inflight")
  <2> DEFINE q == CrashCutSteps("restart-with-storage-inflight")
  <2>1. /\ q \in Seq(StepNames) /\ Len(q) = 9
        /\ q[1] = "pauseSqrzl" /\ q[2] = "startGated" /\ q[3] = "awaitReady"
        /\ q[4] = "signal" /\ q[5] = "awaitDispatched" /\ q[6] = "killFitz"
        /\ q[7] = "unpauseSqrzl" /\ q[8] = "restartFitz" /\ q[9] = "finishWriter"
    BY DEF CrashCutSteps, When, PausesProvider, StepNames
  <2> HIDE DEF q
  <2>2. FaultsAreUndone(q)
    BY <2>1 DEF FaultsAreUndone, After
  <2>3. OneWriter(q)
    BY <2>1 DEF OneWriter, After, NotAfter
  <2>4. VerdictIsLast(q)
    BY <2>1 DEF VerdictIsLast, After, NotAfter
  <2>5. PlanOrder(q, "restart-with-storage-inflight")
    BY <2>1 DEF PlanOrder, Gated, CrashCuts, WaitForGate, PausesProvider, Has, After, NotAfter, Brings
  <2>6. PlanBegins(q, "restart-with-storage-inflight")
    BY <2>1 DEF PlanBegins, PausesProvider, Has
  <2> QED
    BY <2>1, <2>2, <2>3, <2>4, <2>5, <2>6 DEF IsPlan, WellOrdered, q
<1> QED
  BY <1>1, <1>2, <1>3, <1>4, <1>5, <1>6 DEF CrashCuts

(* The plan of an iteration of storage-faults. *)
LEMMA StorageFaultPlanned ==
    ASSUME NEW fault \in StorageFaults
    PROVE  IsPlan(StorageFaultSteps(fault), fault)
<1>1. IsPlan(StorageFaultSteps("bounded-latency"), "bounded-latency")
  <2> DEFINE q == StorageFaultSteps("bounded-latency")
  <2>1. /\ q \in Seq(StepNames) /\ Len(q) = 6
        /\ q[1] = "healthy" /\ q[2] = "latency" /\ q[3] = "startUngated"
        /\ q[4] = "finishWriter" /\ q[5] = "healthy" /\ q[6] = "ensureReady"
    BY DEF StorageFaultSteps, When, WaitForGate, StepNames
  <2> HIDE DEF q
  <2>2. FaultsAreUndone(q)
    BY <2>1 DEF FaultsAreUndone, After
  <2>3. OneWriter(q)
    BY <2>1 DEF OneWriter, After, NotAfter
  <2>4. VerdictIsLast(q)
    BY <2>1 DEF VerdictIsLast, After, NotAfter
  <2>5. PlanOrder(q, "bounded-latency")
    BY <2>1 DEF PlanOrder, Gated, CrashCuts, WaitForGate, PausesProvider, Has, After, NotAfter, Brings
  <2>6. PlanBegins(q, "bounded-latency")
    BY <2>1 DEF PlanBegins, PausesProvider, Has
  <2> QED
    BY <2>1, <2>2, <2>3, <2>4, <2>5, <2>6 DEF IsPlan, WellOrdered, q
<1>2. IsPlan(StorageFaultSteps("connection-reset"), "connection-reset")
  <2> DEFINE q == StorageFaultSteps("connection-reset")
  <2>1. /\ q \in Seq(StepNames) /\ Len(q) = 10
        /\ q[1] = "healthy" /\ q[2] = "startGated" /\ q[3] = "awaitReady" /\ q[4] = "reset"
        /\ q[5] = "signal" /\ q[6] = "awaitDispatched" /\ q[7] = "healthy"
        /\ q[8] = "finishWriter" /\ q[9] = "healthy" /\ q[10] = "ensureReady"
    BY DEF StorageFaultSteps, When, WaitForGate, StepNames
  <2> HIDE DEF q
  <2>2. FaultsAreUndone(q)
    BY <2>1 DEF FaultsAreUndone, After
  <2>3. OneWriter(q)
    BY <2>1 DEF OneWriter, After, NotAfter
  <2>4. VerdictIsLast(q)
    BY <2>1 DEF VerdictIsLast, After, NotAfter
  <2>5. PlanOrder(q, "connection-reset")
    BY <2>1 DEF PlanOrder, Gated, CrashCuts, WaitForGate, PausesProvider, Has, After, NotAfter, Brings
  <2>6. PlanBegins(q, "connection-reset")
    BY <2>1 DEF PlanBegins, PausesProvider, Has
  <2> QED
    BY <2>1, <2>2, <2>3, <2>4, <2>5, <2>6 DEF IsPlan, WellOrdered, q
<1>3. IsPlan(StorageFaultSteps("provider-partition"), "provider-partition")
  <2> DEFINE q == StorageFaultSteps("provider-partition")
  <2>1. /\ q \in Seq(StepNames) /\ Len(q) = 10
        /\ q[1] = "healthy" /\ q[2] = "startGated" /\ q[3] = "awaitReady"
        /\ q[4] = "partition" /\ q[5] = "signal" /\ q[6] = "awaitDispatched"
        /\ q[7] = "healthy" /\ q[8] = "finishWriter" /\ q[9] = "healthy"
        /\ q[10] = "ensureReady"
    BY DEF StorageFaultSteps, When, WaitForGate, StepNames
  <2> HIDE DEF q
  <2>2. FaultsAreUndone(q)
    BY <2>1 DEF FaultsAreUndone, After
  <2>3. OneWriter(q)
    BY <2>1 DEF OneWriter, After, NotAfter
  <2>4. VerdictIsLast(q)
    BY <2>1 DEF VerdictIsLast, After, NotAfter
  <2>5. PlanOrder(q, "provider-partition")
    BY <2>1 DEF PlanOrder, Gated, CrashCuts, WaitForGate, PausesProvider, Has, After, NotAfter, Brings
  <2>6. PlanBegins(q, "provider-partition")
    BY <2>1 DEF PlanBegins, PausesProvider, Has
  <2> QED
    BY <2>1, <2>2, <2>3, <2>4, <2>5, <2>6 DEF IsPlan, WellOrdered, q
<1>4. IsPlan(StorageFaultSteps("restored-provider"), "restored-provider")
  <2> DEFINE q == StorageFaultSteps("restored-provider")
  <2>1. /\ q \in Seq(StepNames) /\ Len(q) = 5
        /\ q[1] = "healthy" /\ q[2] = "startUngated" /\ q[3] = "finishWriter"
        /\ q[4] = "healthy" /\ q[5] = "ensureReady"
    BY DEF StorageFaultSteps, When, WaitForGate, StepNames
  <2> HIDE DEF q
  <2>2. FaultsAreUndone(q)
    BY <2>1 DEF FaultsAreUndone, After
  <2>3. OneWriter(q)
    BY <2>1 DEF OneWriter, After, NotAfter
  <2>4. VerdictIsLast(q)
    BY <2>1 DEF VerdictIsLast, After, NotAfter
  <2>5. PlanOrder(q, "restored-provider")
    BY <2>1 DEF PlanOrder, Gated, CrashCuts, WaitForGate, PausesProvider, Has, After, NotAfter, Brings
  <2>6. PlanBegins(q, "restored-provider")
    BY <2>1 DEF PlanBegins, PausesProvider, Has
  <2> QED
    BY <2>1, <2>2, <2>3, <2>4, <2>5, <2>6 DEF IsPlan, WellOrdered, q
<1>5. IsPlan(StorageFaultSteps("fitz-crash-inflight"), "fitz-crash-inflight")
  <2> DEFINE q == StorageFaultSteps("fitz-crash-inflight")
  <2>1. /\ q \in Seq(StepNames) /\ Len(q) = 12
        /\ q[1] = "healthy" /\ q[2] = "startGated" /\ q[3] = "awaitReady"
        /\ q[4] = "partition" /\ q[5] = "signal" /\ q[6] = "awaitDispatched"
        /\ q[7] = "killFitz" /\ q[8] = "healthy" /\ q[9] = "restartFitz"
        /\ q[10] = "finishWriter" /\ q[11] = "healthy" /\ q[12] = "ensureReady"
    BY DEF StorageFaultSteps, When, WaitForGate, StepNames
  <2> HIDE DEF q
  <2>2. FaultsAreUndone(q)
    BY <2>1 DEF FaultsAreUndone, After
  <2>3. OneWriter(q)
    BY <2>1 DEF OneWriter, After, NotAfter
  <2>4. VerdictIsLast(q)
    BY <2>1 DEF VerdictIsLast, After, NotAfter
  <2>5. PlanOrder(q, "fitz-crash-inflight")
    BY <2>1 DEF PlanOrder, Gated, CrashCuts, WaitForGate, PausesProvider, Has, After, NotAfter, Brings
  <2>6. PlanBegins(q, "fitz-crash-inflight")
    BY <2>1 DEF PlanBegins, PausesProvider, Has
  <2> QED
    BY <2>1, <2>2, <2>3, <2>4, <2>5, <2>6 DEF IsPlan, WellOrdered, q
<1> QED
  BY <1>1, <1>2, <1>3, <1>4, <1>5 DEF StorageFaults

(* The baseline has one writer that is not gated, and the verification none. *)
LEMMA BaselinePlanned ==
    ASSUME campaign \in Campaigns
    PROVE  /\ BaselineSteps \in Seq(StepNames) /\ WellOrdered(BaselineSteps)
           /\ Has(BaselineSteps, "finishWriter") /\ Has(BaselineSteps, "startUngated")
           /\ ~Has(BaselineSteps, "judge") /\ ~Has(BaselineSteps, "killFitz")
           /\ ~Has(BaselineSteps, "pauseSqrzl")
<1> DEFINE q == BaselineSteps
<1>1. CASE Scenario = "storage-faults"
  <2>1. q = <<"healthy">> \o <<"startUngated", "finishWriter">>
    BY <1>1 DEF BaselineSteps, When
  <2>2. /\ q \in Seq(StepNames) /\ Len(q) = 3
        /\ q[1] = "healthy" /\ q[2] = "startUngated" /\ q[3] = "finishWriter"
    BY <2>1 DEF StepNames
  <2> HIDE DEF q
  <2>3. FaultsAreUndone(q) /\ OneWriter(q) /\ VerdictIsLast(q)
    BY <2>2 DEF FaultsAreUndone, OneWriter, VerdictIsLast, After, NotAfter
  <2> QED
    BY <2>2, <2>3 DEF WellOrdered, Has, q
<1>2. CASE Scenario # "storage-faults"
  <2>1. q = <<>> \o <<"startUngated", "finishWriter">>
    BY <1>2 DEF BaselineSteps, When
  <2>2. /\ q \in Seq(StepNames) /\ Len(q) = 2
        /\ q[1] = "startUngated" /\ q[2] = "finishWriter"
    BY <2>1 DEF StepNames
  <2> HIDE DEF q
  <2>3. FaultsAreUndone(q) /\ OneWriter(q) /\ VerdictIsLast(q)
    BY <2>2 DEF FaultsAreUndone, OneWriter, VerdictIsLast, After, NotAfter
  <2> QED
    BY <2>2, <2>3 DEF WellOrdered, Has, q
<1> QED
  BY <1>1, <1>2

(* The steps of the final verification. *)
LEMMA VerifyPlanned ==
    ASSUME campaign \in Campaigns
    PROVE  /\ VerifySteps \in Seq(StepNames) /\ WellOrdered(VerifySteps)
           /\ Has(VerifySteps, "verify")
           /\ \A s \in StepNames \ {"healthy", "ensureReady", "verify", "judge"} :
                 ~Has(VerifySteps, s)
<1> DEFINE q == VerifySteps
<1>1. CASE Scenario = "storage-faults"
  <2>1. q = <<"healthy", "ensureReady">> \o <<"verify", "judge">>
    BY <1>1 DEF VerifySteps, When
  <2>2. /\ q \in Seq(StepNames) /\ Len(q) = 4
        /\ q[1] = "healthy" /\ q[2] = "ensureReady" /\ q[3] = "verify" /\ q[4] = "judge"
    BY <2>1 DEF StepNames
  <2> HIDE DEF q
  <2>3. FaultsAreUndone(q) /\ OneWriter(q) /\ VerdictIsLast(q)
    BY <2>2 DEF FaultsAreUndone, OneWriter, VerdictIsLast, After, NotAfter
  <2> QED
    BY <2>2, <2>3 DEF WellOrdered, Has, q
<1>2. CASE Scenario # "storage-faults"
  <2>1. q = <<>> \o <<"verify", "judge">>
    BY <1>2 DEF VerifySteps, When
  <2>2. q \in Seq(StepNames) /\ Len(q) = 2 /\ q[1] = "verify" /\ q[2] = "judge"
    BY <2>1 DEF StepNames
  <2> HIDE DEF q
  <2>3. FaultsAreUndone(q) /\ OneWriter(q) /\ VerdictIsLast(q)
    BY <2>2 DEF FaultsAreUndone, OneWriter, VerdictIsLast, After, NotAfter
  <2> QED
    BY <2>2, <2>3 DEF WellOrdered, Has, q
<1> QED
  BY <1>1, <1>2

(* Every iteration has a planned identity and its steps. *)
LEMMA IterationPlanned ==
    ASSUME campaign \in Campaigns, NEW n \in Nat \ {0}
    PROVE  IsPlan(IterationSteps(IdentityOf(n)), IdentityOf(n))
<1>1. CASE Scenario = "crash-cuts"
  <2>1. campaign.seed + (n - 1) \in Nat
    BY CampaignsAssumption
  <2>2. ((campaign.seed + (n - 1)) % 6) + 1 \in 1..6
    BY <2>1
  <2>3. CrashCutPlan(n - 1) \in CrashCuts
    <3>1. Len(CrashCutIdentities) = 6 /\ \A k \in 1..6 : CrashCutIdentities[k] \in CrashCuts
      BY DEF CrashCutIdentities, CrashCuts
    <3> QED
      BY <2>2, <3>1 DEF CrashCutPlan
  <2> QED
    BY <1>1, <2>3, CrashCutPlanned DEF IterationSteps, IdentityOf
<1>2. CASE Scenario # "crash-cuts"
  <2>1. ((n - 1) % 5) + 1 \in 1..5
    OBVIOUS
  <2>2. StorageFaultPlan(n - 1) \in StorageFaults
    <3>1. /\ Len(StorageFaultIdentities) = 5
          /\ \A k \in 1..5 : StorageFaultIdentities[k] \in StorageFaults
      BY DEF StorageFaultIdentities, StorageFaults
    <3> QED
      BY <2>1, <3>1 DEF StorageFaultPlan
  <2> QED
    BY <1>2, <2>2, StorageFaultPlanned DEF IterationSteps, IdentityOf
<1> QED
  BY <1>1, <1>2
-----------------------------------------------------------------------------
WriterStates == {"none", "connecting", "ready", "running", "exited"}
OpStates == {"idle", "started", "sent", "acked", "failed"}

(* Operations that have been begun in some iteration so far. *)
OpsSoFar == {x \in Ops : x[2] <= iter}

(* Every variable has its type. *)
TypeOK ==
    /\ campaign \in Campaigns
    /\ iter \in SequenceNumbers
    /\ todo \in Seq(StepNames)
    /\ sqrzlPaused \in BOOLEAN
    /\ started \in SUBSET Ops /\ acknowledged \in SUBSET Ops
    /\ observed \in [Ops -> 0..2]
    /\ outcome \in {"none", "passed", "rejected", "threw"}
    /\ writer \in WriterStates
    /\ gated \in BOOLEAN /\ released \in BOOLEAN
    /\ op \in [Domains -> OpStates]
    /\ broker \in {"up", "down"} /\ provider \in {"running", "paused", "stuck"}
    /\ link \in {"healthy", "latency", "reset", "partition"}
    /\ memory \in SUBSET OpsSoFar /\ inflight \in SUBSET OpsSoFar
    /\ stored \in SUBSET OpsSoFar /\ visible \in SUBSET OpsSoFar
    /\ doubled \in SUBSET OpsSoFar /\ replied \in SUBSET OpsSoFar

ToStart == Has(todo, "startGated") \/ Has(todo, "startUngated")
ToFinish == Has(todo, "finishWriter")

(* While a fault is in force, the step that lifts it is still to come; behind
   an unpause that failed, the restart which cannot succeed without it. *)
FaultInv ==
    /\ outcome = "none" =>
          /\ provider = "paused" => sqrzlPaused
          /\ provider = "stuck" => Has(todo, "restartFitz")
          /\ sqrzlPaused => Has(todo, "unpauseSqrzl")
          /\ broker = "down" => Has(todo, "restartFitz")
          /\ link # "healthy" => Has(todo, "healthy")
    /\ outcome = "threw" /\ provider = "paused" => Head(todo) = "pauseSqrzl"

(* What the writer's state says of its operations, and the steps left of the
   writer's. *)
WriterInv ==
    /\ writer = "none" => \A d \in Domains : op[d] \in {"idle", "acked", "failed"}
    /\ writer \in {"connecting", "ready"} => \A d \in Domains : op[d] = "idle"
    /\ writer = "running" => \A d \in Domains : op[d] # "idle"
    /\ writer = "exited" => \A d \in Domains : op[d] \in {"acked", "failed"}
    /\ outcome # "threw" =>
          /\ ToStart => writer = "none"
          /\ ~ToFinish => writer = "none" /\ \A d \in Domains : op[d] # "idle"

(* The ledger misses at most the acknowledgements of the writer that has not
   been collected yet. *)
LedgerInv ==
    /\ acknowledged \subseteq replied
    /\ \A x \in Ops : x[2] < iter => x \in started
    /\ iter > 0 => \A d \in Domains : <<d, 0>> \in acknowledged
    /\ outcome # "threw" =>
          /\ ~ToFinish =>
                /\ \A x \in Ops : x[2] = iter => x \in started
                /\ \A d \in Domains : iter = 0 => <<d, 0>> \in acknowledged
          /\ ToStart \/ ~ToFinish => replied \subseteq acknowledged
          /\ \A x \in replied \ acknowledged : x[2] = iter /\ op[x[1]] = "acked"
          /\ ~ToStart => \A d \in Domains : op[d] = "acked" => <<d, iter>> \in replied

(* What the broker serves is stored; a correct one serves all that it has
   acknowledged, and nothing twice. *)
StorageInv ==
    /\ doubled \subseteq visible /\ visible \subseteq stored
    /\ "duplicate" \notin Misbehaviours => doubled = {}
    /\ Misbehaviours = {} => replied \subseteq visible

(* What the verifier has seen is still so when it is judged. *)
VerdictInv ==
    /\ Has(todo, "judge") \/ outcome \in {"passed", "rejected"} => iter = Iterations /\ ~ToFinish
    /\ outcome = "none" /\ Has(todo, "judge") /\ ~Has(todo, "verify") => \A x \in Ops :
          /\ observed[x] > 0 => x \in stored
          /\ x \in doubled => observed[x] > 1
          /\ Misbehaviours = {} => observed[x] <= 1 /\ (x \in acknowledged => observed[x] > 0)
    /\ AcceptedIsDurable
    /\ NoFalseAlarm

(* The inductive invariant. *)
IInv == TypeOK /\ WellOrdered(todo) /\ FaultInv /\ WriterInv /\ LedgerInv /\ StorageInv /\ VerdictInv

(* Init establishes the inductive invariant. *)
LEMMA InitIInv == Init => IInv
<1> SUFFICES ASSUME Init PROVE IInv
  OBVIOUS
<1>1. /\ campaign \in Campaigns /\ iter = 0 /\ todo = BaselineSteps
      /\ Iterations \in Nat
  BY CampaignsAssumption DEF Init, Iterations
<1>2. /\ todo \in Seq(StepNames) /\ WellOrdered(todo) /\ ToFinish /\ ToStart
      /\ ~Has(todo, "judge")
  BY <1>1, BaselinePlanned DEF ToFinish, ToStart
<1>3. TypeOK
  <2>1. observed \in [Ops -> 0..2] /\ op \in [Domains -> OpStates]
    BY DEF Init, OpStates
  <2>2. iter \in SequenceNumbers
    BY <1>1 DEF SequenceNumbers
  <2> QED
    BY <1>1, <1>2, <2>1, <2>2 DEF Init, TypeOK, WriterStates
<1>4. FaultInv /\ WriterInv /\ StorageInv
  BY <1>2 DEF Init, FaultInv, WriterInv, StorageInv
<1>5. LedgerInv
  BY <1>1, <1>2 DEF Init, LedgerInv, Ops, SequenceNumbers
<1>6. VerdictInv
  BY <1>2 DEF Init, VerdictInv, AcceptedIsDurable, NoFalseAlarm
<1> QED
  BY <1>2, <1>3, <1>4, <1>5, <1>6 DEF IInv

(* The driver has done its step s, and goes on with the rest. *)
LEMMA DoneStep ==
    ASSUME TypeOK, WellOrdered(todo), NEW s, At(s), Done
    PROVE  /\ todo' \in Seq(StepNames) /\ WellOrdered(todo')
           /\ Has(todo, s) /\ outcome = "none"
           /\ \A r : Has(todo', r) => Has(todo, r)
           /\ \A r : Has(todo, r) /\ r # s => Has(todo', r)
           /\ \A r : After(todo, s, r) => Has(todo', r)
           /\ \A r : NotAfter(todo, s, r) => ~Has(todo', r)
           /\ \A b, c : Brings(todo, s, b, c) /\ Has(todo', b) => Has(todo', c)
<1>1. todo \in Seq(StepNames) /\ todo # <<>> /\ Head(todo) = s /\ todo' = Tail(todo)
  BY DEF TypeOK, At, Done
<1>2. todo' \in Seq(StepNames) /\ WellOrdered(todo')
  BY <1>1, TailSteps, TailWellOrdered
<1> QED
  BY <1>1, <1>2, HeadTail DEF At

(* Nothing is to come at the end of the steps. *)
LEMMA EmptyHasNone == ASSUME todo = <<>> PROVE \A s : ~Has(todo, s)
BY DEF Has

(* Every step keeps the types and the order of the steps. *)
LEMMA NextTypeOK == TypeOK /\ WellOrdered(todo) /\ [Next]_vars => TypeOK' /\ WellOrdered(todo)'
<1> SUFFICES ASSUME TypeOK, WellOrdered(todo), [Next]_vars PROVE TypeOK' /\ WellOrdered(todo')
  OBVIOUS
<1>0. Iterations \in Nat /\ iter \in Nat
  BY CampaignsAssumption DEF TypeOK, Iterations, SequenceNumbers
<1> USE DEF driverVars, writerVars, brokerVars
<1>1. CASE NextIteration
  <2>1. CASE iter < Iterations /\ iter' = iter + 1 /\ todo' = IterationSteps(IdentityOf(iter + 1))
    <3>1. iter' \in SequenceNumbers /\ iter + 1 \in Nat \ {0} /\ campaign' = campaign
      BY <1>0, <1>1, <2>1 DEF SequenceNumbers, NextIteration
    <3>2. todo' \in Seq(StepNames) /\ WellOrdered(todo')
      BY <2>1, <3>1, IterationPlanned DEF TypeOK, IsPlan
    <3>3. Ops' = Ops /\ SequenceNumbers' = SequenceNumbers /\ Domains' = Domains
      BY <3>1 DEF Ops, SequenceNumbers, Domains, Iterations
    <3>4. \A x \in OpsSoFar : x \in OpsSoFar'
      BY <1>0, <2>1, <3>3 DEF OpsSoFar, Ops, SequenceNumbers
    <3> QED
      BY <1>1, <3>1, <3>2, <3>3, <3>4 DEF NextIteration, TypeOK
  <2>2. CASE iter = Iterations /\ todo' = VerifySteps /\ UNCHANGED iter
    <3>1. todo' \in Seq(StepNames) /\ WellOrdered(todo')
      BY <2>2, VerifyPlanned DEF TypeOK
    <3> QED
      BY <1>1, <2>2, <3>1 DEF NextIteration, TypeOK, OpsSoFar, Ops, SequenceNumbers, Domains,
                              Iterations
  <2> QED
    BY <1>1, <2>1, <2>2 DEF NextIteration
<1> DEFINE Frame == /\ UNCHANGED <<campaign, iter>>
                    /\ Ops' = Ops /\ OpsSoFar' = OpsSoFar /\ Domains' = Domains
                    /\ SequenceNumbers' = SequenceNumbers
<1>2. ASSUME UNCHANGED <<campaign, iter>> PROVE Frame
  BY <1>2 DEF OpsSoFar, Ops, SequenceNumbers, Domains, Iterations
<1>3. CASE PauseSqrzl
  BY <1>2, <1>3, DoneStep DEF PauseSqrzl, TypeOK
<1>4. CASE UnpauseSqrzl
  BY <1>2, <1>4, DoneStep DEF UnpauseSqrzl, Unpaused, TypeOK
<1>5. CASE SetFaultProxy
  BY <1>2, <1>5, DoneStep DEF SetFaultProxy, TypeOK
<1>6. CASE StartWriter
  <2>1. gated' \in BOOLEAN
    BY <1>6 DEF StartWriter, At
  <2> QED
    BY <1>2, <1>6, <2>1, DoneStep DEF StartWriter, TypeOK, WriterStates, OpStates
<1>7. CASE Signal
  BY <1>2, <1>7, DoneStep DEF Signal, TypeOK
<1>8. ASSUME Throw PROVE TypeOK' /\ WellOrdered(todo')
  <2>1. provider' \in {"running", "paused", "stuck"}
    BY <1>8 DEF Throw, Unpaused, TypeOK
  <2> QED
    BY <1>2, <1>8, <2>1 DEF Throw, TypeOK
<1>9. CASE FinishWriter
  <2>1. CASE ~Throw
    <3>1. \A d \in Domains : Request(d) \in Ops
      BY DEF Request, Ops, TypeOK
    <3>2. /\ {Request(d) : d \in {e \in Domains : op[e] # "idle"}} \in SUBSET Ops
          /\ {Request(d) : d \in {e \in Domains : op[e] = "acked"}} \in SUBSET Ops
      BY <3>1
    <3> QED
      BY <1>2, <1>9, <2>1, <3>2, DoneStep DEF FinishWriter, TypeOK, WriterStates
  <2> QED
    BY <1>8, <2>1
<1>10. ASSUME NEW step \in {"awaitReady", "awaitDispatched", "awaitAcknowledged"},
              AwaitEvent(step)
       PROVE  TypeOK' /\ WellOrdered(todo')
  BY <1>2, <1>8, <1>10, DoneStep DEF AwaitEvent, TypeOK
<1>11. CASE KillFitz
  BY <1>2, <1>11, DoneStep DEF KillFitz, TypeOK
<1>12. CASE RestartFitz
  <2>1. /\ stored' \in SUBSET OpsSoFar /\ visible' \in SUBSET OpsSoFar
        /\ doubled' \in SUBSET OpsSoFar /\ broker' = "up"
    BY <1>12 DEF RestartFitz, BrokerRecovers, TypeOK
  <2> QED
    BY <1>2, <1>12, <2>1, DoneStep DEF RestartFitz, TypeOK
<1>13. CASE EnsureReady
  BY <1>2, <1>13, DoneStep DEF EnsureReady, TypeOK
<1>14. CASE Verify
  <2>1. observed' \in [Ops -> 0..2]
    BY <1>14 DEF Verify
  <2> QED
    BY <1>2, <1>14, <2>1, DoneStep DEF Verify, TypeOK
<1>15. CASE Judge
  BY <1>2, <1>15, DoneStep DEF Judge, TypeOK
<1>16. CASE StepThrows \/ RestartTimesOut
  BY <1>8, <1>16 DEF StepThrows, RestartTimesOut, At
<1>17. CASE Writer
  BY <1>2, <1>17 DEF Writer, WriterConnects, WriterReleased, WriterExits, OperationFails,
                     StartOperations, TypeOK, WriterStates, OpStates
<1>18. CASE Broker
  <2>1. \A d \in Domains : Request(d) \in OpsSoFar
    BY <1>0 DEF Request, OpsSoFar, Ops, TypeOK, SequenceNumbers
  <2>2. ASSUME NEW d \in Domains, BrokerReceives(d) \/ BrokerAcknowledges(d)
        PROVE  TypeOK' /\ WellOrdered(todo')
    BY <1>2, <2>1, <2>2 DEF BrokerReceives, BrokerAcknowledges, TypeOK, OpStates
  <2>3. ASSUME NEW x \in Ops, BrokerPersists(x) \/ StorageApplies(x) \/ StorageWriteLost(x)
        PROVE  TypeOK' /\ WellOrdered(todo')
    BY <1>2, <2>3 DEF BrokerPersists, StorageApplies, StorageWriteLost, TypeOK
  <2> QED
    BY <1>18, <2>2, <2>3 DEF Broker
<1>19. CASE UNCHANGED vars
  BY <1>2, <1>19 DEF vars, TypeOK
<1> QED
  BY <1>1, <1>3, <1>4, <1>5, <1>6, <1>7, <1>9, <1>10, <1>11, <1>12, <1>13, <1>14, <1>15, <1>16,
     <1>17, <1>18, <1>19 DEF Next, Driver

(* Writer and broker do not touch the driver. *)
LEMMA OthersLeaveDriver ==
    ASSUME Writer \/ Broker
    PROVE  UNCHANGED driverVars
BY DEF Writer, Broker, WriterConnects, WriterReleased, WriterExits, OperationFails,
       BrokerReceives, BrokerAcknowledges, BrokerPersists, StorageApplies, StorageWriteLost

(* A fault that a step of the driver brings about is lifted by a later step;
   a throw lifts the pause of which the flag knows. *)
LEMMA NextFaultInv == IInv /\ [Next]_vars => FaultInv'
<1> SUFFICES ASSUME IInv, [Next]_vars PROVE FaultInv'
  OBVIOUS
<1> USE DEF driverVars, writerVars, brokerVars
<1>0. TypeOK /\ WellOrdered(todo) /\ FaultInv /\ FaultsAreUndone(todo)
  BY DEF IInv, WellOrdered
<1>1. ASSUME Throw, outcome = "none" PROVE FaultInv'
  <2>1. outcome' = "threw" /\ todo' = todo
    BY <1>1 DEF Throw
  <2>2. provider' = "paused" => Head(todo) = "pauseSqrzl"
    BY <1>0, <1>1 DEF Throw, Unpaused, FaultInv, TypeOK
  <2> QED
    BY <2>1, <2>2 DEF FaultInv
<1>2. ASSUME NEW s \in StepNames \ {"unpauseSqrzl", "restartFitz", "healthy"}, At(s), Done,
             UNCHANGED <<provider, sqrzlPaused, broker, link>>, outcome' # "threw"
      PROVE  FaultInv'
  BY <1>0, <1>2, DoneStep DEF FaultInv
<1>3. CASE NextIteration
  BY <1>0, <1>3, EmptyHasNone DEF NextIteration, FaultInv, TypeOK
<1>4. CASE PauseSqrzl
  <2>1. Has(todo', "unpauseSqrzl")
    BY <1>0, <1>4, DoneStep DEF PauseSqrzl, FaultsAreUndone
  <2> QED
    BY <1>0, <1>4, <2>1, DoneStep DEF PauseSqrzl, FaultInv
<1>5. CASE UnpauseSqrzl
  <2>1. Has(todo', "restartFitz")
    BY <1>0, <1>5, DoneStep DEF UnpauseSqrzl, FaultsAreUndone
  <2> QED
    BY <1>0, <1>5, <2>1, DoneStep DEF UnpauseSqrzl, Unpaused, FaultInv
<1>6. CASE SetFaultProxy
  <2>1. PICK mode \in {"healthy", "latency", "reset", "partition"} : At(mode) /\ link' = mode
    BY <1>6 DEF SetFaultProxy
  <2>2. mode # "healthy" => Has(todo', "healthy")
    BY <1>0, <1>6, <2>1, DoneStep DEF SetFaultProxy, FaultsAreUndone
  <2> QED
    BY <1>0, <1>6, <2>1, <2>2, DoneStep DEF SetFaultProxy, FaultInv
<1>7. CASE StartWriter
  BY <1>2, <1>7, <1>0 DEF StartWriter, StepNames, At
<1>8. CASE Signal
  BY <1>2, <1>8, <1>0 DEF Signal, StepNames, At
<1>9. CASE FinishWriter
  BY <1>0, <1>1, <1>2, <1>9 DEF FinishWriter, StepNames, At
<1>10. ASSUME NEW step \in {"awaitReady", "awaitDispatched", "awaitAcknowledged"},
              AwaitEvent(step)
       PROVE  FaultInv'
  BY <1>0, <1>1, <1>2, <1>10 DEF AwaitEvent, StepNames, At
<1>11. CASE KillFitz
  <2>1. Has(todo', "restartFitz")
    BY <1>0, <1>11, DoneStep DEF KillFitz, FaultsAreUndone
  <2> QED
    BY <1>0, <1>11, <2>1, DoneStep DEF KillFitz, FaultInv
<1>12. CASE RestartFitz
  BY <1>0, <1>12, DoneStep DEF RestartFitz, BrokerRecovers, FaultInv
<1>13. CASE EnsureReady \/ Verify
  BY <1>0, <1>2, <1>13 DEF EnsureReady, Verify, StepNames, At
<1>14. CASE Judge
  BY <1>0, <1>2, <1>14 DEF Judge, StepNames, At
<1>15. CASE StepThrows \/ RestartTimesOut
  BY <1>1, <1>15 DEF StepThrows, RestartTimesOut, At
<1>16. CASE Writer \/ Broker
  <2>1. UNCHANGED <<broker, provider, link>>
    BY <1>16 DEF Writer, Broker, WriterConnects, WriterReleased, WriterExits, OperationFails,
             BrokerReceives, BrokerAcknowledges, BrokerPersists, StorageApplies, StorageWriteLost
  <2> QED
    BY <1>0, <1>16, <2>1, OthersLeaveDriver DEF FaultInv
<1>17. CASE UNCHANGED vars
  BY <1>0, <1>17 DEF vars, FaultInv
<1> QED
  BY <1>3, <1>4, <1>5, <1>6, <1>7, <1>8, <1>9, <1>10, <1>11, <1>12, <1>13, <1>14, <1>15, <1>16,
     <1>17 DEF Next, Driver

(* The driver's steps other than those of the writer leave its state alone. *)
LEMMA NextWriterInv == IInv /\ [Next]_vars => WriterInv'
<1> SUFFICES ASSUME IInv, [Next]_vars PROVE WriterInv'
  OBVIOUS
<1> USE DEF driverVars, writerVars, brokerVars, ToStart, ToFinish
<1>0. TypeOK /\ WellOrdered(todo) /\ WriterInv /\ OneWriter(todo)
  BY DEF IInv, WellOrdered
<1>1. ASSUME UNCHANGED <<campaign, writer, op>>, outcome' = "threw" PROVE WriterInv'
  BY <1>0, <1>1 DEF WriterInv, Domains
<1>2. ASSUME NEW s \in StepNames \ {"startGated", "startUngated", "finishWriter"}, At(s), Done,
             UNCHANGED <<campaign, writer, op>>
      PROVE  WriterInv'
  <2>1. outcome # "threw" /\ (ToStart' => ToStart) /\ (~ToFinish' => ~ToFinish)
    BY <1>0, <1>2, DoneStep
  <2> QED
    BY <1>0, <1>2, <2>1 DEF WriterInv, Domains
<1>3. CASE NextIteration
  <2>1. ~ToFinish /\ writer = "none" /\ \A d \in Domains : op[d] \in {"acked", "failed"}
    BY <1>0, <1>3, EmptyHasNone DEF NextIteration, WriterInv
  <2> QED
    BY <1>3, <2>1 DEF NextIteration, WriterInv, Domains
<1>4. CASE StartWriter
  <2>1. ~ToStart' /\ ToFinish'
    BY <1>0, <1>4, DoneStep DEF StartWriter, OneWriter
  <2>2. writer' = "connecting" /\ Domains' = Domains /\ \A d \in Domains : op'[d] = "idle"
    BY <1>4 DEF StartWriter, Domains
  <2> QED
    BY <2>1, <2>2 DEF WriterInv
<1>5. CASE FinishWriter
  <2>1. CASE Throw
    BY <1>1, <2>1 DEF Throw
  <2>2. CASE ~Throw
    <3>1. ~ToStart' /\ ~ToFinish'
      BY <1>0, <1>5, <2>2, DoneStep DEF FinishWriter, OneWriter
    <3>2. writer' = "none" /\ Domains' = Domains /\ op' = op /\ writer = "exited"
      BY <1>5, <2>2 DEF FinishWriter, Domains
    <3> QED
      BY <1>0, <3>1, <3>2 DEF WriterInv
  <2> QED
    BY <2>1, <2>2
<1>6. CASE PauseSqrzl \/ UnpauseSqrzl \/ SetFaultProxy \/ Signal
  BY <1>2, <1>6 DEF PauseSqrzl, UnpauseSqrzl, SetFaultProxy, Signal, StepNames
<1>7. CASE KillFitz \/ RestartFitz \/ EnsureReady \/ Verify \/ Judge
  BY <1>2, <1>7 DEF KillFitz, RestartFitz, EnsureReady, Verify, Judge, StepNames
<1>8. ASSUME NEW step \in {"awaitReady", "awaitDispatched", "awaitAcknowledged"},
             AwaitEvent(step)
      PROVE  WriterInv'
  BY <1>1, <1>2, <1>8 DEF AwaitEvent, Throw, StepNames
<1>9. CASE StepThrows \/ RestartTimesOut
  BY <1>1, <1>9 DEF StepThrows, RestartTimesOut, Throw, At
<1>10. CASE Writer
  <2>1. UNCHANGED driverVars /\ Domains' = Domains /\ ToStart' = ToStart /\ ToFinish' = ToFinish
    BY <1>10, OthersLeaveDriver DEF Domains
  <2>2. CASE WriterConnects
    BY <1>0, <2>1, <2>2 DEF WriterConnects, StartOperations, WriterInv
  <2>3. CASE WriterReleased
    BY <1>0, <2>1, <2>3 DEF WriterReleased, StartOperations, WriterInv
  <2>4. CASE WriterExits
    BY <1>0, <2>1, <2>4 DEF WriterExits, WriterInv
  <2>5. ASSUME NEW d \in Domains, OperationFails(d) PROVE WriterInv'
    BY <1>0, <2>1, <2>5 DEF OperationFails, WriterInv, TypeOK
  <2> QED
    BY <1>10, <2>2, <2>3, <2>4, <2>5 DEF Writer
<1>11. CASE Broker
  <2>1. UNCHANGED driverVars /\ Domains' = Domains /\ ToStart' = ToStart /\ ToFinish' = ToFinish
    BY <1>11, OthersLeaveDriver DEF Domains
  <2>2. ASSUME NEW d \in Domains, BrokerReceives(d) \/ BrokerAcknowledges(d)
        PROVE  WriterInv'
    BY <1>0, <2>1, <2>2 DEF BrokerReceives, BrokerAcknowledges, WriterInv, TypeOK
  <2>3. ASSUME NEW x \in Ops, BrokerPersists(x) \/ StorageApplies(x) \/ StorageWriteLost(x)
        PROVE  WriterInv'
    BY <1>0, <2>1, <2>3 DEF BrokerPersists, StorageApplies, StorageWriteLost, WriterInv
  <2> QED
    BY <1>11, <2>2, <2>3 DEF Broker
<1>12. CASE UNCHANGED vars
  BY <1>0, <1>12 DEF vars, WriterInv, Domains
<1> QED
  BY <1>3, <1>4, <1>5, <1>6, <1>7, <1>8, <1>9, <1>10, <1>11, <1>12 DEF Next, Driver

(* Every acknowledgement gets into the ledger when the writer is collected, and
   no writer is started or iteration begun before that. *)
LEMMA NextLedgerInv == IInv /\ [Next]_vars => LedgerInv'
<1> SUFFICES ASSUME IInv, [Next]_vars PROVE LedgerInv'
  OBVIOUS
<1> USE DEF driverVars, writerVars, brokerVars, ToStart, ToFinish
<1>0. /\ TypeOK /\ WellOrdered(todo) /\ WriterInv /\ LedgerInv /\ OneWriter(todo)
      /\ Iterations \in Nat /\ iter \in Nat
  BY CampaignsAssumption DEF IInv, WellOrdered, TypeOK, Iterations, SequenceNumbers
<1>1. ASSUME UNCHANGED campaign PROVE Ops' = Ops /\ Domains' = Domains
  BY <1>1 DEF Ops, Domains, SequenceNumbers, Iterations
<1>2. ASSUME UNCHANGED <<campaign, iter, started, acknowledged, replied>>, outcome' = "threw"
      PROVE  LedgerInv'
  BY <1>0, <1>1, <1>2 DEF LedgerInv
<1>3. ASSUME UNCHANGED <<campaign, iter, started, acknowledged, replied, op>>,
             outcome # "threw", ToStart' => ToStart, ToStart => ToStart',
             ToFinish => ToFinish', ToFinish' => ToFinish
      PROVE  LedgerInv'
  BY <1>0, <1>1, <1>3 DEF LedgerInv
<1>4. ASSUME NEW s \in StepNames \ {"startGated", "startUngated", "finishWriter"}, At(s), Done,
             UNCHANGED <<campaign, iter, started, acknowledged, replied, op>>
      PROVE  LedgerInv'
  BY <1>0, <1>3, <1>4, DoneStep
<1>5. CASE NextIteration
  <2>1. /\ ~ToFinish /\ ~ToStart /\ outcome = "none" /\ outcome' = "none"
        /\ UNCHANGED <<campaign, started, acknowledged, replied, op>>
    BY <1>5, EmptyHasNone DEF NextIteration
  <2>2. /\ \A x \in Ops : x[2] = iter => x \in started
        /\ \A d \in Domains : iter = 0 => <<d, 0>> \in acknowledged
        /\ replied \subseteq acknowledged
    BY <1>0, <2>1 DEF LedgerInv
  <2>3. CASE iter < Iterations /\ iter' = iter + 1 /\ todo' = IterationSteps(IdentityOf(iter + 1))
    <3>1. ToFinish' /\ ToStart'
      BY <1>0, <2>3, IterationPlanned DEF TypeOK, IsPlan, PlanBegins
    <3>2. \A x \in Ops : x[2] < iter + 1 => x \in started
      BY <1>0, <2>2 DEF LedgerInv, Ops, SequenceNumbers
    <3>3. \A d \in Domains : <<d, 0>> \in acknowledged
      <4>1. CASE iter = 0
        BY <2>2, <4>1
      <4>2. CASE iter # 0
        <5>1. iter > 0
          BY <1>0, <4>2
        <5> QED
          BY <1>0, <5>1 DEF LedgerInv
      <4> QED
        BY <4>1, <4>2
    <3> QED
      BY <1>0, <1>1, <2>1, <2>2, <2>3, <3>1, <3>2, <3>3 DEF LedgerInv
  <2>4. CASE iter = Iterations /\ todo' = VerifySteps /\ UNCHANGED iter
    <3>1. ~ToFinish' /\ ~ToStart'
      BY <1>0, <2>4, VerifyPlanned DEF TypeOK, StepNames
    <3> QED
      BY <1>3, <2>1, <2>4, <3>1
  <2> QED
    BY <1>5, <2>3, <2>4 DEF NextIteration
<1>6. CASE StartWriter
  <2>1. /\ ~ToStart' /\ ToFinish' /\ ToStart /\ outcome = "none" /\ outcome' = "none"
        /\ UNCHANGED <<campaign, iter, started, acknowledged, replied>>
    BY <1>0, <1>6, DoneStep DEF StartWriter, OneWriter
  <2>2. \A d \in Domains : op'[d] = "idle"
    BY <1>6 DEF StartWriter
  <2> QED
    BY <1>0, <1>1, <2>1, <2>2 DEF LedgerInv
<1>7. CASE FinishWriter
  <2>1. CASE Throw
    BY <1>2, <2>1 DEF Throw
  <2>2. CASE ~Throw
    <3>1. /\ ~ToStart' /\ ~ToFinish' /\ ~ToStart
          /\ outcome = "none" /\ outcome' = "none"
          /\ UNCHANGED <<campaign, iter, replied, op>> /\ writer = "exited"
          /\ iter > 0 \/ \A d \in Domains : op[d] = "acked"
          /\ started' = started \cup {Request(d) : d \in {e \in Domains : op[e] # "idle"}}
          /\ acknowledged' = acknowledged \cup
                 {Request(d) : d \in {e \in Domains : op[e] = "acked"}}
      BY <1>0, <1>7, <2>2, DoneStep DEF FinishWriter, OneWriter, WriterInv
    <3>2. \A d \in Domains : op[d] \in {"acked", "failed"}
      BY <1>0, <3>1 DEF WriterInv
    <3>3. \A d \in Domains : op[d] = "acked" => <<d, iter>> \in replied
      BY <1>0, <3>1 DEF LedgerInv
    <3>4. acknowledged' \subseteq replied
      BY <1>0, <3>1, <3>3 DEF LedgerInv, Request
    <3>5. \A x \in Ops : x[2] = iter => x \in started'
      BY <3>1, <3>2 DEF Request, Ops
    <3>6. replied \subseteq acknowledged'
      <4> SUFFICES ASSUME NEW x \in replied, x \notin acknowledged PROVE x \in acknowledged'
        BY <3>1
      <4>1. x \in Ops /\ x[2] = iter /\ op[x[1]] = "acked"
        BY <1>0, <3>1 DEF LedgerInv, TypeOK, OpsSoFar
      <4>2. x[1] \in Domains /\ x = Request(x[1])
        BY <4>1 DEF Ops, Request
      <4> QED
        BY <3>1, <4>1, <4>2
    <3>7. \A d \in Domains : iter = 0 => <<d, 0>> \in acknowledged'
      BY <1>0, <3>1 DEF Request
    <3>8. /\ \A x \in Ops : x[2] < iter => x \in started'
          /\ iter > 0 => \A d \in Domains : <<d, 0>> \in acknowledged'
      BY <1>0, <3>1 DEF LedgerInv
    <3> QED
      BY <1>1, <3>1, <3>3, <3>4, <3>5, <3>6, <3>7, <3>8 DEF LedgerInv
  <2> QED
    BY <2>1, <2>2
<1>8. CASE PauseSqrzl \/ UnpauseSqrzl \/ SetFaultProxy \/ Signal
  BY <1>4, <1>8 DEF PauseSqrzl, UnpauseSqrzl, SetFaultProxy, Signal, StepNames
<1>9. CASE KillFitz \/ RestartFitz \/ EnsureReady \/ Verify \/ Judge
  BY <1>4, <1>9 DEF KillFitz, RestartFitz, EnsureReady, Verify, Judge, StepNames
<1>10. ASSUME NEW step \in {"awaitReady", "awaitDispatched", "awaitAcknowledged"},
              AwaitEvent(step)
       PROVE  LedgerInv'
  BY <1>2, <1>4, <1>10 DEF AwaitEvent, Throw, StepNames
<1>11. CASE StepThrows \/ RestartTimesOut
  BY <1>2, <1>11 DEF StepThrows, RestartTimesOut, Throw, At
<1>12. ASSUME UNCHANGED <<driverVars, replied, op>> PROVE LedgerInv'
  BY <1>0, <1>1, <1>12 DEF LedgerInv
<1>13. CASE Writer
  <2>1. UNCHANGED <<driverVars, replied>> /\ Ops' = Ops /\ Domains' = Domains
    BY <1>1, <1>13, OthersLeaveDriver
       DEF Writer, WriterConnects, WriterReleased, WriterExits, OperationFails
  <2>2. CASE op' = op
    BY <1>12, <2>1, <2>2
  <2>3. CASE StartOperations /\ writer \in {"connecting", "ready"}
    <3>1. \A d \in Domains : op[d] = "idle" /\ op'[d] = "started"
      BY <1>0, <2>3 DEF WriterInv, StartOperations
    <3>2. outcome # "threw" => \A x \in replied : x \in acknowledged
      <4>1. \A x \in replied : x[1] \in Domains
        BY <1>0 DEF TypeOK, OpsSoFar, Ops
      <4> QED
        BY <1>0, <3>1, <4>1 DEF LedgerInv
    <3> QED
      BY <1>0, <2>1, <3>1, <3>2 DEF LedgerInv
  <2>4. ASSUME NEW d \in Domains, OperationFails(d) PROVE LedgerInv'
    <3>1. op' = [op EXCEPT ![d] = "failed"] /\ op[d] # "acked"
      BY <2>4 DEF OperationFails
    <3>2. \A e \in Domains : op'[e] = "acked" <=> op[e] = "acked"
      BY <1>0, <3>1 DEF TypeOK
    <3>3. \A x \in replied : x[1] \in Domains
      BY <1>0 DEF TypeOK, OpsSoFar, Ops
    <3> QED
      BY <1>0, <2>1, <3>2, <3>3 DEF LedgerInv
  <2> QED
    BY <1>13, <2>2, <2>3, <2>4 DEF Writer, WriterConnects, WriterReleased, WriterExits
<1>14. CASE Broker
  <2>1. UNCHANGED driverVars /\ Ops' = Ops /\ Domains' = Domains
    BY <1>1, <1>14, OthersLeaveDriver
  <2>2. ASSUME NEW d \in Domains, BrokerReceives(d) PROVE LedgerInv'
    <3>1. op' = [op EXCEPT ![d] = "sent"] /\ op[d] # "acked" /\ UNCHANGED replied
      BY <2>2 DEF BrokerReceives
    <3>2. \A e \in Domains : op'[e] = "acked" <=> op[e] = "acked"
      BY <1>0, <3>1 DEF TypeOK
    <3>3. \A x \in replied : x[1] \in Domains
      BY <1>0 DEF TypeOK, OpsSoFar, Ops
    <3> QED
      BY <1>0, <2>1, <3>1, <3>2, <3>3 DEF LedgerInv
  <2>3. ASSUME NEW d \in Domains, BrokerAcknowledges(d) PROVE LedgerInv'
    <3>1. /\ op' = [op EXCEPT ![d] = "acked"] /\ op[d] = "sent"
          /\ replied' = replied \cup {<<d, iter>>}
      BY <2>3 DEF BrokerAcknowledges, Request
    <3>2. \A e \in Domains : op'[e] = "acked" <=> op[e] = "acked" \/ e = d
      BY <1>0, <3>1 DEF TypeOK
    <3>3. outcome # "threw" => ~ToStart /\ ToFinish
      BY <1>0, <3>1 DEF WriterInv
    <3>4. \A x \in replied : x[1] \in Domains
      BY <1>0 DEF TypeOK, OpsSoFar, Ops
    <3> QED
      BY <1>0, <2>1, <3>1, <3>2, <3>3, <3>4 DEF LedgerInv
  <2>4. ASSUME NEW x \in Ops, BrokerPersists(x) \/ StorageApplies(x) \/ StorageWriteLost(x)
        PROVE  LedgerInv'
    BY <1>12, <2>4 DEF BrokerPersists, StorageApplies, StorageWriteLost
  <2> QED
    BY <1>14, <2>2, <2>3, <2>4 DEF Broker
<1>15. CASE UNCHANGED vars
  BY <1>12, <1>15 DEF vars
<1> QED
  BY <1>5, <1>6, <1>7, <1>8, <1>9, <1>10, <1>11, <1>13, <1>14, <1>15 DEF Next, Driver

(* A broker acknowledges what it serves, and serves what is stored. *)
LEMMA NextStorageInv == IInv /\ [Next]_vars => StorageInv'
<1> SUFFICES ASSUME IInv, [Next]_vars PROVE StorageInv'
  OBVIOUS
<1> USE DEF driverVars, writerVars, brokerVars, Misbehaviours
<1>0. StorageInv
  BY DEF IInv
<1>1. ASSUME UNCHANGED <<campaign, stored, visible, doubled, replied>> PROVE StorageInv'
  BY <1>0, <1>1 DEF StorageInv
<1>2. CASE RestartFitz
  <2>1. PICK lost \in (IF "lose" \in Misbehaviours THEN SUBSET stored ELSE {{}}) :
          stored' = stored \ lost /\ visible' = stored \ lost
    BY <1>2 DEF RestartFitz, BrokerRecovers
  <2>2. doubled' \in IF "duplicate" \in Misbehaviours THEN SUBSET visible' ELSE {{}}
    BY <1>2 DEF RestartFitz, BrokerRecovers
  <2>3. UNCHANGED <<campaign, replied>>
    BY <1>2 DEF RestartFitz
  <2>4. doubled' \subseteq visible' /\ visible' \subseteq stored'
    BY <2>1, <2>2
  <2>5. Misbehaviours = {} => visible \subseteq visible'
    BY <1>0, <2>1 DEF StorageInv
  <2> QED
    BY <1>0, <2>2, <2>3, <2>4, <2>5 DEF StorageInv
<1>3. CASE Driver /\ ~RestartFitz
  BY <1>1, <1>3 DEF Driver, NextIteration, PauseSqrzl, UnpauseSqrzl, SetFaultProxy, StartWriter,
                    Signal, FinishWriter, AwaitEvent, Throw, KillFitz, RestartTimesOut, EnsureReady,
                    Verify, Judge
<1>4. CASE StepThrows \/ RestartTimesOut
  BY <1>1, <1>4 DEF StepThrows, RestartTimesOut, Throw, At
<1>5. CASE Writer
  BY <1>1, <1>5 DEF Writer, WriterConnects, WriterReleased, WriterExits, OperationFails
<1>6. ASSUME NEW d \in Domains, BrokerReceives(d) \/ BrokerAcknowledges(d) PROVE StorageInv'
  BY <1>0, <1>1, <1>6 DEF BrokerReceives, BrokerAcknowledges, StorageInv
<1>7. ASSUME NEW x \in Ops, BrokerPersists(x) \/ StorageApplies(x) \/ StorageWriteLost(x)
      PROVE  StorageInv'
  BY <1>0, <1>1, <1>7 DEF BrokerPersists, StorageApplies, StorageWriteLost, StorageInv
<1>8. CASE UNCHANGED vars
  BY <1>1, <1>8 DEF vars
<1> QED
  BY <1>2, <1>3, <1>4, <1>5, <1>6, <1>7, <1>8 DEF Next, Broker

(* What the verifier reads is still so when the ledger is judged: nothing of the
   broker's changes then but late writes that land. *)
LEMMA NextVerdictInv == IInv /\ [Next]_vars => VerdictInv'
<1> SUFFICES ASSUME IInv, [Next]_vars PROVE VerdictInv'
  OBVIOUS
<1> USE DEF driverVars, writerVars, brokerVars, ToStart, ToFinish, Misbehaviours
<1>0. /\ TypeOK /\ WellOrdered(todo) /\ WriterInv /\ LedgerInv /\ StorageInv /\ VerdictInv
      /\ VerdictIsLast(todo)
  BY DEF IInv, WellOrdered
<1>1. ASSUME UNCHANGED campaign
      PROVE  Ops' = Ops /\ Domains' = Domains /\ Iterations' = Iterations
  BY <1>1 DEF Ops, Domains, SequenceNumbers, Iterations
<1>2. ASSUME UNCHANGED <<campaign, iter, todo>>, outcome' = "threw"
      PROVE  VerdictInv'
  BY <1>0, <1>1, <1>2 DEF VerdictInv, AcceptedIsDurable, NoFalseAlarm
(* Steps before the verification. *)
<1>3. ASSUME NEW s \in StepNames \ {"healthy", "ensureReady", "verify", "judge"}, At(s), Done,
             UNCHANGED <<campaign, iter, outcome>>
      PROVE  VerdictInv'
  <2>1. outcome = "none" /\ outcome' = "none" /\ NotAfter(todo, s, "judge") /\ ~Has(todo, "judge")
    <3>1. outcome = "none" /\ ~Has(todo', "judge") /\ s # "judge"
      BY <1>0, <1>3, DoneStep DEF VerdictIsLast
    <3> QED
      BY <1>0, <1>3, <3>1, DoneStep DEF VerdictIsLast
  <2>2. ~Has(todo', "judge")
    BY <1>0, <1>3, <2>1, DoneStep
  <2> QED
    BY <2>1, <2>2 DEF VerdictInv, AcceptedIsDurable, NoFalseAlarm
<1>4. ASSUME NEW s \in {"healthy", "ensureReady"}, At(s), Done,
             UNCHANGED <<campaign, iter, outcome, started, acknowledged, observed, stored, doubled>>
      PROVE  VerdictInv'
  <2>1. /\ outcome = "none" /\ outcome' = "none"
        /\ Has(todo', "judge") => Has(todo, "judge")
        /\ Has(todo, "verify") => Has(todo', "verify")
        /\ ToFinish' => ToFinish
    BY <1>0, <1>4, DoneStep
  <2> QED
    BY <1>0, <1>1, <1>4, <2>1 DEF VerdictInv, AcceptedIsDurable, NoFalseAlarm
<1>5. CASE NextIteration
  <2>1. /\ ~ToFinish /\ outcome = "none" /\ outcome' = "none" /\ UNCHANGED campaign
        /\ iter \in Nat
    BY <1>0, <1>5, EmptyHasNone, CampaignsAssumption
       DEF NextIteration, TypeOK, SequenceNumbers, Iterations
  <2>2. CASE iter < Iterations /\ iter' = iter + 1 /\ todo' = IterationSteps(IdentityOf(iter + 1))
    <3>1. ~Has(todo', "judge")
      BY <1>0, <2>1, <2>2, IterationPlanned DEF TypeOK, IsPlan, PlanBegins
    <3> QED
      BY <2>1, <3>1 DEF VerdictInv, AcceptedIsDurable, NoFalseAlarm
  <2>3. CASE iter = Iterations /\ todo' = VerifySteps /\ UNCHANGED iter
    <3>1. ~ToFinish' /\ Has(todo', "verify")
      BY <1>0, <2>3, VerifyPlanned DEF TypeOK, StepNames
    <3> QED
      BY <1>1, <2>1, <2>3, <3>1 DEF VerdictInv, AcceptedIsDurable, NoFalseAlarm
  <2> QED
    BY <1>5, <2>2, <2>3 DEF NextIteration
<1>6. CASE Verify
  <2>1. PICK late \in SUBSET (stored \ visible) :
          observed' = [x \in Ops |-> IF x \in doubled THEN 2
                                     ELSE IF x \in visible \cup late THEN 1 ELSE 0]
    BY <1>6 DEF Verify
  <2>2. /\ outcome = "none" /\ outcome' = "none" /\ Has(todo', "judge") /\ Has(todo, "judge")
        /\ ToFinish' => ToFinish
        /\ UNCHANGED <<campaign, iter, acknowledged, stored, doubled>>
    BY <1>0, <1>6, DoneStep DEF Verify, VerdictIsLast
  <2>3. Misbehaviours = {} => doubled = {} /\ acknowledged \subseteq visible
    BY <1>0 DEF StorageInv, LedgerInv
  <2>4. \A x \in Ops : /\ observed'[x] > 0 => x \in stored
                       /\ x \in doubled => observed'[x] > 1
    BY <1>0, <2>1 DEF StorageInv
  <2>5. Misbehaviours = {} =>
          \A x \in Ops : observed'[x] <= 1 /\ (x \in acknowledged => observed'[x] > 0)
    BY <2>1, <2>3
  <2>6. iter = Iterations /\ ~ToFinish
    BY <1>0, <2>2 DEF VerdictInv
  <2> QED
    BY <1>1, <2>2, <2>4, <2>5, <2>6 DEF VerdictInv, AcceptedIsDurable, NoFalseAlarm
<1>7. CASE Judge
  <2>1. /\ outcome = "none" /\ Has(todo, "judge")
        /\ ToFinish' => ToFinish
        /\ ~Has(todo', "verify")
        /\ UNCHANGED <<campaign, iter, acknowledged, stored, doubled, observed, replied>>
        /\ outcome' = IF LedgerAccepts THEN "passed" ELSE "rejected"
    BY <1>0, <1>7, DoneStep DEF Judge, VerdictIsLast, StepNames
  <2>2. ~Has(todo, "verify")
    BY <1>0, <1>7, <2>1, DoneStep DEF Judge
  <2>3. /\ iter = Iterations /\ ~ToFinish
        /\ \A x \in Ops : /\ observed[x] > 0 => x \in stored
                          /\ x \in doubled => observed[x] > 1
                          /\ Misbehaviours = {} => /\ observed[x] <= 1
                                                   /\ x \in acknowledged => observed[x] > 0
    BY <1>0, <2>1, <2>2 DEF VerdictInv
  <2>4. /\ observed \in [Ops -> 0..2] /\ acknowledged \subseteq Ops /\ replied \subseteq Ops
        /\ iter \in Nat
    BY <1>0, CampaignsAssumption DEF TypeOK, OpsSoFar, SequenceNumbers, Iterations
  <2>5. replied = acknowledged
    BY <1>0, <2>1, <2>3 DEF LedgerInv
  <2>6. Ops \subseteq started
    <3> SUFFICES ASSUME NEW x \in Ops PROVE x \in started
      OBVIOUS
    <3>1. x[2] < iter \/ x[2] = iter
      BY <2>3, <2>4 DEF Ops, SequenceNumbers
    <3> QED
      BY <1>0, <2>1, <2>3, <3>1 DEF LedgerInv
  <2>7. \A d \in Domains : <<d, 0>> \in acknowledged
    <3>1. CASE iter = 0
      BY <1>0, <2>1, <2>3, <3>1 DEF LedgerInv
    <3>2. CASE iter # 0
      <4>1. iter > 0
        BY <2>4, <3>2
      <4> QED
        BY <1>0, <4>1 DEF LedgerInv
    <3> QED
      BY <3>1, <3>2
  <2>8. NoFalseAlarm'
    <3> SUFFICES ASSUME Misbehaviours = {} PROVE LedgerAccepts
      BY <2>1 DEF NoFalseAlarm
    <3>1. NoDuplicates
      BY <2>3 DEF NoDuplicates
    <3>2. \A x \in acknowledged : observed[x] > 0
      BY <2>3, <2>4
    <3> QED
      BY <2>6, <2>7, <3>1, <3>2 DEF LedgerAccepts
  <2>9. AcceptedIsDurable'
    <3> SUFFICES ASSUME LedgerAccepts PROVE replied \subseteq stored /\ replied \cap doubled = {}
      BY <2>1 DEF AcceptedIsDurable
    <3>1. replied \subseteq stored
      BY <2>3, <2>4, <2>5 DEF LedgerAccepts
    <3>2. ASSUME NEW x \in replied, x \in doubled PROVE FALSE
      <4>1. observed[x] > 1 /\ observed[x] <= 1 /\ observed[x] \in 0..2
        BY <2>3, <2>4, <3>2 DEF LedgerAccepts, NoDuplicates
      <4> QED
        BY <4>1
    <3> QED
      BY <3>1, <3>2
  <2> QED
    BY <1>1, <2>1, <2>3, <2>8, <2>9 DEF VerdictInv
<1>8. CASE FinishWriter
  BY <1>2, <1>3, <1>8 DEF FinishWriter, Throw, StepNames
<1>9. ASSUME NEW step \in {"awaitReady", "awaitDispatched", "awaitAcknowledged"},
             AwaitEvent(step)
      PROVE  VerdictInv'
  BY <1>2, <1>3, <1>9 DEF AwaitEvent, Throw, StepNames
<1>10. CASE PauseSqrzl \/ UnpauseSqrzl \/ StartWriter \/ Signal \/ KillFitz \/ RestartFitz
  BY <1>3, <1>10 DEF PauseSqrzl, UnpauseSqrzl, StartWriter, Signal, KillFitz, RestartFitz, StepNames
<1>11. CASE SetFaultProxy
  BY <1>3, <1>4, <1>11 DEF SetFaultProxy, StepNames
<1>12. CASE EnsureReady
  BY <1>4, <1>12 DEF EnsureReady
<1>13. CASE StepThrows \/ RestartTimesOut
  BY <1>2, <1>13 DEF StepThrows, RestartTimesOut, Throw, At
(* Nothing is acknowledged after the verdict, and nothing stored is lost. *)
<1>14. ASSUME UNCHANGED driverVars, stored \subseteq stored', doubled' = doubled,
              outcome \in {"passed", "rejected"} => replied' = replied
       PROVE  VerdictInv'
  BY <1>0, <1>1, <1>14 DEF VerdictInv, AcceptedIsDurable, NoFalseAlarm
<1>15. CASE Writer
  BY <1>14, <1>15 DEF Writer, WriterConnects, WriterReleased, WriterExits, OperationFails
<1>16. ASSUME NEW d \in Domains, BrokerReceives(d) \/ BrokerAcknowledges(d)
       PROVE  VerdictInv'
  <2>1. outcome \in {"passed", "rejected"} => op[d] \in {"idle", "acked", "failed"}
    BY <1>0 DEF VerdictInv, WriterInv
  <2> QED
    BY <1>14, <1>16, <2>1 DEF BrokerReceives, BrokerAcknowledges
<1>17. ASSUME NEW x \in Ops, BrokerPersists(x) \/ StorageApplies(x) \/ StorageWriteLost(x)
       PROVE  VerdictInv'
  BY <1>14, <1>17 DEF BrokerPersists, StorageApplies, StorageWriteLost
<1>18. CASE UNCHANGED vars
  BY <1>14, <1>18 DEF vars
<1> QED
  BY <1>5, <1>6, <1>7, <1>8, <1>9, <1>10, <1>11, <1>12, <1>13, <1>15, <1>16, <1>17, <1>18
     DEF Next, Driver, Broker

(* Every step preserves the inductive invariant. *)
LEMMA NextIInv == IInv /\ [Next]_vars => IInv'
<1> SUFFICES ASSUME IInv, [Next]_vars PROVE IInv'
  OBVIOUS
<1>1. TypeOK' /\ WellOrdered(todo)'
  BY NextTypeOK DEF IInv
<1> QED
  BY <1>1, NextFaultInv, NextWriterInv, NextLedgerInv, NextStorageInv, NextVerdictInv DEF IInv

(* The inductive invariant holds of every run of the driver, for every plan and
   every interleaving with the writer, the broker and its storage. *)
THEOREM DurabilityInvariant == Spec => []IInv
<1>1. Init => IInv
  BY InitIInv
<1>2. IInv /\ [Next]_vars => IInv'
  BY NextIInv
<1> QED
  BY <1>1, <1>2, PTL DEF Spec

(* Every variable keeps its type: the steps of all plans stay within what the
   driver knows how to do, and the ledgers within the campaign's operations. *)
THEOREM DurabilityTypeOK == Spec => []TypeOK
<1>1. IInv => TypeOK
  BY DEF IInv
<1> QED
  BY <1>1, DurabilityInvariant, PTL

(* assertDurabilityLedger never rejects a correct broker, whatever a cut
   interrupts and whenever interrupted storage writes land. *)
THEOREM DurabilityNoFalseAlarm == Spec => []NoFalseAlarm
<1>1. IInv => NoFalseAlarm
  BY DEF IInv, VerdictInv
<1> QED
  BY <1>1, DurabilityInvariant, PTL

(* A campaign passes only when every acknowledgement that reached a writer is in
   the storage that the last broker recovered from, and served once. *)
THEOREM DurabilityAcceptedIsDurable == Spec => []AcceptedIsDurable
<1>1. IInv => AcceptedIsDurable
  BY DEF IInv, VerdictInv
<1> QED
  BY <1>1, DurabilityInvariant, PTL

(* Every fault is lifted when the verifier reads, although an unpause may fail
   unnoticed, and a run that throws has tried to unpause Sqrzl unless the pause
   itself threw. *)
THEOREM DurabilityFaultsAreLifted == Spec => []FaultsAreLifted
<1>1. IInv => FaultsAreLifted
  <2> SUFFICES ASSUME IInv PROVE FaultsAreLifted
    OBVIOUS
  <2>1. ASSUME At("verify") PROVE provider = "running" /\ link = "healthy" /\ broker = "up"
    <3>1. todo \in Seq(StepNames) /\ todo # <<>> /\ Head(todo) = "verify" /\ VerdictIsLast(todo)
      BY <2>1 DEF IInv, TypeOK, WellOrdered, At
    <3>2. \A s \in StepNames \ {"judge", "verify"} : ~Has(todo, s)
      BY <3>1, HeadTail DEF VerdictIsLast
    <3>3. ~Has(todo, "unpauseSqrzl") /\ ~Has(todo, "restartFitz") /\ ~Has(todo, "healthy")
      BY <3>2 DEF StepNames
    <3> QED
      BY <2>1, <3>3 DEF IInv, TypeOK, FaultInv, At
  <2> QED
    BY <2>1 DEF IInv, FaultInv, FaultsAreLifted
<1> QED
  BY <1>1, DurabilityInvariant, PTL
-----------------------------------------------------------------------------
(* What the cuts rest on, beyond the inductive invariant. *)

(* The steps left of an iteration are in the order of its plan. *)
PlanInv ==
    outcome = "none" =>
        /\ Has(todo, "killFitz") \/ Has(todo, "pauseSqrzl") => iter > 0
        /\ iter > 0 => PlanOrder(todo, Identity)

(* Nothing of an iteration is written before its writer starts, nor stored
   while the provider is paused. *)
FreshInv ==
    /\ outcome = "none" /\ ToStart =>
          \A d \in Domains : <<d, iter>> \notin memory \cup inflight \cup stored
    /\ outcome = "none" /\ provider = "paused" =>
          \A d \in Domains : <<d, iter>> \notin stored

(* A gated writer waits for the signal, and the driver for its dispatch. *)
GateInv ==
    outcome = "none" =>
        /\ released /\ ~ToStart => ~Has(todo, "signal")
        /\ writer = "ready" => gated
        /\ iter > 0 =>
              /\ writer \in {"connecting", "ready"} => (gated <=> Gated(Identity))
              /\ ~ToStart /\ ~Dispatched /\ Gated(Identity) /\ Identity # "request-dispatch" =>
                    Has(todo, "awaitDispatched")
              /\ Identity = "acknowledgement" /\ ~ToStart /\ ~Has(todo, "awaitAcknowledged") =>
                    SomeAcked

(* The fault of the identity is in force from the step that sets it until the
   driver knows that the operations were dispatched. *)
ForceInv ==
    outcome = "none" /\ iter > 0 =>
        /\ PausesProvider(Identity) /\ ~Has(todo, "pauseSqrzl") /\ Has(todo, "awaitDispatched") =>
              provider = "paused"
        /\ Identity = "bounded-latency" /\ ~Has(todo, "latency") /\ ToFinish => link = "latency"
        /\ Identity = "connection-reset" /\ ~Has(todo, "reset") /\ Has(todo, "awaitDispatched") =>
              link = "reset"
        /\ Identity \in {"provider-partition", "fitz-crash-inflight"}
              /\ ~Has(todo, "partition") /\ Has(todo, "awaitDispatched") => link = "partition"

CutInv == PlanInv /\ FreshInv /\ GateInv /\ ForceInv

(* What occurs is followed by what comes after it; what does not occur is in
   every order. *)
LEMMA OrderOfOccurring ==
    ASSUME NEW q
    PROVE  /\ \A a, b : Has(q, a) /\ After(q, a, b) => Has(q, b)
           /\ \A a, b : ~Has(q, a) => After(q, a, b) /\ NotAfter(q, a, b) /\ NotAfter(q, b, a)
           /\ \A a, b, c : ~Has(q, b) => Brings(q, a, b, c)
BY DEF Has, After, NotAfter, Brings

(* So does the order that the plan of an iteration has. *)
LEMMA TailPlanOrder ==
    ASSUME NEW q \in Seq(StepNames), q # <<>>, NEW identity, PlanOrder(q, identity)
    PROVE  PlanOrder(Tail(q), identity)
<1>1. \A a : ~Has(q, a) => ~Has(Tail(q), a)
  BY HeadTail
<1> QED
  BY <1>1, TailOrder DEF PlanOrder

(* The verification has nothing that a plan could put out of order. *)
LEMMA VerifyPlanOrder ==
    ASSUME campaign \in Campaigns, NEW identity
    PROVE  PlanOrder(VerifySteps, identity)
<1> DEFINE q == VerifySteps
<1>1. /\ ~Has(q, "signal") /\ ~Has(q, "startGated") /\ ~Has(q, "startUngated")
      /\ ~Has(q, "pauseSqrzl") /\ ~Has(q, "unpauseSqrzl") /\ ~Has(q, "latency")
      /\ ~Has(q, "reset") /\ ~Has(q, "partition") /\ ~Has(q, "finishWriter")
      /\ ~Has(q, "awaitDispatched") /\ ~Has(q, "awaitAcknowledged") /\ ~Has(q, "killFitz")
  BY VerifyPlanned DEF StepNames
<1> HIDE DEF q
<1> QED
  BY <1>1, OrderOfOccurring DEF PlanOrder, q

(* Init establishes what is known of the fault and of the gate. *)
LEMMA InitCutInv == Init => CutInv
<1> SUFFICES ASSUME Init PROVE CutInv
  OBVIOUS
<1>1. campaign \in Campaigns /\ iter = 0 /\ todo = BaselineSteps
  BY DEF Init
<1>2. ~Has(todo, "killFitz") /\ ~Has(todo, "pauseSqrzl")
  BY <1>1, BaselinePlanned DEF StepNames
<1> QED
  BY <1>1, <1>2 DEF Init, CutInv, PlanInv, FreshInv, GateInv, ForceInv

(* The identity changes with the iteration only. *)
LEMMA SameIdentity ==
    ASSUME UNCHANGED <<campaign, iter>>
    PROVE  Identity' = Identity /\ Domains' = Domains
BY DEF Identity, IdentityOf, Scenario, CrashCutPlan, StorageFaultPlan, Domains

(* The driver's steps: the next one, the next iteration, or a throw. *)
DriverGoesOn == \E s \in StepNames : At(s) /\ Done /\ UNCHANGED <<campaign, iter>>

(* Every step of the specification is one of them, or leaves the driver alone. *)
LEMMA DriverSteps ==
    ASSUME IInv, [Next]_vars
    PROVE  \/ DriverGoesOn
           \/ NextIteration
           \/ outcome' = "threw"
           \/ UNCHANGED driverVars
<1> USE DEF driverVars, writerVars, brokerVars
<1>1. TypeOK
  BY DEF IInv
<1>2. ASSUME NEW s, At(s), Done, UNCHANGED <<campaign, iter>> PROVE DriverGoesOn
  <2>1. s \in StepNames
    BY <1>1, <1>2, TailSteps DEF TypeOK, At
  <2> QED
    BY <1>2, <2>1 DEF DriverGoesOn
<1>3. CASE Writer \/ Broker
  BY <1>3, OthersLeaveDriver
<1>4. CASE Driver
  BY <1>2, <1>4 DEF Driver, PauseSqrzl, UnpauseSqrzl, SetFaultProxy, StartWriter, Signal,
     FinishWriter, AwaitEvent, Throw, KillFitz, RestartFitz, RestartTimesOut, EnsureReady, Verify,
     Judge
<1>5. CASE StepThrows \/ RestartTimesOut
  BY <1>5 DEF StepThrows, RestartTimesOut, Throw, At
<1>6. CASE UNCHANGED vars
  BY <1>6 DEF vars
<1> QED
  BY <1>3, <1>4, <1>5, <1>6 DEF Next

(* Every step keeps the rest of the plan in order. *)
LEMMA NextPlanInv == IInv /\ CutInv /\ [Next]_vars => PlanInv'
<1> SUFFICES ASSUME IInv, CutInv, [Next]_vars PROVE PlanInv'
  OBVIOUS
<1> USE DEF driverVars
<1>0. /\ TypeOK /\ WellOrdered(todo) /\ PlanInv
      /\ Iterations \in Nat /\ iter \in Nat /\ campaign \in Campaigns
  BY CampaignsAssumption DEF IInv, CutInv, TypeOK, Iterations, SequenceNumbers
<1>1. CASE DriverGoesOn
  <2>1. PICK s \in StepNames : At(s) /\ Done /\ UNCHANGED <<campaign, iter>>
    BY <1>1 DEF DriverGoesOn
  <2>2. outcome = "none" /\ \A r : Has(todo', r) => Has(todo, r)
    BY <1>0, <2>1, DoneStep
  <2>3. iter > 0 => PlanOrder(todo', Identity)
    BY <1>0, <2>1, <2>2, TailPlanOrder DEF TypeOK, At, Done, PlanInv
  <2> QED
    BY <1>0, <2>1, <2>2, <2>3, SameIdentity DEF PlanInv
<1>2. CASE NextIteration
  <2>1. campaign' = campaign /\ outcome = "none"
    BY <1>2 DEF NextIteration
  <2>2. CASE iter < Iterations /\ iter' = iter + 1 /\ todo' = IterationSteps(IdentityOf(iter + 1))
    <3>1. iter + 1 \in Nat \ {0} /\ iter' > 0
      BY <1>0, <2>2
    <3>2. Identity' = IdentityOf(iter + 1)
      BY <2>1, <2>2
         DEF Identity, IdentityOf, Scenario, CrashCutPlan, StorageFaultPlan
    <3>3. PlanOrder(todo', IdentityOf(iter + 1))
      BY <1>0, <2>2, <3>1, IterationPlanned DEF IsPlan
    <3> QED
      BY <3>1, <3>2, <3>3 DEF PlanInv
  <2>3. CASE iter = Iterations /\ todo' = VerifySteps /\ UNCHANGED iter
    <3>1. ~Has(todo', "killFitz") /\ ~Has(todo', "pauseSqrzl")
      BY <1>0, <2>3, VerifyPlanned DEF StepNames
    <3>2. PlanOrder(todo', Identity)
      BY <1>0, <2>3, VerifyPlanOrder
    <3> QED
      BY <2>1, <2>3, <3>1, <3>2, SameIdentity DEF PlanInv
  <2> QED
    BY <1>2, <2>2, <2>3 DEF NextIteration
<1>3. CASE outcome' = "threw"
  BY <1>3 DEF PlanInv
<1>4. CASE UNCHANGED driverVars
  BY <1>0, <1>4, SameIdentity DEF PlanInv
<1> QED
  BY <1>1, <1>2, <1>3, <1>4, DriverSteps

(* A write goes from the writer through the broker's memory to the storage, and
   a paused provider stores nothing. *)
LEMMA NextFreshInv == IInv /\ CutInv /\ [Next]_vars => FreshInv'
<1> SUFFICES ASSUME IInv, CutInv, [Next]_vars PROVE FreshInv'
  OBVIOUS
<1> USE DEF driverVars, writerVars, brokerVars, ToStart
<1>0. /\ TypeOK /\ WellOrdered(todo) /\ WriterInv /\ FaultInv /\ FreshInv /\ PlanInv
      /\ iter \in Nat
  BY CampaignsAssumption DEF IInv, CutInv, TypeOK, Iterations, SequenceNumbers
<1>1. ASSUME UNCHANGED <<campaign, iter>> PROVE Domains' = Domains
  BY <1>1 DEF Domains
<1>2. CASE outcome' = "threw"
  BY <1>2 DEF FreshInv
<1>3. ASSUME NEW s, At(s), Done, UNCHANGED <<campaign, iter>>,
             provider' = "paused" => provider = "paused" \/ ToStart,
             memory' \subseteq memory, inflight' \subseteq inflight, stored' \subseteq stored
      PROVE  FreshInv'
  <2>1. outcome = "none" /\ (ToStart' => ToStart)
    BY <1>0, <1>3, DoneStep
  <2> QED
    BY <1>0, <1>1, <1>3, <2>1 DEF FreshInv
<1>4. CASE PauseSqrzl
  <2>1. ToStart
    <3>1. At("pauseSqrzl") /\ Has(todo, "pauseSqrzl") /\ outcome = "none"
      BY <1>0, <1>4, DoneStep DEF PauseSqrzl
    <3>2. PlanOrder(todo, Identity)
      BY <1>0, <3>1 DEF PlanInv
    <3>3. After(todo, "pauseSqrzl", "startGated")
      BY <3>1, <3>2 DEF PlanOrder
    <3> QED
      BY <3>1, <3>3, OrderOfOccurring
  <2> QED
    BY <1>3, <1>4, <2>1 DEF PauseSqrzl
<1>5. CASE UnpauseSqrzl \/ SetFaultProxy \/ StartWriter \/ Signal
  BY <1>3, <1>5 DEF UnpauseSqrzl, Unpaused, SetFaultProxy, StartWriter, Signal
<1>6. CASE FinishWriter
  BY <1>2, <1>3, <1>6 DEF FinishWriter, Throw
<1>7. ASSUME NEW step, AwaitEvent(step) PROVE FreshInv'
  BY <1>2, <1>3, <1>7 DEF AwaitEvent, Throw
<1>8. CASE KillFitz \/ EnsureReady \/ Verify \/ Judge
  BY <1>3, <1>8 DEF KillFitz, EnsureReady, Verify, Judge
<1>9. CASE RestartFitz
  BY <1>3, <1>9 DEF RestartFitz, BrokerRecovers
<1>10. CASE StepThrows \/ RestartTimesOut
  BY <1>2, <1>10 DEF StepThrows, RestartTimesOut, Throw, At
<1>11. CASE NextIteration
  <2>1. /\ provider # "paused" /\ outcome = "none" /\ UNCHANGED <<campaign, provider>>
        /\ UNCHANGED <<memory, inflight, stored>>
    BY <1>0, <1>11, EmptyHasNone DEF NextIteration, FaultInv
  <2>2. CASE iter' = iter + 1
    <3>1. \A x \in memory \cup inflight \cup stored : x[2] \in Nat /\ x[2] <= iter
      BY <1>0, CampaignsAssumption DEF TypeOK, OpsSoFar, Ops, SequenceNumbers
    <3> QED
      BY <1>0, <2>1, <2>2, <3>1 DEF FreshInv
  <2>3. CASE todo' = VerifySteps
    <3>1. ~ToStart'
      BY <1>0, <2>3, VerifyPlanned DEF TypeOK, StepNames
    <3> QED
      BY <2>1, <3>1 DEF FreshInv
  <2> QED
    BY <1>11, <2>2, <2>3 DEF NextIteration
<1>12. CASE Writer
  BY <1>0, <1>1, <1>12, OthersLeaveDriver
     DEF Writer, WriterConnects, WriterReleased, WriterExits, OperationFails, FreshInv
<1>13. ASSUME NEW d \in Domains, BrokerReceives(d) \/ BrokerAcknowledges(d)
       PROVE  FreshInv'
  <2>1. outcome = "none" => ~ToStart
    BY <1>0, <1>13 DEF BrokerReceives, BrokerAcknowledges, WriterInv
  <2> QED
    BY <1>0, <1>1, <1>13, <2>1 DEF BrokerReceives, BrokerAcknowledges, FreshInv
<1>14. ASSUME NEW x \in Ops, BrokerPersists(x) \/ StorageApplies(x) \/ StorageWriteLost(x)
       PROVE  FreshInv'
  BY <1>0, <1>1, <1>14 DEF BrokerPersists, StorageApplies, StorageWriteLost, FreshInv
<1>15. CASE UNCHANGED vars
  BY <1>0, <1>1, <1>15 DEF vars, FreshInv
<1> QED
  BY <1>4, <1>5, <1>6, <1>7, <1>8, <1>9, <1>10, <1>11, <1>12, <1>13, <1>14, <1>15
     DEF Next, Driver, Broker

(* The driver signals a gated writer once, and waits for the dispatch, and for
   an acknowledgement where its cut is named after one. *)
LEMMA NextGateInv == IInv /\ CutInv /\ [Next]_vars => GateInv'
<1> SUFFICES ASSUME IInv, CutInv, [Next]_vars PROVE GateInv'
  OBVIOUS
<1> USE DEF driverVars, writerVars, brokerVars, ToStart, ToFinish
<1>0. /\ TypeOK /\ WellOrdered(todo) /\ WriterInv /\ GateInv /\ PlanInv
      /\ iter \in Nat
  BY CampaignsAssumption DEF IInv, CutInv, TypeOK, Iterations, SequenceNumbers
<1>1. ASSUME UNCHANGED <<campaign, op>>
      PROVE  Dispatched' = Dispatched /\ SomeAcked' = SomeAcked
  BY <1>1 DEF Dispatched, SomeAcked, Domains
<1>2. CASE outcome' = "threw"
  BY <1>2 DEF GateInv
(* Steps that have nothing to do with the gate. *)
<1>3. ASSUME NEW s, At(s), Done, UNCHANGED <<campaign, iter, released, gated, op>>,
             s \notin {"startGated", "startUngated"},
             writer' = writer \/ writer' = "none",
             s = "awaitDispatched" => Dispatched,
             s = "awaitAcknowledged" => SomeAcked
      PROVE  GateInv'
  <2>1. /\ outcome = "none" /\ (ToStart' <=> ToStart)
        /\ Has(todo', "signal") => Has(todo, "signal")
        /\ Has(todo, "awaitDispatched") /\ s # "awaitDispatched" => Has(todo', "awaitDispatched")
        /\ Has(todo, "awaitAcknowledged") /\ s # "awaitAcknowledged" =>
              Has(todo', "awaitAcknowledged")
    BY <1>0, <1>3, DoneStep
  <2> QED
    BY <1>0, <1>1, <1>3, <2>1, SameIdentity DEF GateInv
<1>4. CASE PauseSqrzl \/ UnpauseSqrzl \/ SetFaultProxy
  BY <1>3, <1>4 DEF PauseSqrzl, UnpauseSqrzl, SetFaultProxy
<1>5. CASE KillFitz \/ RestartFitz \/ EnsureReady \/ Verify \/ Judge
  BY <1>3, <1>5 DEF KillFitz, RestartFitz, EnsureReady, Verify, Judge
<1>6. CASE FinishWriter
  BY <1>2, <1>3, <1>6 DEF FinishWriter, Throw
<1>7. ASSUME NEW step \in {"awaitReady", "awaitDispatched", "awaitAcknowledged"},
             AwaitEvent(step)
      PROVE  GateInv'
  BY <1>2, <1>3, <1>7 DEF AwaitEvent, Throw, Logged
<1>8. CASE Signal
  <2>1. /\ At("signal") /\ Done /\ outcome = "none" /\ UNCHANGED <<campaign, iter, writer, gated, op>>
        /\ ToStart' <=> ToStart
        /\ Has(todo, "awaitDispatched") => Has(todo', "awaitDispatched")
        /\ Has(todo, "awaitAcknowledged") => Has(todo', "awaitAcknowledged")
        /\ ~Has(todo', "signal")
    BY <1>0, <1>8, DoneStep DEF Signal, WellOrdered, OneWriter
  <2> QED
    BY <1>0, <1>1, <2>1, SameIdentity DEF GateInv
<1>9. CASE StartWriter
  <2>1. /\ ~ToStart' /\ outcome = "none" /\ UNCHANGED <<campaign, iter>>
        /\ writer' = "connecting" /\ ~released'
        /\ gated' <=> At("startGated")
    BY <1>0, <1>9, DoneStep DEF StartWriter, WellOrdered, OneWriter, TypeOK, At
  <2>2. ASSUME iter > 0
        PROVE  /\ gated' <=> Gated(Identity)
               /\ Gated(Identity) /\ Identity # "request-dispatch" => Has(todo', "awaitDispatched")
               /\ Identity = "acknowledgement" => Has(todo', "awaitAcknowledged")
    <3>1. PlanOrder(todo, Identity)
      BY <1>0, <2>1, <2>2 DEF PlanInv
    <3>2. CASE At("startGated")
      <4>1. Gated(Identity)
        BY <1>0, <1>9, <3>1, <3>2, DoneStep DEF StartWriter, PlanOrder
      <4>2. /\ Identity # "request-dispatch" => Has(todo', "awaitDispatched")
            /\ Identity = "acknowledgement" => Has(todo', "awaitAcknowledged")
        BY <1>0, <1>9, <3>1, <3>2, <4>1, DoneStep DEF StartWriter, PlanOrder
      <4> QED
        BY <2>1, <3>2, <4>1, <4>2
    <3>3. CASE At("startUngated")
      <4>1. ~Gated(Identity) /\ ~At("startGated")
        BY <1>0, <1>9, <3>1, <3>3, DoneStep DEF StartWriter, PlanOrder, At
      <4>2. Identity # "acknowledgement"
        BY <4>1 DEF Gated, CrashCuts
      <4> QED
        BY <2>1, <4>1, <4>2
    <3> QED
      BY <1>9, <3>2, <3>3 DEF StartWriter
  <2> QED
    BY <2>1, <2>2, SameIdentity DEF GateInv
<1>10. CASE StepThrows \/ RestartTimesOut
  BY <1>2, <1>10 DEF StepThrows, RestartTimesOut, Throw, At
<1>11. CASE NextIteration
  <2>1. /\ writer = "none" /\ outcome = "none" /\ UNCHANGED <<campaign, writer, gated, released, op>>
        /\ \A s : ~Has(todo, s)
        /\ \A d \in Domains : op[d] # "idle"
    BY <1>0, <1>11, EmptyHasNone DEF NextIteration, WriterInv
  <2>2. CASE iter < Iterations /\ iter' = iter + 1 /\ todo' = IterationSteps(IdentityOf(iter + 1))
    <3>1. ToStart'
      BY <1>0, <2>2, IterationPlanned DEF TypeOK, IsPlan, PlanBegins
    <3> QED
      BY <2>1, <3>1 DEF GateInv
  <2>3. CASE todo' = VerifySteps /\ UNCHANGED iter
    <3>1. ~ToStart' /\ ~Has(todo', "signal") /\ Dispatched
      BY <1>0, <2>1, <2>3, VerifyPlanned DEF TypeOK, StepNames, Dispatched
    <3> QED
      BY <1>0, <1>1, <2>1, <2>3, <3>1, SameIdentity DEF GateInv
  <2> QED
    BY <1>11, <2>2, <2>3 DEF NextIteration
(* Operations that were begun stay so, and so do acknowledged ones. *)
<1>12. ASSUME UNCHANGED <<driverVars, gated, released>>,
              Dispatched => Dispatched', SomeAcked => SomeAcked',
              writer' \in {"connecting", "ready"} => writer \in {"connecting", "ready"},
              writer' = "ready" => writer = "ready" \/ gated
       PROVE  GateInv'
  BY <1>0, <1>12, SameIdentity DEF GateInv
<1>13. CASE Writer
  <2>1. CASE WriterExits \/ (WriterConnects /\ op' = op)
    BY <1>1, <1>12, <2>1 DEF WriterExits, WriterConnects, StartOperations
  <2>2. CASE StartOperations /\ (WriterConnects \/ WriterReleased)
    <3>1. Dispatched' /\ ~SomeAcked
      BY <1>0, <2>2 DEF StartOperations, WriterConnects, WriterReleased, Dispatched, SomeAcked,
                        WriterInv, Domains
    <3> QED
      BY <1>12, <2>2, <3>1 DEF StartOperations, WriterConnects, WriterReleased
  <2>3. ASSUME NEW d \in Domains, OperationFails(d) PROVE GateInv'
    <3>1. (Dispatched => Dispatched') /\ (SomeAcked => SomeAcked')
      BY <1>0, <2>3 DEF OperationFails, Dispatched, SomeAcked, TypeOK, Domains
    <3> QED
      BY <1>12, <2>3, <3>1 DEF OperationFails
  <2> QED
    BY <1>13, <2>1, <2>2, <2>3 DEF Writer, WriterConnects, WriterReleased
<1>14. ASSUME NEW d \in Domains, BrokerReceives(d) \/ BrokerAcknowledges(d)
       PROVE  GateInv'
  <2>1. (Dispatched => Dispatched') /\ (SomeAcked => SomeAcked')
    BY <1>0, <1>14 DEF BrokerReceives, BrokerAcknowledges, Dispatched, SomeAcked, TypeOK, Domains
  <2> QED
    BY <1>12, <1>14, <2>1 DEF BrokerReceives, BrokerAcknowledges
<1>15. ASSUME NEW x \in Ops, BrokerPersists(x) \/ StorageApplies(x) \/ StorageWriteLost(x)
       PROVE  GateInv'
  BY <1>1, <1>12, <1>15 DEF BrokerPersists, StorageApplies, StorageWriteLost
<1>16. CASE UNCHANGED vars
  BY <1>1, <1>12, <1>16 DEF vars
<1> QED
  BY <1>4, <1>5, <1>6, <1>7, <1>8, <1>9, <1>10, <1>11, <1>13, <1>14, <1>15, <1>16
     DEF Next, Driver, Broker

(* A fault is set before the operations start, and lifted when they have. *)
LEMMA NextForceInv == IInv /\ CutInv /\ [Next]_vars => ForceInv'
<1> SUFFICES ASSUME IInv, CutInv, [Next]_vars PROVE ForceInv'
  OBVIOUS
<1> USE DEF driverVars, writerVars, brokerVars, ToFinish
<1>0. /\ TypeOK /\ WellOrdered(todo) /\ ForceInv /\ PlanInv
      /\ iter \in Nat
  BY CampaignsAssumption DEF IInv, CutInv, TypeOK, Iterations, SequenceNumbers
<1>1. CASE outcome' = "threw"
  BY <1>1 DEF ForceInv
<1>2. ASSUME NEW s, At(s), Done, UNCHANGED <<campaign, iter, provider, link>>,
             s \notin {"pauseSqrzl", "latency", "reset", "partition"}
      PROVE  ForceInv'
  <2>1. /\ outcome = "none" /\ \A r : Has(todo', r) => Has(todo, r)
        /\ \A r : Has(todo, r) /\ r # s => Has(todo', r)
    BY <1>0, <1>2, DoneStep
  <2> QED
    BY <1>0, <1>2, <2>1, SameIdentity DEF ForceInv
<1>3. CASE StartWriter \/ Signal \/ KillFitz \/ RestartFitz \/ EnsureReady \/ Verify \/ Judge
  BY <1>2, <1>3 DEF StartWriter, Signal, KillFitz, RestartFitz, EnsureReady, Verify, Judge
<1>4. CASE FinishWriter
  BY <1>1, <1>2, <1>4 DEF FinishWriter, Throw
<1>5. ASSUME NEW step \in {"awaitReady", "awaitDispatched", "awaitAcknowledged"},
             AwaitEvent(step)
      PROVE  ForceInv'
  BY <1>1, <1>2, <1>5 DEF AwaitEvent, Throw
<1>6. CASE PauseSqrzl
  <2>1. /\ outcome = "none" /\ \A r : Has(todo', r) => Has(todo, r)
        /\ \A r : Has(todo, r) /\ r # "pauseSqrzl" => Has(todo', r)
        /\ provider' = "paused" /\ UNCHANGED <<campaign, iter, link>>
    BY <1>0, <1>6, DoneStep DEF PauseSqrzl
  <2> QED
    BY <1>0, <2>1, SameIdentity DEF ForceInv
<1>7. CASE UnpauseSqrzl
  <2>1. /\ outcome = "none" /\ \A r : Has(todo', r) => Has(todo, r)
        /\ \A r : Has(todo, r) /\ r # "unpauseSqrzl" => Has(todo', r)
        /\ NotAfter(todo, "unpauseSqrzl", "awaitDispatched") => ~Has(todo', "awaitDispatched")
        /\ UNCHANGED <<campaign, iter, link>>
    BY <1>0, <1>7, DoneStep DEF UnpauseSqrzl
  <2>2. iter > 0 /\ PausesProvider(Identity) => ~Has(todo', "awaitDispatched")
    BY <1>0, <2>1 DEF PlanInv, PlanOrder
  <2> QED
    BY <1>0, <2>1, <2>2, SameIdentity DEF ForceInv
<1>8. CASE SetFaultProxy
  <2>1. PICK mode \in {"healthy", "latency", "reset", "partition"} :
          At(mode) /\ link' = mode /\ Done
    BY <1>8 DEF SetFaultProxy
  <2>2. /\ outcome = "none" /\ Has(todo, mode)
        /\ \A r : Has(todo', r) => Has(todo, r)
        /\ \A r : Has(todo, r) /\ r # mode => Has(todo', r)
        /\ \A b, c : Brings(todo, mode, b, c) /\ Has(todo', b) => Has(todo', c)
        /\ UNCHANGED <<campaign, iter, provider>>
    BY <1>0, <1>8, <2>1, DoneStep DEF SetFaultProxy
  <2>3. CASE iter > 0
    <3>1. PlanOrder(todo, Identity)
      BY <1>0, <2>2, <2>3 DEF PlanInv
    <3>2. /\ Identity = "bounded-latency" /\ ~Has(todo', "latency") /\ Has(todo', "finishWriter") =>
                mode = "latency"
          /\ Identity = "connection-reset" /\ ~Has(todo', "reset") /\ Has(todo', "awaitDispatched") =>
                mode = "reset"
          /\ Identity \in {"provider-partition", "fitz-crash-inflight"}
                /\ ~Has(todo', "partition") /\ Has(todo', "awaitDispatched") => mode = "partition"
      BY <2>2, <3>1 DEF PlanOrder
    <3> QED
      BY <1>0, <2>1, <2>2, <3>2, SameIdentity DEF ForceInv
  <2> QED
    BY <1>0, <2>2, <2>3 DEF ForceInv
<1>9. CASE NextIteration
  <2>1. outcome = "none" /\ UNCHANGED <<campaign, provider, link>>
    BY <1>9 DEF NextIteration
  <2>2. CASE iter < Iterations /\ iter' = iter + 1 /\ todo' = IterationSteps(IdentityOf(iter + 1))
    <3>1. Identity' = IdentityOf(iter + 1)
      BY <2>1, <2>2 DEF Identity, IdentityOf, Scenario, CrashCutPlan, StorageFaultPlan
    <3>2. PlanBegins(todo', Identity')
      BY <1>0, <2>2, <3>1, IterationPlanned DEF TypeOK, IsPlan
    <3> QED
      BY <3>2 DEF ForceInv, PlanBegins
  <2>3. CASE todo' = VerifySteps
    <3>1. ~Has(todo', "finishWriter") /\ ~Has(todo', "awaitDispatched")
      BY <1>0, <2>3, VerifyPlanned DEF TypeOK, StepNames
    <3> QED
      BY <3>1 DEF ForceInv
  <2> QED
    BY <1>9, <2>2, <2>3 DEF NextIteration
<1>10. CASE StepThrows \/ RestartTimesOut
  BY <1>1, <1>10 DEF StepThrows, RestartTimesOut, Throw, At
<1>11. ASSUME UNCHANGED <<driverVars, provider, link>> PROVE ForceInv'
  BY <1>0, <1>11, SameIdentity DEF ForceInv
<1>12. CASE Writer \/ Broker
  BY <1>11, <1>12 DEF Writer, Broker, WriterConnects, WriterReleased, WriterExits, OperationFails,
     BrokerReceives, BrokerAcknowledges, BrokerPersists, StorageApplies, StorageWriteLost
<1>13. CASE UNCHANGED vars
  BY <1>11, <1>13 DEF vars
<1> QED
  BY <1>3, <1>4, <1>5, <1>6, <1>7, <1>8, <1>9, <1>10, <1>12, <1>13 DEF Next, Driver

(* Every step preserves what is known of the fault and of the gate. *)
LEMMA NextCutInv == IInv /\ CutInv /\ [Next]_vars => CutInv'
BY NextPlanInv, NextFreshInv, NextGateInv, NextForceInv DEF CutInv

(* Operations start only when the fault of their iteration is in force. *)
LEMMA StartsInForce ==
    ASSUME IInv, CutInv, Next, iter > 0, outcome = "none", ~Dispatched, Dispatched'
    PROVE  InForce(Identity)
<1> USE DEF driverVars, writerVars, brokerVars, ToStart, ToFinish
<1>0. /\ TypeOK /\ WriterInv /\ PlanOrder(todo, Identity)
      /\ GateInv /\ ForceInv
  BY DEF IInv, CutInv, PlanInv
<1>1. ASSUME UNCHANGED campaign, \A d \in Domains : op[d] = "idle" => op'[d] = "idle"
      PROVE  FALSE
  BY <1>1 DEF Dispatched, Domains
<1>2. (WriterConnects /\ ~gated) \/ WriterReleased
  <2>1. CASE Driver
    <3>1. CASE StartWriter
      BY <1>1, <3>1 DEF StartWriter, Domains
    <3>2. CASE ~StartWriter
      <4>1. UNCHANGED <<campaign, op>>
        BY <2>1, <3>2 DEF Driver, NextIteration, PauseSqrzl, UnpauseSqrzl, SetFaultProxy, Signal,
           FinishWriter, AwaitEvent, Throw, KillFitz, RestartFitz, RestartTimesOut, EnsureReady,
           Verify, Judge
      <4> QED
        BY <1>1, <4>1
    <3> QED
      BY <3>1, <3>2
  <2>2. CASE StepThrows \/ RestartTimesOut
    BY <1>1, <2>2 DEF StepThrows, RestartTimesOut, Throw, At
  <2>3. CASE Writer
    <3>1. CASE WriterExits \/ (WriterConnects /\ gated)
      BY <1>1, <3>1 DEF WriterExits, WriterConnects
    <3>2. ASSUME NEW d \in Domains, OperationFails(d) PROVE FALSE
      BY <1>0, <1>1, <3>2 DEF OperationFails, TypeOK
    <3> QED
      BY <2>3, <3>1, <3>2 DEF Writer
  <2>4. CASE Broker
    <3>1. ASSUME NEW d \in Domains, BrokerReceives(d) \/ BrokerAcknowledges(d) PROVE FALSE
      BY <1>0, <1>1, <3>1 DEF BrokerReceives, BrokerAcknowledges, TypeOK
    <3>2. ASSUME NEW x \in Ops, BrokerPersists(x) \/ StorageApplies(x) \/ StorageWriteLost(x)
          PROVE  FALSE
      BY <1>1, <3>2 DEF BrokerPersists, StorageApplies, StorageWriteLost
    <3> QED
      BY <2>4, <3>1, <3>2 DEF Broker
  <2> QED
    BY <2>1, <2>2, <2>3, <2>4 DEF Next
<1>3. /\ ~ToStart /\ ToFinish
      /\ Gated(Identity) => released /\ ~Has(todo, "signal")
  BY <1>0, <1>2 DEF WriterConnects, WriterReleased, WriterInv, GateInv
<1>4. Gated(Identity) /\ Identity # "request-dispatch" => Has(todo, "awaitDispatched")
  BY <1>0, <1>3 DEF GateInv
<1>5. ASSUME PausesProvider(Identity) PROVE provider = "paused"
  <2>1. Gated(Identity) /\ Identity # "request-dispatch"
    BY <1>5 DEF PausesProvider, Gated, CrashCuts
  <2>2. ~Has(todo, "pauseSqrzl")
    BY <1>0, <1>3, <1>5, OrderOfOccurring DEF PlanOrder
  <2> QED
    BY <1>0, <1>4, <1>5, <2>1, <2>2 DEF ForceInv
<1>6. ASSUME Identity = "bounded-latency" PROVE link = "latency"
  <2>1. ~Has(todo, "latency")
    BY <1>0, <1>3, <1>6, OrderOfOccurring DEF PlanOrder
  <2> QED
    BY <1>0, <1>3, <1>6, <2>1 DEF ForceInv
<1>7. ASSUME Identity = "connection-reset" PROVE link = "reset"
  <2>1. Gated(Identity) /\ Identity # "request-dispatch"
    BY <1>7 DEF Gated, WaitForGate
  <2>2. ~Has(todo, "reset")
    BY <1>0, <1>3, <1>7, <2>1, OrderOfOccurring DEF PlanOrder
  <2> QED
    BY <1>0, <1>4, <1>7, <2>1, <2>2 DEF ForceInv
<1>8. ASSUME Identity \in {"provider-partition", "fitz-crash-inflight"} PROVE link = "partition"
  <2>1. Gated(Identity) /\ Identity # "request-dispatch"
    BY <1>8 DEF Gated, WaitForGate
  <2>2. ~Has(todo, "partition")
    BY <1>0, <1>3, <1>8, <2>1, OrderOfOccurring DEF PlanOrder
  <2> QED
    BY <1>0, <1>4, <1>8, <2>1, <2>2 DEF ForceInv
<1> QED
  BY <1>5, <1>6, <1>7, <1>8 DEF InForce

(* A kill comes after an acknowledgement or before any, as its cut says. *)
LEMMA KillMeetsCut ==
    ASSUME IInv, CutInv, Next, broker = "up", broker' = "down", Misbehaviours = {}
    PROVE  /\ Identity = "acknowledgement" => SomeAcked
           /\ provider = "paused" => ~SomeAcked
<1> USE DEF driverVars, writerVars, brokerVars, ToStart
<1>1. KillFitz
  BY DEF Next, Driver, Writer, Broker, NextIteration, PauseSqrzl, UnpauseSqrzl, SetFaultProxy,
     StartWriter, Signal, FinishWriter, AwaitEvent, Throw, StepThrows, RestartFitz, BrokerRecovers,
     RestartTimesOut, EnsureReady, Verify, Judge, WriterConnects, WriterReleased, WriterExits, OperationFails,
     BrokerReceives, BrokerAcknowledges, BrokerPersists, StorageApplies, StorageWriteLost
<1>2. /\ outcome = "none" /\ Has(todo, "killFitz") /\ iter > 0 /\ PlanOrder(todo, Identity)
      /\ ~ToStart
  <2>1. outcome = "none" /\ Has(todo, "killFitz") /\ TypeOK /\ WellOrdered(todo)
    BY <1>1, DoneStep DEF KillFitz, IInv
  <2>2. ~ToStart' /\ \A r : Has(todo, r) /\ r # "killFitz" => Has(todo', r)
    BY <1>1, <2>1, DoneStep DEF KillFitz, WellOrdered, OneWriter
  <2> QED
    BY <2>1, <2>2 DEF CutInv, PlanInv
<1>3. ASSUME Identity = "acknowledgement" PROVE SomeAcked
  <2>1. ~Has(todo, "awaitAcknowledged")
    <3>1. ~Has(todo', "awaitAcknowledged")
      BY <1>1, <1>2, <1>3, DoneStep DEF KillFitz, IInv, PlanOrder
    <3> QED
      BY <1>1, <3>1, DoneStep DEF KillFitz, IInv
  <2> QED
    BY <1>2, <1>3, <2>1 DEF CutInv, GateInv
<1>4. ASSUME provider = "paused", SomeAcked PROVE FALSE
  <2>1. PICK d \in Domains : op[d] = "acked"
    BY <1>4 DEF SomeAcked
  <2>2. <<d, iter>> \in replied
    BY <1>2, <2>1 DEF IInv, LedgerInv
  <2>3. <<d, iter>> \in stored
    BY <2>2 DEF IInv, StorageInv
  <2> QED
    BY <1>2, <1>4, <2>3 DEF CutInv, FreshInv
<1> QED
  BY <1>3, <1>4

(* The cuts hit what they are named after, in every iteration of every plan:
   runCrashCutIteration and runStorageFaultIteration have the operations start
   under the fault, kill the broker after an acknowledgement where the cut is
   named after one, and before any where the provider is blocked. *)
THEOREM DurabilityCutsMeetOperations == Spec => CutsMeetOperations
<1> DEFINE Cut == /\ iter > 0 /\ outcome = "none" /\ ~Dispatched /\ Dispatched' => InForce(Identity)
                  /\ broker = "up" /\ broker' = "down" /\ Misbehaviours = {} =>
                       /\ Identity = "acknowledgement" => SomeAcked
                       /\ InForce(Identity) /\ provider = "paused" => ~SomeAcked
<1>1. IInv /\ CutInv /\ [Next]_vars => [Cut]_vars
  BY StartsInForce, KillMeetsCut
<1>2. Init => CutInv
  BY InitCutInv
<1>3. IInv /\ CutInv /\ [Next]_vars => CutInv'
  BY NextCutInv
<1> QED
  BY <1>1, <1>2, <1>3, DurabilityInvariant, PTL DEF Spec, CutsMeetOperations
=============================================================================
