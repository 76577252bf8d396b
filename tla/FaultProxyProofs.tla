-------------------------- MODULE FaultProxyProofs --------------------------
(* Proofs about FaultProxy for every set of connections, every set of PUT
   bodies and every number of chunks. *)
EXTENDS FaultProxy, TLAPS

(* A connection that was never accepted has moved no byte and is not live. *)
FreshIsEmpty ==
    \A c \in Conns : client[c] = "none" =>
        /\ c \notin connections
        /\ upstream[c] = "undefined"
        /\ timers[c] = {}
        /\ \A d \in Dirs : taken[c][d] = 0 /\ written[c][d] = <<>>

(* Only a live connection with both sockets open has timers. *)
TimersAreLive ==
    \A c \in Conns : timers[c] # {} =>
        c \in connections /\ client[c] = "open" /\ upstream[c] = "open"

(* The inductive invariant. *)
IInv ==
    /\ TypeOK
    /\ TimersAreLive
    /\ FreshIsEmpty
    /\ HealthyIsTransparent
    /\ CutIsolatesUpstream

(* Writing the next chunk extends the identity sequence by one. *)
LEMMA AppendNext ==
    ASSUME NEW n \in Nat
    PROVE  Append([i \in 1..n |-> i], n + 1) = [i \in 1..(n + 1) |-> i]
<1> DEFINE s == [i \in 1..n |-> i]
           t == [i \in 1..(n + 1) |-> i]
<1>1. s \in Seq(Nat) /\ Len(s) = n
  OBVIOUS
<1>2. t \in Seq(Nat) /\ Len(t) = n + 1
  OBVIOUS
<1>3. Append(s, n + 1) \in Seq(Nat) /\ Len(Append(s, n + 1)) = n + 1
  BY <1>1
<1>4. ASSUME NEW i \in 1..(n + 1) PROVE Append(s, n + 1)[i] = t[i]
  BY <1>1
<1> QED
  BY <1>2, <1>3, <1>4

(* The empty stream is the identity sequence of length zero. *)
LEMMA EmptyStream == <<>> = [i \in 1..0 |-> i]
OBVIOUS

(* Init establishes the inductive invariant. *)
LEMMA InitIInv == Init => IInv
BY MaxLatencyAssumption
   DEF Init, IInv, TypeOK, TimersAreLive, FreshIsEmpty, HealthyIsTransparent,
       CutIsolatesUpstream, Modes, TimerRecord, Dirs

(* Closing connections keeps the types of what it changes. *)
LEMMA CloseTypes ==
    ASSUME TypeOK, NEW S \in SUBSET Conns, CloseConnections(S)
    PROVE  /\ connections' \in SUBSET Conns
           /\ client' \in [Conns -> {"none", "open", "destroyed"}]
           /\ upstream' \in [Conns -> {"undefined", "connecting", "open", "destroyed"}]
           /\ timers' \in [Conns -> SUBSET TimerRecord]
BY DEF TypeOK, CloseConnections

(* Every step keeps the types. *)
LEMMA NextTypeOK == TypeOK /\ [Next]_vars => TypeOK'
<1> SUFFICES ASSUME TypeOK, [Next]_vars PROVE TypeOK'
  OBVIOUS
<1>1. ASSUME NEW b \in Bodies, PutFault(b) PROVE TypeOK'
  <2>1. fault' \in [mode : Modes, latencyMs : 0..MaxLatencyMs]
    <3>1. b.mode \in Modes /\ b.latencyMs \in 0..MaxLatencyMs
      BY <1>1 DEF PutFault, ValidBody
    <3>2. fault' = [mode |-> b.mode,
                    latencyMs |-> IF b.mode = "latency" THEN b.latencyMs ELSE 0]
      BY <1>1 DEF PutFault
    <3> QED
      BY <3>1, <3>2, MaxLatencyAssumption
  <2>2. /\ connections' \in SUBSET Conns
        /\ client' \in [Conns -> {"none", "open", "destroyed"}]
        /\ upstream' \in [Conns -> {"undefined", "connecting", "open", "destroyed"}]
        /\ timers' \in [Conns -> SUBSET TimerRecord]
    <3>1. CASE ClosesAll(b.mode)
      BY <1>1, <3>1, CloseTypes DEF PutFault, TypeOK
    <3>2. CASE ~ClosesAll(b.mode)
      BY <1>1, <3>2 DEF PutFault, TypeOK
    <3> QED
      BY <3>1, <3>2
  <2>3. paused' \in [Conns -> BOOLEAN]
    BY <1>1 DEF PutFault, TypeOK
  <2>4. tainted' \in SUBSET Conns
    BY <1>1 DEF PutFault, TypeOK
  <2> QED
    BY <1>1, <2>1, <2>2, <2>3, <2>4 DEF PutFault, TypeOK, wire
<1>2. ASSUME NEW c \in Conns, Accept(c) PROVE TypeOK'
  BY <1>2 DEF Accept, TypeOK, wire
<1>3. ASSUME NEW c \in Conns, UpstreamConnected(c) PROVE TypeOK'
  BY <1>3 DEF UpstreamConnected, TypeOK, wire
<1>4. ASSUME NEW c \in Conns, SocketGone(c) PROVE TypeOK'
  BY <1>4, CloseTypes DEF SocketGone, TypeOK, wire
<1>5. ASSUME NEW c \in Conns, NEW d \in Dirs, NEW k \in Nat,
             NEW rest \in SUBSET TimerRecord, Write(c, d, k, rest)
      PROVE  /\ connections' \in SUBSET Conns
             /\ client' \in [Conns -> {"none", "open", "destroyed"}]
             /\ upstream' \in [Conns -> {"undefined", "connecting", "open", "destroyed"}]
             /\ timers' \in [Conns -> SUBSET TimerRecord]
             /\ written' \in [Conns -> [Dirs -> Seq(Nat)]]
  <2>1. CASE ended[c] = {}
    <3>1. Append(written[c][d], k) \in Seq(Nat)
      BY DEF TypeOK
    <3>2. written' = [written EXCEPT ![c][d] = Append(@, k)]
      BY <1>5, <2>1 DEF Write
    <3>3. written' \in [Conns -> [Dirs -> Seq(Nat)]]
      BY <3>1, <3>2 DEF TypeOK
    <3>4. timers' = [timers EXCEPT ![c] = rest]
      BY <1>5, <2>1 DEF Write
    <3>5. timers' \in [Conns -> SUBSET TimerRecord]
      BY <3>4 DEF TypeOK
    <3>6. UNCHANGED <<connections, client, upstream>>
      BY <1>5, <2>1 DEF Write
    <3> QED
      BY <3>3, <3>5, <3>6 DEF TypeOK
  <2>2. CASE ended[c] # {}
    BY <1>5, <2>2, CloseTypes DEF Write, TypeOK
  <2> QED
    BY <2>1, <2>2
<1>6. ASSUME NEW c \in Conns, NEW t \in timers[c], TimerFires(c, t) PROVE TypeOK'
  <2>1. t \in TimerRecord /\ timers[c] \ {t} \in SUBSET TimerRecord
    BY DEF TypeOK
  <2>2. t.dir \in Dirs /\ t.chunk \in Nat
    BY <2>1 DEF TimerRecord
  <2>3. Write(c, t.dir, t.chunk, timers[c] \ {t})
    BY <1>6 DEF TimerFires
  <2>4. /\ connections' \in SUBSET Conns
        /\ client' \in [Conns -> {"none", "open", "destroyed"}]
        /\ upstream' \in [Conns -> {"undefined", "connecting", "open", "destroyed"}]
        /\ timers' \in [Conns -> SUBSET TimerRecord]
        /\ written' \in [Conns -> [Dirs -> Seq(Nat)]]
    BY <1>5, <2>1, <2>2, <2>3
  <2> QED
    BY <1>6, <2>4 DEF TimerFires, TypeOK
<1>7. ASSUME NEW c \in Conns, NEW d \in Dirs, Data(c, d) PROVE TypeOK'
  <2> DEFINE chunk == taken[c][d] + 1
  <2>1. chunk \in Nat /\ timers[c] \in SUBSET TimerRecord /\ fault.latencyMs \in Nat
    BY MaxLatencyAssumption DEF TypeOK
  <2>2. taken' \in [Conns -> [Dirs -> Nat]]
    BY <1>7 DEF Data, TypeOK
  <2>3. /\ connections' \in SUBSET Conns
        /\ client' \in [Conns -> {"none", "open", "destroyed"}]
        /\ upstream' \in [Conns -> {"undefined", "connecting", "open", "destroyed"}]
        /\ timers' \in [Conns -> SUBSET TimerRecord]
        /\ written' \in [Conns -> [Dirs -> Seq(Nat)]]
    <3>1. CASE fault.mode = "reset"
      BY <1>7, <3>1, CloseTypes DEF Data, TypeOK
    <3>2. CASE fault.mode # "reset" /\ Drops(d)
      BY <1>7, <3>2 DEF Data, TypeOK
    <3>3. CASE /\ fault.mode # "reset" /\ ~Drops(d)
               /\ fault.mode = "latency" /\ fault.latencyMs > 0
      <4>1. [dir |-> d, chunk |-> chunk, delay |-> fault.latencyMs] \in TimerRecord
        BY <2>1 DEF TimerRecord
      <4>2. timers' = [timers EXCEPT ![c] = @ \cup
                {[dir |-> d, chunk |-> chunk, delay |-> fault.latencyMs]}]
        BY <1>7, <3>3 DEF Data
      <4>3. timers' \in [Conns -> SUBSET TimerRecord]
        BY <4>1, <4>2 DEF TypeOK
      <4>4. UNCHANGED <<connections, client, upstream, written>>
        BY <1>7, <3>3 DEF Data
      <4> QED
        BY <4>3, <4>4 DEF TypeOK
    <3>4. CASE /\ fault.mode # "reset" /\ ~Drops(d)
               /\ ~(fault.mode = "latency" /\ fault.latencyMs > 0)
      <4>1. Write(c, d, chunk, timers[c])
        BY <1>7, <3>4 DEF Data
      <4> QED
        BY <1>5, <2>1, <4>1
    <3> QED
      BY <3>1, <3>2, <3>3, <3>4
  <2> QED
    BY <1>7, <2>2, <2>3 DEF Data, TypeOK
<1>8. ASSUME NEW c \in Conns, NEW d \in Dirs, End(c, d) PROVE TypeOK'
  BY <1>8 DEF End, TypeOK, wire
<1>9. ASSUME NEW c \in Conns, NEW d \in Dirs, PeerSend(c, d) PROVE TypeOK'
  BY <1>9 DEF PeerSend, TypeOK
<1>10. ASSUME NEW c \in Conns, NEW d \in Dirs, PeerFin(c, d) PROVE TypeOK'
  BY <1>10 DEF PeerFin, TypeOK
<1>11. CASE UNCHANGED vars
  BY <1>11 DEF vars, TypeOK
<1> QED
  BY <1>1, <1>2, <1>3, <1>4, <1>6, <1>7, <1>8, <1>9, <1>10, <1>11 DEF Next

(* Closing connections only removes live connections and empties timers. *)
LEMMA CloseKeepsRest ==
    ASSUME IInv, NEW S \in SUBSET connections, CloseConnections(S),
           UNCHANGED <<fault, written, taken>>
    PROVE  FreshIsEmpty' /\ HealthyIsTransparent' /\ CutIsolatesUpstream'
BY DEF IInv, TypeOK, CloseConnections, FreshIsEmpty, HealthyIsTransparent,
       CutIsolatesUpstream

(* Closing one connection whose next chunk has just been read. *)
LEMMA CloseOne ==
    ASSUME IInv, NEW c \in connections, CloseConnections({c}),
           UNCHANGED <<fault, written>>,
           \A x \in Conns \ {c} : taken'[x] = taken[x]
    PROVE  FreshIsEmpty' /\ HealthyIsTransparent' /\ CutIsolatesUpstream'
<1>1. /\ connections' = connections \ {c}
      /\ connections' \in SUBSET (Conns \ {c})
  BY DEF IInv, TypeOK, CloseConnections
<1>2. ASSUME NEW x \in Conns \ {c}
      PROVE  /\ timers'[x] = timers[x]
             /\ client'[x] = client[x]
             /\ upstream'[x] = upstream[x]
             /\ taken'[x] = taken[x]
  BY DEF CloseConnections
<1>3. c \in Conns /\ client'[c] = "destroyed"
  BY DEF IInv, TypeOK, CloseConnections
<1>4. FreshIsEmpty'
  BY <1>1, <1>2, <1>3 DEF IInv, FreshIsEmpty
<1>5. HealthyIsTransparent'
  BY <1>1, <1>2 DEF IInv, HealthyIsTransparent
<1>6. CutIsolatesUpstream'
  BY <1>1, <1>2 DEF IInv, CutIsolatesUpstream
<1> QED
  BY <1>4, <1>5, <1>6

(* The control endpoint: a mode that closes leaves no live connection, and
   the other modes are not constrained. *)
LEMMA PutFaultIInv ==
    ASSUME IInv, NEW b \in Bodies, PutFault(b)
    PROVE  FreshIsEmpty' /\ HealthyIsTransparent' /\ CutIsolatesUpstream'
<1>1. CASE ClosesAll(b.mode)
  <2>1. CloseConnections(connections) /\ UNCHANGED <<written, taken>>
    BY <1>1 DEF PutFault, wire
  <2>2. connections' = {}
    BY <2>1 DEF CloseConnections
  <2>3. FreshIsEmpty'
    BY <2>1, <2>2 DEF IInv, TypeOK, CloseConnections, FreshIsEmpty
  <2> QED
    BY <2>2, <2>3 DEF HealthyIsTransparent, CutIsolatesUpstream
<1>2. CASE ~ClosesAll(b.mode)
  <2>1. UNCHANGED <<connections, timers, client, upstream, written, taken>>
    BY <1>2 DEF PutFault, wire
  <2>2. fault'.mode = b.mode
    BY DEF PutFault
  <2>3. FreshIsEmpty'
    BY <2>1 DEF IInv, FreshIsEmpty
  <2> QED
    BY <1>2, <2>2, <2>3 DEF ClosesAll, HealthyIsTransparent, CutIsolatesUpstream
<1> QED
  BY <1>1, <1>2

(* A new connection starts from an empty stream, without an upstream socket
   when the fault cuts the upstream service off. *)
LEMMA AcceptIInv ==
    ASSUME IInv, NEW c \in Conns, Accept(c)
    PROVE  FreshIsEmpty' /\ HealthyIsTransparent' /\ CutIsolatesUpstream'
<1>1. UNCHANGED <<fault, timers, taken, written>>
  BY DEF Accept, wire
<1>2. /\ timers[c] = {}
      /\ \A d \in Dirs : taken[c][d] = 0 /\ written[c][d] = <<>>
  BY DEF Accept, IInv, FreshIsEmpty
<1>3. FreshIsEmpty'
  BY <1>1 DEF Accept, IInv, TypeOK, FreshIsEmpty
<1>4. HealthyIsTransparent'
  <2> SUFFICES ASSUME fault.mode = "healthy", NEW x \in connections'
               PROVE  /\ upstream'[x] \in {"connecting", "open"}
                      /\ timers[x] = {}
                      /\ \A d \in Dirs : written[x][d] = [i \in 1..taken[x][d] |-> i]
    BY <1>1 DEF HealthyIsTransparent
  <2>1. CASE x = c
    BY <1>2, <2>1, EmptyStream DEF Accept, IInv, TypeOK
  <2>2. CASE x # c
    BY <2>2 DEF Accept, IInv, TypeOK, HealthyIsTransparent
  <2> QED
    BY <2>1, <2>2
<1>5. CutIsolatesUpstream'
  BY <1>1, <1>2 DEF Accept, IInv, TypeOK, CutIsolatesUpstream
<1> QED
  BY <1>3, <1>4, <1>5

(* A chunk is written on a live connection.  In a healthy proxy it is the
   chunk just read, so the written stream stays equal to the read one. *)
LEMMA WriteIInv ==
    ASSUME IInv, NEW c \in connections, NEW d \in Dirs, NEW k \in Nat,
           NEW rest \in SUBSET TimerRecord,
           Write(c, d, k, rest), UNCHANGED fault,
           \A x \in Conns \ {c} : taken'[x] = taken[x],
           upstream[c] # "undefined",
           rest \in SUBSET timers[c],
           fault.mode = "healthy" =>
              k = taken[c][d] + 1 /\ taken' = [taken EXCEPT ![c][d] = k]
    PROVE  FreshIsEmpty' /\ HealthyIsTransparent' /\ CutIsolatesUpstream'
<1>0. c \in Conns
  BY DEF IInv, TypeOK
<1>1. CASE ended[c] # {}
  BY <1>1, CloseOne DEF Write
<1>2. CASE ended[c] = {}
  <2>1. /\ UNCHANGED <<connections, client, upstream>>
        /\ timers' = [timers EXCEPT ![c] = rest]
        /\ written' = [written EXCEPT ![c][d] = Append(@, k)]
    BY <1>2 DEF Write
  <2>2. FreshIsEmpty'
    <3> SUFFICES ASSUME NEW x \in Conns, client[x] = "none"
                 PROVE  /\ x \notin connections
                        /\ upstream[x] = "undefined"
                        /\ timers'[x] = {}
                        /\ \A e \in Dirs : taken'[x][e] = 0 /\ written'[x][e] = <<>>
      BY <2>1 DEF FreshIsEmpty
    <3>1. x # c
      BY DEF IInv, FreshIsEmpty
    <3>2. timers'[x] = timers[x] /\ written'[x] = written[x] /\ taken'[x] = taken[x]
      BY <1>0, <2>1, <3>1 DEF IInv, TypeOK
    <3> QED
      BY <3>2 DEF IInv, FreshIsEmpty
  <2>3. CutIsolatesUpstream'
    BY <1>0, <2>1 DEF IInv, TypeOK, CutIsolatesUpstream
  <2>4. HealthyIsTransparent'
    <3> SUFFICES ASSUME fault.mode = "healthy", NEW x \in connections
                 PROVE  /\ upstream[x] \in {"connecting", "open"}
                        /\ timers'[x] = {}
                        /\ \A e \in Dirs :
                              written'[x][e] = [i \in 1..taken'[x][e] |-> i]
      BY <2>1 DEF HealthyIsTransparent
    <3>1. x \in Conns /\ upstream[x] \in {"connecting", "open"} /\ timers[x] = {}
      BY DEF IInv, TypeOK, HealthyIsTransparent
    <3>2. timers'[x] = {}
      BY <1>0, <2>1, <3>1 DEF IInv, TypeOK, HealthyIsTransparent
    <3>3. ASSUME NEW e \in Dirs
          PROVE  written'[x][e] = [i \in 1..taken'[x][e] |-> i]
      <4>1. written[x][e] = [i \in 1..taken[x][e] |-> i] /\ taken[x][e] \in Nat
        <5>1. taken[x][e] \in Nat
          BY <3>1 DEF IInv, TypeOK
        <5>2. \A y \in connections : \A f \in Dirs :
                 written[y][f] = [i \in 1..taken[y][f] |-> i]
          BY DEF IInv, HealthyIsTransparent
        <5> QED
          BY <5>1, <5>2
      <4>2. CASE x = c /\ e = d
        <5>1. written'[x][e] = Append([i \in 1..taken[c][d] |-> i], k)
          BY <1>0, <2>1, <4>1, <4>2 DEF IInv, TypeOK
        <5>2. taken'[x][e] = taken[c][d] + 1 /\ k = taken[c][d] + 1
          BY <1>0, <4>2 DEF IInv, TypeOK
        <5> QED
          BY <4>1, <4>2, <5>1, <5>2, AppendNext
      <4>3. CASE ~(x = c /\ e = d)
        <5>1. written'[x][e] = written[x][e]
          BY <1>0, <2>1, <3>1, <4>3 DEF IInv, TypeOK
        <5>2. taken'[x][e] = taken[x][e]
          BY <1>0, <3>1, <4>3 DEF IInv, TypeOK
        <5> QED
          BY <4>1, <5>1, <5>2
      <4> QED
        BY <4>2, <4>3
    <3> QED
      BY <3>1, <3>2, <3>3
  <2> QED
    BY <2>2, <2>3, <2>4
<1> QED
  BY <1>1, <1>2

(* The data handler on a live connection. *)
LEMMA DataIInv ==
    ASSUME IInv, NEW c \in Conns, NEW d \in Dirs, Data(c, d)
    PROVE  FreshIsEmpty' /\ HealthyIsTransparent' /\ CutIsolatesUpstream'
<1> DEFINE chunk == taken[c][d] + 1
<1>1. /\ c \in connections /\ client[c] = "open" /\ upstream[c] = "open"
      /\ UNCHANGED fault
      /\ taken' = [taken EXCEPT ![c][d] = chunk]
  BY DEF Data, Flowing
<1>2. chunk \in Nat /\ timers[c] \in SUBSET TimerRecord
  BY DEF IInv, TypeOK
<1>3. \A x \in Conns \ {c} : taken'[x] = taken[x]
  BY <1>1 DEF IInv, TypeOK
<1>4. CASE fault.mode = "reset"
  BY <1>1, <1>3, <1>4, CloseOne DEF Data
<1>5. CASE fault.mode # "reset" /\ (Drops(d) \/ (fault.mode = "latency" /\ fault.latencyMs > 0))
  <2>1. UNCHANGED <<connections, client, upstream, written>>
    BY <1>5 DEF Data
  <2>2. \A x \in Conns \ {c} : timers'[x] = timers[x]
    BY <1>5 DEF Data, IInv, TypeOK
  <2>3. fault.mode # "healthy"
    BY <1>5 DEF Drops
  <2>4. client[c] # "none" /\ upstream[c] # "undefined"
    BY <1>1
  <2>5. FreshIsEmpty'
    BY <1>3, <2>1, <2>2, <2>4 DEF IInv, FreshIsEmpty
  <2>6. ~(fault.mode \in {"reset", "partition"})
    BY <1>1, <2>4 DEF IInv, CutIsolatesUpstream
  <2> QED
    BY <1>1, <2>3, <2>5, <2>6 DEF HealthyIsTransparent, CutIsolatesUpstream
<1>6. CASE /\ fault.mode # "reset" /\ ~Drops(d)
           /\ ~(fault.mode = "latency" /\ fault.latencyMs > 0)
  <2>1. Write(c, d, chunk, timers[c])
    BY <1>6 DEF Data
  <2> HIDE DEF chunk
  <2>2. upstream[c] # "undefined" /\ timers[c] \in SUBSET timers[c]
    BY <1>1
  <2>3. fault.mode = "healthy" =>
          chunk = taken[c][d] + 1 /\ taken' = [taken EXCEPT ![c][d] = chunk]
    BY <1>1 DEF chunk
  <2> QED
    BY <1>1, <1>2, <1>3, <2>1, <2>2, <2>3, WriteIInv
<1> QED
  BY <1>4, <1>5, <1>6

(* A timer only fires on a proxy that is neither healthy nor cut off. *)
LEMMA TimerIInv ==
    ASSUME IInv, NEW c \in Conns, NEW t \in timers[c], TimerFires(c, t)
    PROVE  FreshIsEmpty' /\ HealthyIsTransparent' /\ CutIsolatesUpstream'
<1>1. /\ Write(c, t.dir, t.chunk, timers[c] \ {t})
      /\ UNCHANGED <<fault, taken>>
  BY DEF TimerFires
<1>2. t.dir \in Dirs /\ t.chunk \in Nat /\ timers[c] \ {t} \in SUBSET TimerRecord
  BY DEF IInv, TypeOK, TimerRecord
<1>3. c \in connections /\ upstream[c] # "undefined"
  BY DEF IInv, TimersAreLive
<1>4. fault.mode # "healthy"
  BY <1>3 DEF IInv, HealthyIsTransparent
<1> QED
  BY <1>1, <1>2, <1>3, <1>4, WriteIInv

(* Closing connections keeps timers on live connections only. *)
LEMMA CloseTimers ==
    ASSUME TypeOK, TimersAreLive, NEW S \in SUBSET Conns, CloseConnections(S)
    PROVE  TimersAreLive'
BY DEF TypeOK, TimersAreLive, CloseConnections

(* Every step keeps timers on live connections only. *)
LEMMA NextTimersAreLive ==
    TypeOK /\ TimersAreLive /\ FreshIsEmpty /\ [Next]_vars => TimersAreLive'
<1> SUFFICES ASSUME TypeOK, TimersAreLive, FreshIsEmpty, [Next]_vars
             PROVE  TimersAreLive'
  OBVIOUS
<1>1. ASSUME NEW b \in Bodies, PutFault(b) PROVE TimersAreLive'
  <2>1. CASE ClosesAll(b.mode)
    BY <1>1, <2>1, CloseTimers DEF PutFault, TypeOK
  <2>2. CASE ~ClosesAll(b.mode)
    BY <1>1, <2>2 DEF PutFault, TimersAreLive
  <2> QED
    BY <2>1, <2>2
<1>2. ASSUME NEW c \in Conns, Accept(c) PROVE TimersAreLive'
  BY <1>2 DEF Accept, TypeOK, TimersAreLive, FreshIsEmpty
<1>3. ASSUME NEW c \in Conns, UpstreamConnected(c) PROVE TimersAreLive'
  BY <1>3 DEF UpstreamConnected, TypeOK, TimersAreLive
<1>4. ASSUME NEW c \in Conns, SocketGone(c) PROVE TimersAreLive'
  BY <1>4, CloseTimers DEF SocketGone
<1>5. ASSUME NEW c \in Conns, NEW d, NEW k, NEW rest \in SUBSET timers[c],
             Write(c, d, k, rest)
      PROVE  TimersAreLive'
  <2>1. CASE ended[c] = {}
    <3>1. /\ UNCHANGED <<connections, client, upstream>>
          /\ timers' = [timers EXCEPT ![c] = rest]
      BY <1>5, <2>1 DEF Write
    <3>2. \A x \in Conns : timers'[x] # {} => timers[x] # {}
      BY <3>1 DEF TypeOK
    <3> QED
      BY <3>1, <3>2 DEF TimersAreLive
  <2>2. CASE ended[c] # {}
    BY <1>5, <2>2, CloseTimers DEF Write
  <2> QED
    BY <2>1, <2>2
<1>6. ASSUME NEW c \in Conns, NEW t \in timers[c], TimerFires(c, t) PROVE TimersAreLive'
  BY <1>5, <1>6 DEF TimerFires
<1>7. ASSUME NEW c \in Conns, NEW d \in Dirs, Data(c, d) PROVE TimersAreLive'
  <2>1. CASE fault.mode = "reset"
    BY <1>7, <2>1, CloseTimers DEF Data
  <2>2. CASE fault.mode # "reset" /\ Drops(d)
    BY <1>7, <2>2 DEF Data, TimersAreLive
  <2>3. CASE /\ fault.mode # "reset" /\ ~Drops(d)
             /\ fault.mode = "latency" /\ fault.latencyMs > 0
    <3>1. /\ c \in connections /\ client[c] = "open" /\ upstream[c] = "open"
          /\ UNCHANGED <<connections, client, upstream>>
      BY <1>7, <2>3 DEF Data, Flowing
    <3>2. \A x \in Conns \ {c} : timers'[x] = timers[x]
      BY <1>7, <2>3 DEF Data, TypeOK
    <3> QED
      BY <3>1, <3>2 DEF TimersAreLive
  <2>4. CASE /\ fault.mode # "reset" /\ ~Drops(d)
             /\ ~(fault.mode = "latency" /\ fault.latencyMs > 0)
    <3>1. Write(c, d, taken[c][d] + 1, timers[c])
      BY <1>7, <2>4 DEF Data
    <3> QED
      BY <1>5, <3>1
  <2> QED
    BY <2>1, <2>2, <2>3, <2>4
<1>8. ASSUME NEW c \in Conns, NEW d \in Dirs, End(c, d) \/ PeerSend(c, d) \/ PeerFin(c, d)
      PROVE TimersAreLive'
  BY <1>8 DEF End, PeerSend, PeerFin, TimersAreLive
<1>9. CASE UNCHANGED vars
  BY <1>9 DEF vars, TimersAreLive
<1> QED
  BY <1>1, <1>2, <1>3, <1>4, <1>6, <1>7, <1>8, <1>9 DEF Next

(* Every step keeps the inductive invariant. *)
LEMMA NextIInv == IInv /\ [Next]_vars => IInv'
<1> SUFFICES ASSUME IInv, [Next]_vars
             PROVE  FreshIsEmpty' /\ HealthyIsTransparent' /\ CutIsolatesUpstream'
  BY NextTypeOK, NextTimersAreLive DEF IInv
<1>1. ASSUME NEW c \in Conns, UpstreamConnected(c)
      PROVE  FreshIsEmpty' /\ HealthyIsTransparent' /\ CutIsolatesUpstream'
  <2>1. /\ c \in connections /\ upstream[c] = "connecting"
        /\ upstream' = [upstream EXCEPT ![c] = "open"]
        /\ UNCHANGED <<fault, connections, client, timers, taken, written>>
    BY <1>1 DEF UpstreamConnected, wire
  <2>2. \A x \in Conns : upstream'[x] = IF x = c THEN "open" ELSE upstream[x]
    BY <2>1 DEF IInv, TypeOK
  <2>3. FreshIsEmpty'
    BY <2>1, <2>2 DEF IInv, FreshIsEmpty
  <2>4. HealthyIsTransparent'
    BY <2>1, <2>2 DEF IInv, TypeOK, HealthyIsTransparent
  <2>5. CutIsolatesUpstream'
    BY <2>1, <2>2 DEF IInv, TypeOK, CutIsolatesUpstream
  <2> QED
    BY <2>3, <2>4, <2>5
<1>2. ASSUME NEW c \in Conns, SocketGone(c)
      PROVE  FreshIsEmpty' /\ HealthyIsTransparent' /\ CutIsolatesUpstream'
  BY <1>2, CloseKeepsRest DEF SocketGone, wire
<1>3. ASSUME UNCHANGED <<fault, connections, client, upstream, timers, taken, written>>
      PROVE  FreshIsEmpty' /\ HealthyIsTransparent' /\ CutIsolatesUpstream'
  BY <1>3 DEF IInv, FreshIsEmpty, HealthyIsTransparent, CutIsolatesUpstream
<1>4. ASSUME NEW c \in Conns, NEW d \in Dirs, End(c, d) \/ PeerSend(c, d) \/ PeerFin(c, d)
      PROVE  UNCHANGED <<fault, connections, client, upstream, timers, taken, written>>
  BY <1>4 DEF End, PeerSend, PeerFin, wire
<1>5. CASE UNCHANGED vars
  BY <1>3, <1>5 DEF vars
<1> QED
  BY <1>1, <1>2, <1>3, <1>4, <1>5, PutFaultIInv, AcceptIInv, DataIInv, TimerIInv DEF Next

(* Every reachable state satisfies the inductive invariant. *)
THEOREM ProxyInvariant == Spec => []IInv
<1>1. IInv /\ [Next]_vars => IInv'
  BY NextIInv
<1> QED
  BY InitIInv, <1>1, PTL DEF Spec

(* Type correctness of the proxy. *)
THEOREM ProxyTypeOK == Spec => []TypeOK
<1>1. IInv => TypeOK
  BY DEF IInv
<1> QED
  BY ProxyInvariant, <1>1, PTL

(* A proxy restored to healthy carries no trace of an earlier fault. *)
THEOREM ProxyHealthyIsTransparent == Spec => []HealthyIsTransparent
<1>1. IInv => HealthyIsTransparent
  BY DEF IInv
<1> QED
  BY ProxyInvariant, <1>1, PTL

(* Reset and partition keep every live connection away from upstream. *)
THEOREM ProxyCutIsolatesUpstream == Spec => []CutIsolatesUpstream
<1>1. IInv => CutIsolatesUpstream
  BY DEF IInv
<1> QED
  BY ProxyInvariant, <1>1, PTL
-----------------------------------------------------------------------------
(* What follows is about a proxy whose drivers restore it between two faults
   (DriverSpec); without that, delayed chunks can be overtaken and delayed
   replies can follow a fault that cuts replies. *)

(* Chunks wait only while the latency fault is in force that delayed them. *)
TimersAreCurrent ==
    \A c \in Conns : \A t \in timers[c] :
        fault.mode = "latency" /\ fault.latencyMs > 0 /\ t.delay = fault.latencyMs

(* What was written in a direction precedes what waits, both were read, and
   what was written is in order. *)
StreamInOrder(c, d) ==
    /\ \A i \in 1..Len(written[c][d]) : written[c][d][i] <= taken[c][d]
    /\ \A t \in timers[c] : t.dir = d =>
          /\ t.chunk <= taken[c][d]
          /\ \A i \in 1..Len(written[c][d]) : written[c][d][i] < t.chunk
    /\ \A i, j \in 1..Len(written[c][d]) :
          i < j => written[c][d][i] < written[c][d][j]

StreamsInOrder == \A c \in Conns, d \in Dirs : StreamInOrder(c, d)

(* A live connection that has lived through a cut of the replies is still
   under it. *)
TaintedIsCut ==
    \A c \in tainted :
        client[c] # "none" /\ (c \in connections => CutsReplies(fault.mode))

(* The inductive invariant of DriverSpec. *)
DriverIInv == IInv /\ TimersAreCurrent /\ StreamsInOrder /\ TaintedIsCut

(* Init establishes it. *)
LEMMA InitDriverIInv == Init => DriverIInv
<1> SUFFICES ASSUME Init PROVE TimersAreCurrent /\ StreamsInOrder /\ TaintedIsCut
  BY InitIInv DEF DriverIInv
<1> QED
  BY DEF Init, TimersAreCurrent, StreamsInOrder, StreamInOrder, TaintedIsCut, Dirs

(* Closing connections only empties timers: the streams stay in order. *)
LEMMA CloseInOrder ==
    ASSUME DriverIInv, NEW S \in SUBSET Conns, CloseConnections(S), UNCHANGED written,
           taken' \in [Conns -> [Dirs -> Nat]],
           \A c \in Conns, d \in Dirs : taken[c][d] <= taken'[c][d]
    PROVE  StreamsInOrder'
<1> SUFFICES ASSUME NEW c \in Conns, NEW d \in Dirs PROVE StreamInOrder(c, d)'
  BY DEF StreamsInOrder
<1>1. StreamInOrder(c, d) /\ written' = written
  BY DEF DriverIInv, StreamsInOrder
<1>2. \A t \in timers'[c] : t \in timers[c]
  BY DEF CloseConnections
<1>3. taken[c][d] \in Nat /\ taken'[c][d] \in Nat /\ taken[c][d] <= taken'[c][d]
  BY DEF DriverIInv, IInv, TypeOK
<1>4. written[c][d] \in Seq(Nat) /\ \A t \in timers[c] : t.chunk \in Nat
  BY DEF DriverIInv, IInv, TypeOK, TimerRecord
<1>5. \A i \in 1..Len(written[c][d]) : written[c][d][i] \in Nat
  BY <1>4
<1> QED
  BY <1>1, <1>2, <1>3, <1>4, <1>5 DEF StreamInOrder

(* A chunk is written after all that was written before and before all that
   still waits. *)
LEMMA WriteInOrder ==
    ASSUME DriverIInv, NEW c \in Conns, NEW d \in Dirs, NEW k \in Nat,
           NEW rest \in SUBSET timers[c], Write(c, d, k, rest),
           taken' \in [Conns -> [Dirs -> Nat]],
           \A x \in Conns, e \in Dirs : taken[x][e] <= taken'[x][e],
           k <= taken'[c][d],
           \A i \in 1..Len(written[c][d]) : written[c][d][i] < k,
           \A t \in rest : t.dir = d => k < t.chunk
    PROVE  StreamsInOrder'
<1>1. CASE ended[c] # {}
  BY <1>1, CloseInOrder DEF Write
<1>2. CASE ended[c] = {}
  <2>1. /\ written' = [written EXCEPT ![c][d] = Append(@, k)]
        /\ timers' = [timers EXCEPT ![c] = rest]
    BY <1>2 DEF Write
  <2> SUFFICES ASSUME NEW x \in Conns, NEW e \in Dirs PROVE StreamInOrder(x, e)'
    BY DEF StreamsInOrder
  <2>2. StreamInOrder(x, e)
    BY DEF DriverIInv, StreamsInOrder
  <2>3. \A t \in timers'[x] : t \in timers[x] /\ t.chunk \in Nat
    <3>1. \A t \in timers'[x] : t \in timers[x]
      BY <2>1 DEF DriverIInv, IInv, TypeOK
    <3>2. \A t \in timers[x] : t.chunk \in Nat
      BY DEF DriverIInv, IInv, TypeOK, TimerRecord
    <3> QED
      BY <3>1, <3>2
  <2>4. taken[x][e] \in Nat /\ taken'[x][e] \in Nat /\ taken[x][e] <= taken'[x][e]
    BY DEF DriverIInv, IInv, TypeOK
  <2>5. written[x][e] \in Seq(Nat)
    BY DEF DriverIInv, IInv, TypeOK
  <2>6. \A i \in 1..Len(written[x][e]) : written[x][e][i] \in Nat
    BY <2>5
  <2>7. CASE x = c /\ e = d
    <3> DEFINE old == written[c][d]
               new == written'[c][d]
    <3>1. new = Append(old, k) /\ old \in Seq(Nat)
      BY <2>1, <2>5, <2>7 DEF DriverIInv, IInv, TypeOK
    <3>2. Len(new) = Len(old) + 1 /\ Len(old) \in Nat
      BY <3>1
    <3>3. \A i \in 1..Len(old) : new[i] = old[i]
      BY <3>1
    <3>4. new[Len(old) + 1] = k
      BY <3>1
    <3>5. timers'[c] = rest
      BY <2>1 DEF DriverIInv, IInv, TypeOK
    <3>6. \A i \in 1..Len(new) : i \in 1..Len(old) \/ i = Len(old) + 1
      BY <3>2
    <3> HIDE DEF old, new
    <3>7. \A i \in 1..Len(old) : old[i] \in Nat /\ old[i] <= taken[c][d] /\ old[i] < k
      BY <2>2, <2>6, <2>7 DEF StreamInOrder, old
    <3>8. \A i \in 1..Len(new) : new[i] \in Nat /\ new[i] <= taken'[c][d] /\ new[i] <= k
      BY <2>4, <2>7, <3>3, <3>4, <3>6, <3>7
    <3>9. \A t \in rest : t.dir = d =>
             t.chunk <= taken'[c][d] /\ \A i \in 1..Len(new) : new[i] < t.chunk
      BY <2>2, <2>3, <2>4, <2>7, <3>5, <3>8 DEF StreamInOrder
    <3>10. \A i, j \in 1..Len(new) : i < j => new[i] < new[j]
      <4> SUFFICES ASSUME NEW i \in 1..Len(new), NEW j \in 1..Len(new), i < j
                   PROVE  new[i] < new[j]
        OBVIOUS
      <4>1. i \in 1..Len(old)
        BY <3>2
      <4>2. CASE j = Len(old) + 1
        BY <3>3, <3>4, <3>7, <4>1, <4>2
      <4>3. CASE j \in 1..Len(old)
        BY <2>2, <2>7, <3>3, <4>1, <4>3 DEF StreamInOrder, old
      <4> QED
        BY <3>6, <4>2, <4>3
    <3> QED
      BY <2>7, <3>5, <3>8, <3>9, <3>10 DEF StreamInOrder, new
  <2>8. CASE ~(x = c /\ e = d)
    <3>1. written'[x][e] = written[x][e]
      <4>1. written \in [Conns -> [Dirs -> Seq(Nat)]]
        BY DEF DriverIInv, IInv, TypeOK
      <4>2. CASE x # c
        BY <2>1, <4>1, <4>2
      <4>3. CASE x = c /\ e # d
        BY <2>1, <4>1, <4>3
      <4> QED
        BY <2>8, <4>2, <4>3
    <3>2. \A i \in 1..Len(written[x][e]) : written[x][e][i] <= taken'[x][e]
      <4>1. \A i \in 1..Len(written[x][e]) : written[x][e][i] <= taken[x][e]
        BY <2>2 DEF StreamInOrder
      <4> QED
        BY <2>4, <2>6, <4>1
    <3>3. \A t \in timers'[x] : t.dir = e =>
             /\ t.chunk <= taken'[x][e]
             /\ \A i \in 1..Len(written[x][e]) : written[x][e][i] < t.chunk
      BY <2>2, <2>3, <2>4 DEF StreamInOrder
    <3> QED
      BY <2>2, <3>1, <3>2, <3>3 DEF StreamInOrder
  <2> QED
    BY <2>7, <2>8
<1> QED
  BY <1>1, <1>2

(* The data handler keeps the order: it writes at once only when nothing
   waits. *)
LEMMA DataInOrder ==
    ASSUME DriverIInv, NEW c \in Conns, NEW d \in Dirs, Data(c, d)
    PROVE  StreamsInOrder'
<1> DEFINE chunk == taken[c][d] + 1
<1>1. taken' = [taken EXCEPT ![c][d] = chunk] /\ taken \in [Conns -> [Dirs -> Nat]]
  BY DEF Data, DriverIInv, IInv, TypeOK
<1>2. /\ taken' \in [Conns -> [Dirs -> Nat]]
      /\ \A x \in Conns, e \in Dirs : taken[x][e] <= taken'[x][e]
      /\ chunk \in Nat /\ taken'[c][d] = chunk /\ taken[c][d] < chunk
  BY <1>1
<1>3. \A x \in Conns, e \in Dirs :
         taken[x][e] \in Nat /\ taken'[x][e] \in Nat /\ taken[x][e] <= taken'[x][e]
  BY <1>1, <1>2
<1>4. \A x \in Conns, e \in Dirs : \A i \in 1..Len(written[x][e]) : written[x][e][i] \in Nat
  <2>1. \A x \in Conns, e \in Dirs : written[x][e] \in Seq(Nat)
    BY DEF DriverIInv, IInv, TypeOK
  <2> QED
    BY <2>1
<1>5. \A x \in Conns : \A t \in timers[x] : t.chunk \in Nat
  BY DEF DriverIInv, IInv, TypeOK, TimerRecord
<1>6. \A x \in Conns, e \in Dirs : StreamInOrder(x, e)
  BY DEF DriverIInv, StreamsInOrder
<1> HIDE DEF chunk
<1>7. \A i \in 1..Len(written[c][d]) : written[c][d][i] < chunk
  BY <1>2, <1>3, <1>4, <1>6 DEF StreamInOrder
<1>8. CASE fault.mode = "reset"
  BY <1>2, <1>8, CloseInOrder DEF Data
<1>9. CASE fault.mode # "reset" /\ Drops(d)
  <2>1. UNCHANGED <<timers, written>>
    BY <1>9 DEF Data
  <2> SUFFICES ASSUME NEW x \in Conns, NEW e \in Dirs PROVE StreamInOrder(x, e)'
    BY DEF StreamsInOrder
  <2>2. \A i \in 1..Len(written[x][e]) : written[x][e][i] <= taken'[x][e]
    BY <1>3, <1>4, <1>6 DEF StreamInOrder
  <2>3. \A t \in timers[x] : t.dir = e =>
           /\ t.chunk <= taken'[x][e]
           /\ \A i \in 1..Len(written[x][e]) : written[x][e][i] < t.chunk
    BY <1>3, <1>5, <1>6 DEF StreamInOrder
  <2> QED
    BY <1>6, <2>1, <2>2, <2>3 DEF StreamInOrder
<1>10. CASE /\ fault.mode # "reset" /\ ~Drops(d)
            /\ fault.mode = "latency" /\ fault.latencyMs > 0
  <2> DEFINE timer == [dir |-> d, chunk |-> chunk, delay |-> fault.latencyMs]
  <2>1. timers' = [timers EXCEPT ![c] = @ \cup {timer}] /\ UNCHANGED written
    BY <1>10 DEF Data, chunk
  <2>2. \A x \in Conns : \A t \in timers'[x] :
           t \in timers[x] \/ (x = c /\ t = timer)
    BY <2>1 DEF DriverIInv, IInv, TypeOK
  <2> SUFFICES ASSUME NEW x \in Conns, NEW e \in Dirs PROVE StreamInOrder(x, e)'
    BY DEF StreamsInOrder
  <2>3. \A i \in 1..Len(written[x][e]) : written[x][e][i] <= taken'[x][e]
    BY <1>3, <1>4, <1>6 DEF StreamInOrder
  <2>4. ASSUME NEW t \in timers'[x], t.dir = e
        PROVE  /\ t.chunk <= taken'[x][e]
               /\ \A i \in 1..Len(written[x][e]) : written[x][e][i] < t.chunk
    <3>1. CASE t \in timers[x]
      BY <1>3, <1>5, <1>6, <2>4, <3>1 DEF StreamInOrder
    <3>2. CASE x = c /\ t = timer
      BY <1>2, <1>7, <2>4, <3>2
    <3> QED
      BY <2>2, <3>1, <3>2
  <2> QED
    BY <1>6, <2>1, <2>3, <2>4 DEF StreamInOrder
<1>11. CASE /\ fault.mode # "reset" /\ ~Drops(d)
            /\ ~(fault.mode = "latency" /\ fault.latencyMs > 0)
  <2>1. Write(c, d, chunk, timers[c])
    BY <1>11 DEF Data, chunk
  <2>2. timers[c] = {}
    BY <1>11 DEF DriverIInv, TimersAreCurrent
  <2> QED
    BY <1>2, <1>7, <2>1, <2>2, WriteInOrder
<1> QED
  BY <1>8, <1>9, <1>10, <1>11

(* The callback that is due has the least chunk of its direction: all timers
   have the same delay. *)
LEMMA TimerInOrder ==
    ASSUME DriverIInv, NEW c \in Conns, NEW t \in timers[c], TimerFires(c, t)
    PROVE  StreamsInOrder'
<1>1. Write(c, t.dir, t.chunk, timers[c] \ {t}) /\ taken' = taken /\ Due(c, t)
  BY DEF TimerFires
<1>2. /\ taken \in [Conns -> [Dirs -> Nat]]
      /\ t \in TimerRecord /\ \A u \in timers[c] : u \in TimerRecord
  BY DEF DriverIInv, IInv, TypeOK
<1>3. t.dir \in Dirs /\ t.chunk \in Nat
  BY <1>2 DEF TimerRecord
<1>4. \A u \in timers[c] : u.delay = t.delay
  BY DEF DriverIInv, TimersAreCurrent
<1>5. ASSUME NEW u \in timers[c] \ {t}, u.dir = t.dir PROVE t.chunk < u.chunk
  <2>1. u.chunk \in Nat /\ t.delay \in Nat
    BY <1>2 DEF TimerRecord
  <2>2. ~(u.chunk < t.chunk)
    BY <1>1, <1>4, <1>5, <2>1 DEF Due
  <2>3. u.chunk # t.chunk
    BY <1>2, <1>4, <1>5 DEF TimerRecord
  <2> QED
    BY <1>3, <2>1, <2>2, <2>3
<1>6. StreamInOrder(c, t.dir)
  BY <1>3 DEF DriverIInv, StreamsInOrder
<1>7. /\ t.chunk <= taken'[c][t.dir]
      /\ \A i \in 1..Len(written[c][t.dir]) : written[c][t.dir][i] < t.chunk
  BY <1>1, <1>6 DEF StreamInOrder
<1>8. \A x \in Conns, e \in Dirs : taken[x][e] <= taken'[x][e]
  BY <1>1, <1>2
<1> QED
  BY <1>1, <1>2, <1>3, <1>5, <1>7, <1>8, WriteInOrder

(* Every step of the proxy keeps the streams in order. *)
LEMMA NextInOrder ==
    ASSUME DriverIInv, [Next]_vars
    PROVE  StreamsInOrder'
<1>1. ASSUME UNCHANGED <<timers, taken, written>> PROVE StreamsInOrder'
  BY <1>1 DEF DriverIInv, StreamsInOrder, StreamInOrder
<1>2. ASSUME NEW S \in SUBSET Conns, CloseConnections(S), UNCHANGED <<taken, written>>
      PROVE  StreamsInOrder'
  <2>1. /\ taken' \in [Conns -> [Dirs -> Nat]]
        /\ \A c \in Conns, d \in Dirs : taken[c][d] <= taken'[c][d]
    BY <1>2 DEF DriverIInv, IInv, TypeOK
  <2> QED
    BY <1>2, <2>1, CloseInOrder
<1>3. ASSUME NEW b \in Bodies, PutFault(b) PROVE StreamsInOrder'
  <2>1. UNCHANGED <<taken, written>> /\ connections \in SUBSET Conns
    BY <1>3 DEF PutFault, wire, DriverIInv, IInv, TypeOK
  <2>2. CASE ClosesAll(b.mode)
    BY <1>2, <1>3, <2>1, <2>2 DEF PutFault
  <2>3. CASE ~ClosesAll(b.mode)
    BY <1>1, <1>3, <2>1, <2>3 DEF PutFault
  <2> QED
    BY <2>2, <2>3
<1>4. ASSUME NEW c \in Conns, SocketGone(c) PROVE StreamsInOrder'
  BY <1>2, <1>4 DEF SocketGone, wire
<1>5. ASSUME NEW c \in Conns, Accept(c) \/ UpstreamConnected(c) PROVE StreamsInOrder'
  BY <1>1, <1>5 DEF Accept, UpstreamConnected, wire
<1>6. ASSUME NEW c \in Conns, NEW d \in Dirs, End(c, d) \/ PeerSend(c, d) \/ PeerFin(c, d)
      PROVE  StreamsInOrder'
  BY <1>1, <1>6 DEF End, PeerSend, PeerFin, wire
<1>7. CASE UNCHANGED vars
  BY <1>1, <1>7 DEF vars
<1> QED
  BY <1>3, <1>4, <1>5, <1>6, <1>7, DataInOrder, TimerInOrder DEF Next

(* A fault is put, and the proxy was healthy before, is healthy after, or the
   fault is the same: no timer survives a change of the fault. *)
LEMMA PutFaultDriver ==
    ASSUME DriverIInv, NEW b \in Bodies, PutFault(b), Alternates
    PROVE  TimersAreCurrent' /\ TaintedIsCut'
<1>1. connections \in SUBSET Conns /\ fault'.mode = b.mode
  BY DEF PutFault, DriverIInv, IInv, TypeOK
<1>2. CASE ClosesAll(b.mode)
  <2>1. CloseConnections(connections)
    BY <1>2 DEF PutFault
  <2>2. connections' = {} /\ \A c \in Conns : timers'[c] = {}
    BY <2>1 DEF CloseConnections, DriverIInv, IInv, TimersAreLive
  <2>3. tainted' = tainted
    BY <1>2 DEF PutFault, ClosesAll, CutsReplies
  <2>4. \A c \in tainted : client'[c] # "none"
    BY <2>1 DEF CloseConnections, DriverIInv, TaintedIsCut, IInv, TypeOK
  <2> QED
    BY <2>2, <2>3, <2>4 DEF TimersAreCurrent, TaintedIsCut
<1>3. CASE ~ClosesAll(b.mode)
  <2>1. UNCHANGED <<connections, timers, client>>
    BY <1>3 DEF PutFault
  <2>2. fault'.mode # "healthy"
    BY <1>1, <1>3 DEF ClosesAll
  <2>3. CASE fault' = fault
    <3>1. TimersAreCurrent'
      BY <2>1, <2>3 DEF DriverIInv, TimersAreCurrent
    <3>2. \A c \in connections : client[c] # "none"
      BY <1>1 DEF DriverIInv, IInv, FreshIsEmpty
    <3>3. TaintedIsCut'
      BY <1>1, <2>1, <2>3, <3>2 DEF DriverIInv, TaintedIsCut, PutFault
    <3> QED
      BY <3>1, <3>3
  <2>4. CASE fault' # fault
    <3>1. fault.mode = "healthy"
      BY <2>2, <2>4 DEF Alternates
    <3>2. \A c \in Conns : timers[c] = {}
      BY <3>1 DEF DriverIInv, IInv, TimersAreLive, HealthyIsTransparent
    <3>3. \A c \in tainted : c \notin connections /\ client[c] # "none"
      BY <3>1 DEF DriverIInv, TaintedIsCut, CutsReplies
    <3>4. \A c \in connections : client[c] # "none"
      BY <1>1 DEF DriverIInv, IInv, FreshIsEmpty
    <3>5. TaintedIsCut'
      BY <1>1, <2>1, <3>3, <3>4 DEF TaintedIsCut, PutFault
    <3> QED
      BY <2>1, <3>2, <3>5 DEF TimersAreCurrent
  <2> QED
    BY <2>3, <2>4
<1> QED
  BY <1>2, <1>3

(* Steps that leave the fault alone: timers are removed, or created with the
   delay in force, and connections leave or are accepted under the fault. *)
LEMMA OtherDriver ==
    ASSUME DriverIInv, [Next]_vars, UNCHANGED fault
    PROVE  TimersAreCurrent' /\ TaintedIsCut'
<1> USE DEF DriverIInv, IInv
<1>1. ASSUME NEW S \in SUBSET Conns, CloseConnections(S), UNCHANGED tainted
      PROVE  TimersAreCurrent' /\ TaintedIsCut'
  BY <1>1 DEF CloseConnections, TypeOK, TimersAreCurrent, TaintedIsCut
<1>2. ASSUME UNCHANGED <<timers, connections, client, tainted>>
      PROVE  TimersAreCurrent' /\ TaintedIsCut'
  BY <1>2 DEF TimersAreCurrent, TaintedIsCut
<1>3. ASSUME NEW c \in Conns, NEW d, NEW k, NEW rest \in SUBSET timers[c],
             Write(c, d, k, rest), UNCHANGED tainted
      PROVE  TimersAreCurrent' /\ TaintedIsCut'
  <2>1. CASE ended[c] # {}
    BY <1>1, <1>3, <2>1 DEF Write
  <2>2. CASE ended[c] = {}
    <3>1. UNCHANGED <<connections, client>> /\ timers' = [timers EXCEPT ![c] = rest]
      BY <1>3, <2>2 DEF Write
    <3>2. \A x \in Conns : \A t \in timers'[x] : t \in timers[x]
      BY <3>1 DEF TypeOK
    <3> QED
      BY <1>3, <3>1, <3>2 DEF TimersAreCurrent, TaintedIsCut
  <2> QED
    BY <2>1, <2>2
<1>4. ASSUME NEW b \in Bodies, PutFault(b) PROVE TimersAreCurrent' /\ TaintedIsCut'
  BY <1>4, PutFaultDriver DEF Alternates
<1>5. ASSUME NEW c \in Conns, Accept(c) PROVE TimersAreCurrent' /\ TaintedIsCut'
  BY <1>5 DEF Accept, TypeOK, TimersAreCurrent, TaintedIsCut
<1>6. ASSUME NEW c \in Conns, UpstreamConnected(c) PROVE TimersAreCurrent' /\ TaintedIsCut'
  BY <1>2, <1>6 DEF UpstreamConnected
<1>7. ASSUME NEW c \in Conns, SocketGone(c) PROVE TimersAreCurrent' /\ TaintedIsCut'
  BY <1>1, <1>7 DEF SocketGone
<1>8. ASSUME NEW c \in Conns, NEW t \in timers[c], TimerFires(c, t)
      PROVE  TimersAreCurrent' /\ TaintedIsCut'
  BY <1>3, <1>8 DEF TimerFires
<1>9. ASSUME NEW c \in Conns, NEW d \in Dirs, Data(c, d)
      PROVE  TimersAreCurrent' /\ TaintedIsCut'
  <2>1. CASE fault.mode = "reset"
    BY <1>1, <1>9, <2>1 DEF Data
  <2>2. CASE fault.mode # "reset" /\ Drops(d)
    BY <1>2, <1>9, <2>2 DEF Data
  <2>3. CASE /\ fault.mode # "reset" /\ ~Drops(d)
             /\ fault.mode = "latency" /\ fault.latencyMs > 0
    <3> DEFINE timer == [dir |-> d, chunk |-> taken[c][d] + 1, delay |-> fault.latencyMs]
    <3>1. /\ timers' = [timers EXCEPT ![c] = @ \cup {timer}]
          /\ UNCHANGED <<connections, client, tainted>>
      BY <1>9, <2>3 DEF Data
    <3>2. \A x \in Conns : \A t \in timers'[x] : t \in timers[x] \/ t = timer
      BY <3>1 DEF TypeOK
    <3>3. timer.delay = fault.latencyMs
      OBVIOUS
    <3> HIDE DEF timer
    <3> QED
      BY <2>3, <3>1, <3>2, <3>3 DEF TimersAreCurrent, TaintedIsCut
  <2>4. CASE /\ fault.mode # "reset" /\ ~Drops(d)
             /\ ~(fault.mode = "latency" /\ fault.latencyMs > 0)
    <3>1. Write(c, d, taken[c][d] + 1, timers[c]) /\ UNCHANGED tainted
      BY <1>9, <2>4 DEF Data
    <3> QED
      BY <1>3, <3>1
  <2> QED
    BY <2>1, <2>2, <2>3, <2>4
<1>10. ASSUME NEW c \in Conns, NEW d \in Dirs, End(c, d) \/ PeerSend(c, d) \/ PeerFin(c, d)
       PROVE  TimersAreCurrent' /\ TaintedIsCut'
  BY <1>2, <1>10 DEF End, PeerSend, PeerFin
<1>11. CASE UNCHANGED vars
  BY <1>2, <1>11 DEF vars
<1> QED
  BY <1>4, <1>5, <1>6, <1>7, <1>8, <1>9, <1>10, <1>11 DEF Next

(* Every step that the drivers allow keeps the inductive invariant. *)
LEMMA NextDriverIInv == DriverIInv /\ [Next /\ Alternates]_vars => DriverIInv'
<1> SUFFICES ASSUME DriverIInv, [Next /\ Alternates]_vars PROVE DriverIInv'
  OBVIOUS
<1>1. [Next]_vars
  OBVIOUS
<1>2. IInv'
  BY <1>1, NextIInv DEF DriverIInv
<1>3. StreamsInOrder'
  BY <1>1, NextInOrder
<1>4. TimersAreCurrent' /\ TaintedIsCut'
  <2>1. CASE UNCHANGED fault
    BY <1>1, <2>1, OtherDriver
  <2>2. CASE ~UNCHANGED fault
    <3>1. Alternates /\ \E b \in Bodies : PutFault(b)
      BY <1>1, <2>2 DEF vars, Next, Accept, UpstreamConnected, SocketGone, TimerFires, Data,
                        End, PeerSend, PeerFin
    <3> QED
      BY <3>1, PutFaultDriver
  <2> QED
    BY <2>1, <2>2
<1> QED
  BY <1>2, <1>3, <1>4 DEF DriverIInv

(* Every state that the drivers can bring the proxy into satisfies it. *)
THEOREM DriverInvariant == DriverSpec => []DriverIInv
BY InitDriverIInv, NextDriverIInv, PTL DEF DriverSpec

(* Latency never reorders the bytes of a direction, also not when a fault is
   changed while chunks wait in timers. *)
THEOREM ProxyInOrder == DriverSpec => []InOrder
<1>1. DriverIInv => InOrder
  BY DEF DriverIInv, StreamsInOrder, StreamInOrder, InOrder
<1> QED
  BY DriverInvariant, <1>1, PTL

(* No step writes a reply to a connection that has lived through a cut of the
   replies: what a driver counts as lost is not delivered afterwards. *)
THEOREM ProxyLostReplyStaysLost == DriverSpec => LostReplyStaysLost
<1> DEFINE Lost == \A c \in tainted : written'[c]["downstream"] = written[c]["downstream"]
<1>1. DriverIInv /\ [Next /\ Alternates]_vars => [Lost]_vars
  <2> SUFFICES ASSUME DriverIInv, Next, NEW x \in tainted
               PROVE  written'[x]["downstream"] = written[x]["downstream"]
    OBVIOUS
  <2>1. x \in Conns /\ (x \in connections => CutsReplies(fault.mode))
    BY DEF DriverIInv, TaintedIsCut, IInv, TypeOK
  <2>2. ASSUME NEW c \in Conns, NEW d \in Dirs, NEW k, NEW rest, Write(c, d, k, rest),
               x # c \/ d # "downstream"
        PROVE  written'[x]["downstream"] = written[x]["downstream"]
    BY <2>1, <2>2 DEF Write, DriverIInv, IInv, TypeOK, Dirs
  <2>3. ASSUME NEW c \in Conns, NEW d \in Dirs, Data(c, d)
        PROVE  written'[x]["downstream"] = written[x]["downstream"]
    <3>1. CASE x = c /\ d = "downstream"
      <4>1. fault.mode # "reset" /\ Drops(d)
        BY <2>1, <2>3, <3>1 DEF Data, Flowing, Drops, CutsReplies
      <4> QED
        BY <2>3, <4>1 DEF Data
    <3>2. CASE x # c \/ d # "downstream"
      <4>1. UNCHANGED written \/ Write(c, d, taken[c][d] + 1, timers[c])
        BY <2>3 DEF Data
      <4> QED
        BY <2>2, <3>2, <4>1
    <3> QED
      BY <3>1, <3>2
  <2>4. ASSUME NEW c \in Conns, NEW t \in timers[c], TimerFires(c, t)
        PROVE  written'[x]["downstream"] = written[x]["downstream"]
    <3>1. c \in connections /\ fault.mode = "latency"
      BY DEF DriverIInv, IInv, TimersAreLive, TimersAreCurrent
    <3>2. x # c
      BY <2>1, <3>1 DEF CutsReplies
    <3>3. t.dir \in Dirs
      BY DEF DriverIInv, IInv, TypeOK, TimerRecord
    <3> QED
      BY <2>2, <2>4, <3>2, <3>3 DEF TimerFires
  <2> QED
    BY <2>3, <2>4 DEF Next, PutFault, Accept, UpstreamConnected, SocketGone, End, PeerSend,
                      PeerFin, wire
<1> QED
  BY DriverInvariant, <1>1, PTL DEF DriverSpec, LostReplyStaysLost
=============================================================================
