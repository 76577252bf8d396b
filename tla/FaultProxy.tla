----------------------------- MODULE FaultProxy -----------------------------
(***************************************************************************)
(* The Compose-local TCP fault proxy, storage-proxy.mjs.  One process sits *)
(* between clients and an upstream service; a control endpoint switches    *)
(* the fault in force.  The process is single threaded, so one action here *)
(* is one event-loop callback: the connection listener, a socket's         *)
(* "connect", "data", "end", "error" or "close" event, a timer, or a PUT   *)
(* of /fault.  The peers on both sides (PeerSend, PeerFin) are external.   *)
(*                                                                         *)
(* A chunk is known by its position in its direction's stream.  Sockets    *)
(* are created with allowHalfOpen = false, so the "end" event of either    *)
(* socket ends the writable side of both: its own automatically, the other *)
(* one in the proxy's listener.                                            *)
(***************************************************************************)
EXTENDS Integers, Sequences

CONSTANTS
    Conns,       \* connections that clients may open, each at most once
    Bodies,      \* the parsed bodies of the PUT /fault requests
    MaxLatencyMs, \* the largest latencyMs the control endpoint accepts
    MaxChunks    \* bound: chunks a peer sends in one direction

Modes == {"healthy", "latency", "reset", "partition", "blackhole",
          "downstream-drop", "downstream-pause"}
Dirs == {"upstream", "downstream"}

ASSUME BodiesAssumption ==
    \A b \in Bodies : b \in [mode : STRING, latencyMs : Int]
ASSUME MaxLatencyAssumption == MaxLatencyMs \in Nat
ASSUME MaxChunksAssumption == MaxChunks \in Nat

VARIABLES
    fault,        \* the fault in force: [mode, latencyMs]
    connections,  \* the Set of live connections
    client,       \* client socket: "none" before accept, "open", "destroyed"
    upstream,     \* upstream socket: "undefined", "connecting", "open", "destroyed"
    paused,       \* the upstream socket does not emit "data"
    timers,       \* chunks waiting in setTimeout: [dir, chunk, delay]
    ended,        \* directions whose source emitted "end"
    sent,         \* chunks the source's peer has sent
    finned,       \* directions whose source's peer has sent FIN
    taken,        \* chunks for which the "data" handler has run
    written,      \* the chunks written to the destination, in order
    tainted       \* history: connections that lived while replies were cut

vars == <<fault, connections, client, upstream, paused, timers, ended, sent,
          finned, taken, written, tainted>>
wire == <<sent, finned, taken, written>>

Init ==
    /\ fault = [mode |-> "healthy", latencyMs |-> 0]
    /\ connections = {}
    /\ client = [c \in Conns |-> "none"]
    /\ upstream = [c \in Conns |-> "undefined"]
    /\ paused = [c \in Conns |-> FALSE]
    /\ timers = [c \in Conns |-> {}]
    /\ ended = [c \in Conns |-> {}]
    /\ sent = [c \in Conns |-> [d \in Dirs |-> 0]]
    /\ finned = [c \in Conns |-> {}]
    /\ taken = [c \in Conns |-> [d \in Dirs |-> 0]]
    /\ written = [c \in Conns |-> [d \in Dirs |-> <<>>]]
    /\ tainted = {}

(* The faults that withhold every reply from the client. *)
CutsReplies(mode) == mode \in {"blackhole", "downstream-drop", "downstream-pause"}

(* closeConnection, for every connection of S: leave the set, drop the
   timers, destroy both sockets. *)
CloseConnections(S) ==
    /\ connections' = connections \ S
    /\ timers' = [c \in Conns |-> IF c \in S THEN {} ELSE timers[c]]
    /\ client' = [c \in Conns |-> IF c \in S THEN "destroyed" ELSE client[c]]
    /\ upstream' = [c \in Conns |->
            IF c \in S /\ upstream[c] # "undefined" THEN "destroyed" ELSE upstream[c]]

(* The connection listener of the data server. *)
Accept(c) ==
    /\ client[c] = "none"
    /\ connections' = connections \cup {c}
    /\ client' = [client EXCEPT ![c] =
                     IF fault.mode = "reset" THEN "destroyed" ELSE "open"]
    /\ upstream' = [upstream EXCEPT ![c] =
                     IF fault.mode \in {"reset", "partition"}
                     THEN "undefined" ELSE "connecting"]
    /\ tainted' = IF CutsReplies(fault.mode) THEN tainted \cup {c} ELSE tainted
    /\ UNCHANGED <<fault, paused, timers, ended, wire>>

(* The upstream "connect" event: forward both ways, then settle whether the
   upstream socket is read. *)
UpstreamConnected(c) ==
    /\ c \in connections
    /\ upstream[c] = "connecting"
    /\ upstream' = [upstream EXCEPT ![c] = "open"]
    /\ paused' = [paused EXCEPT ![c] = fault.mode = "downstream-pause"]
    /\ UNCHANGED <<fault, connections, client, timers, ended, wire, tainted>>

(* Both sockets forward, and direction d's source is being read. *)
Flowing(c, d) ==
    /\ c \in connections
    /\ client[c] = "open"
    /\ upstream[c] = "open"
    /\ d = "downstream" => ~paused[c]

(* destination.write(chunk), leaving the connection the timers in rest.
   Writing to a socket that has ended raises the destination's "error" event,
   which closes the connection. *)
Write(c, d, chunk, rest) ==
    \/ /\ ended[c] = {}
       /\ written' = [written EXCEPT ![c][d] = Append(@, chunk)]
       /\ timers' = [timers EXCEPT ![c] = rest]
       /\ UNCHANGED <<connections, client, upstream>>
    \/ /\ ended[c] # {}
       /\ CloseConnections({c})
       /\ UNCHANGED written

(* Mutant: blackhole is forgotten where the data handler drops. *)
DropsExceptBlackhole(d) ==
    \/ fault.mode = "partition"
    \/ fault.mode \in {"downstream-drop", "downstream-pause"} /\ d = "downstream"

Drops(d) ==
    \/ fault.mode \in {"partition", "blackhole"}
    \/ fault.mode \in {"downstream-drop", "downstream-pause"} /\ d = "downstream"

(* The "data" event on direction d's source. *)
Data(c, d) ==
    /\ Flowing(c, d)
    /\ taken[c][d] < sent[c][d]
    /\ taken' = [taken EXCEPT ![c][d] = @ + 1]
    /\ LET chunk == taken[c][d] + 1 IN
       IF fault.mode = "reset"
       THEN CloseConnections({c}) /\ UNCHANGED written
       ELSE IF Drops(d)
       THEN UNCHANGED <<connections, client, upstream, timers, written>>
       ELSE IF fault.mode = "latency" /\ fault.latencyMs > 0
       THEN /\ timers' = [timers EXCEPT ![c] = @ \cup
                   {[dir |-> d, chunk |-> chunk, delay |-> fault.latencyMs]}]
            /\ UNCHANGED <<connections, client, upstream, written>>
       ELSE Write(c, d, chunk, timers[c])
    /\ UNCHANGED <<fault, paused, ended, sent, finned, tainted>>

(* Timers of one direction are created in chunk order; a timer runs before
   every later one whose delay is not shorter. *)
Due(c, t) ==
    \A u \in timers[c] : u.dir = t.dir /\ u.chunk < t.chunk => u.delay > t.delay

(* Mutant: the callback forgets its timer and writes nothing. *)
TimerOnlyForgets(c, t) ==
    /\ t \in timers[c]
    /\ Due(c, t)
    /\ timers' = [timers EXCEPT ![c] = @ \ {t}]
    /\ UNCHANGED <<fault, connections, client, upstream, paused, ended, wire, tainted>>

(* The timer callback: forget the timer, write its chunk. *)
TimerFires(c, t) ==
    /\ t \in timers[c]
    /\ Due(c, t)
    /\ Write(c, t.dir, t.chunk, timers[c] \ {t})
    /\ UNCHANGED <<fault, paused, ended, sent, finned, taken, tainted>>

(* The "end" event on direction d's source, after all of its data: both
   sockets' writable sides end, whatever fault is in force. *)
End(c, d) ==
    /\ Flowing(c, d)
    /\ d \in finned[c] \ ended[c]
    /\ taken[c][d] = sent[c][d]
    /\ ended' = [ended EXCEPT ![c] = @ \cup {d}]
    /\ UNCHANGED <<fault, connections, client, upstream, paused, timers, wire, tainted>>

(* An "error" or "close" event of either socket. *)
SocketGone(c) ==
    /\ c \in connections
    /\ CloseConnections({c})
    /\ UNCHANGED <<fault, paused, ended, wire, tainted>>

(* Mutant: the range of latencyMs is not validated. *)
ValidModeOnly(b) == b.mode \in Modes

ValidBody(b) == b.mode \in Modes /\ b.latencyMs \in 0..MaxLatencyMs

(* Mutants: restoring, or partitioning, leaves the connections open. *)
ClosesExceptOnHealthy(mode) == mode \in {"reset", "partition"}
ClosesExceptOnPartition(mode) == mode \in {"reset", "healthy"}

ClosesAll(mode) == mode \in {"reset", "partition", "healthy"}

(* PUT /fault with a valid body; an invalid one is answered 400 and changes
   nothing.  Every open upstream socket is paused or resumed, and the modes
   that must not leave an earlier connection behind close all of them. *)
PutFault(b) ==
    /\ ValidBody(b)
    /\ fault' = [mode |-> b.mode,
                 latencyMs |-> IF b.mode = "latency" THEN b.latencyMs ELSE 0]
    /\ paused' = [c \in Conns |->
            IF c \in connections /\ upstream[c] \in {"connecting", "open"}
            THEN b.mode = "downstream-pause" ELSE paused[c]]
    /\ IF ClosesAll(b.mode)
       THEN CloseConnections(connections)
       ELSE UNCHANGED <<connections, timers, client, upstream>>
    /\ tainted' = IF CutsReplies(b.mode) THEN tainted \cup connections ELSE tainted
    /\ UNCHANGED <<ended, wire>>

(* External: the peer of direction d's source sends a chunk, or half-closes. *)
PeerCanSend(c, d) ==
    /\ c \in connections
    /\ client[c] = "open"
    /\ d = "downstream" => upstream[c] = "open"
    /\ d \notin finned[c]

PeerSend(c, d) ==
    /\ PeerCanSend(c, d)
    /\ sent[c][d] < MaxChunks
    /\ sent' = [sent EXCEPT ![c][d] = @ + 1]
    /\ UNCHANGED <<fault, connections, client, upstream, paused, timers, ended,
                   finned, taken, written, tainted>>

PeerFin(c, d) ==
    /\ PeerCanSend(c, d)
    /\ finned' = [finned EXCEPT ![c] = @ \cup {d}]
    /\ UNCHANGED <<fault, connections, client, upstream, paused, timers, ended,
                   sent, taken, written, tainted>>

Next ==
    \/ \E b \in Bodies : PutFault(b)
    \/ \E c \in Conns :
          \/ Accept(c)
          \/ UpstreamConnected(c)
          \/ SocketGone(c)
          \/ \E t \in timers[c] : TimerFires(c, t)
          \/ \E d \in Dirs : Data(c, d) \/ End(c, d) \/ PeerSend(c, d) \/ PeerFin(c, d)

Spec == Init /\ [][Next]_vars

(* External: the drivers.  Every scenario restores the proxy before it puts the
   next fault. *)
Alternates ==
    fault' # fault => fault.mode = "healthy" \/ fault'.mode = "healthy"

DriverSpec == Init /\ [][Next /\ Alternates]_vars

(* The event loop runs every timer that is due. *)
Fairness == \A c \in Conns : WF_vars(\E t \in timers[c] : TimerFires(c, t))
FairDriverSpec == DriverSpec /\ Fairness
-----------------------------------------------------------------------------
TimerRecord == [dir : Dirs, chunk : Nat, delay : Nat]

(* Every variable has its type. *)
TypeOK ==
    /\ fault \in [mode : Modes, latencyMs : 0..MaxLatencyMs]
    /\ connections \in SUBSET Conns
    /\ client \in [Conns -> {"none", "open", "destroyed"}]
    /\ upstream \in [Conns -> {"undefined", "connecting", "open", "destroyed"}]
    /\ paused \in [Conns -> BOOLEAN]
    /\ timers \in [Conns -> SUBSET TimerRecord]
    /\ ended \in [Conns -> SUBSET Dirs]
    /\ sent \in [Conns -> [Dirs -> Nat]]
    /\ finned \in [Conns -> SUBSET Dirs]
    /\ taken \in [Conns -> [Dirs -> Nat]]
    /\ written \in [Conns -> [Dirs -> Seq(Nat)]]
    /\ tainted \in SUBSET Conns

(* Restoring the proxy (mode healthy) leaves no connection a fault has
   touched: every live connection has an upstream socket, no chunk waits in
   a timer, and what was written is exactly what was read, without a gap and
   in order.  This is why a PUT of healthy closes every connection. *)
HealthyIsTransparent ==
    fault.mode = "healthy" =>
        \A c \in connections :
            /\ upstream[c] \in {"connecting", "open"}
            /\ timers[c] = {}
            /\ \A d \in Dirs : written[c][d] = [i \in 1..taken[c][d] |-> i]

(* Under reset and partition no live connection reaches the upstream
   service, also not one whose upstream connect was under way, nor a byte
   that was being delayed, when the fault was put. *)
CutIsolatesUpstream ==
    fault.mode \in {"reset", "partition"} =>
        \A c \in connections : upstream[c] = "undefined" /\ timers[c] = {}

(* The proxy never reorders the bytes of a direction, also not across a
   change of the fault: chunks are written in the order they were read. *)
InOrder ==
    \A c \in Conns, d \in Dirs :
        \A i, j \in 1..Len(written[c][d]) :
            i < j => written[c][d][i] < written[c][d][j]

(* A connection that lived while replies were dropped or held is never
   written a reply afterwards: a lost response stays lost. *)
LostReplyStaysLost ==
    [][\A c \in tainted : written'[c]["downstream"] = written[c]["downstream"]]_vars

(* A chunk that latency delays is written in the end unless its connection
   is closed. *)
DelayedIsWritten ==
    \A c \in Conns, d \in Dirs, k \in 1..MaxChunks :
        (\E t \in timers[c] : t.dir = d /\ t.chunk = k)
            ~> (\/ c \notin connections
                \/ \E i \in 1..Len(written[c][d]) : written[c][d][i] = k)
=============================================================================
