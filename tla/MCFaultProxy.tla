---------------------------- MODULE MCFaultProxy ----------------------------
(* An instance of FaultProxy for TLC: a proxy under the faults that the
   scenarios put on storage-proxy and on client-proxy. *)
EXTENDS FaultProxy

Body(mode, latencyMs) == [mode |-> mode, latencyMs |-> latencyMs]

(* latency, reset and partition are put on storage-proxy, the others on
   client-proxy; the last body must be refused. *)
AllBodies == {Body("healthy", 0), Body("latency", 250), Body("reset", 0),
              Body("partition", 0), Body("blackhole", 0),
              Body("downstream-drop", 0), Body("downstream-pause", 0),
              Body("latency", 60001)}
=============================================================================
