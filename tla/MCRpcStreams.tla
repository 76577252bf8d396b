---------------------------- MODULE MCRpcStreams ----------------------------
(* Instances of RpcStreams for TLC. *)
EXTENDS RpcStreams
=============================================================================
