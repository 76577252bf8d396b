--------------------------- MODULE MCPressureQueue ---------------------------
(* An instance of PressureQueue for TLC. *)
EXTENDS PressureQueue
=============================================================================
