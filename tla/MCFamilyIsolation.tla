------------------------- MODULE MCFamilyIsolation -------------------------
(* Instances of FamilyIsolation for TLC. *)
EXTENDS FamilyIsolation
=============================================================================
