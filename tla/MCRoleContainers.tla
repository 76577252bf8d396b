-------------------------- MODULE MCRoleContainers --------------------------
(* Instances of RoleContainers for TLC. *)
EXTENDS RoleContainers
=============================================================================
