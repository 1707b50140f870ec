---------------------------- MODULE MCManagerTask ----------------------------
(* A small manager task for TLC. *)
EXTENDS ManagerTask
=============================================================================
