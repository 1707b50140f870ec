------------------------------ MODULE MCWorker ------------------------------
(* Two links and two manager tasks at a time for TLC. *)
EXTENDS Worker
=============================================================================
