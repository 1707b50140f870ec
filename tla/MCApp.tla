------------------------------- MODULE MCApp -------------------------------
(* The screens and the worker with short channels for TLC. *)
EXTENDS App
=============================================================================
