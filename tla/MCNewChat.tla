----------------------------- MODULE MCNewChat -----------------------------
(* Two names, two tasks one after the other and short channels for TLC. *)
EXTENDS NewChat
=============================================================================
