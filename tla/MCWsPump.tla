------------------------------ MODULE MCWsPump ------------------------------
(* A websocket pump with short frame channels for TLC. *)
EXTENDS WsPump
=============================================================================
