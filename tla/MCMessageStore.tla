--------------------------- MODULE MCMessageStore ---------------------------
(* A contact and a group share a small buffer of rows for TLC. *)
EXTENDS MessageStore
=============================================================================
