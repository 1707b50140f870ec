--------------------------- MODULE MCSessionStore ---------------------------
(* Small instances of the session store for TLC. *)
EXTENDS SessionStore, TLC

CONSTANTS r1, r2

MCValues == Bundle

Symmetry == Permutations(Records)
=============================================================================
