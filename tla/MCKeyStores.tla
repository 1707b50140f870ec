---------------------------- MODULE MCKeyStores ----------------------------
(* Small instances of the key stores for TLC. *)
EXTENDS KeyStores, TLC

Symmetry == Permutations(BaseKeys) \cup Permutations(PeerKeys)
=============================================================================
