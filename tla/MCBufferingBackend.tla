------------------------- MODULE MCBufferingBackend -------------------------
(* Two dictionaries, two keys and one value for TLC: a second value would  *)
(* only rename the first, NoValue and Torn already being told apart.       *)
EXTENDS BufferingBackend, TLC

CONSTANTS d1, d2, k1, k2, v1

(* Keys are interchangeable, and so are dictionaries: no definition names  *)
(* one.                                                                    *)
Symmetry == Permutations(Keys) \cup Permutations(Dicts)
=============================================================================
