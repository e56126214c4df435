-------------------------- MODULE MCDirectSessions --------------------------
(* DirectSessions on small sets, for TLC.                                  *)
EXTENDS DirectSessions, TLC

CONSTANTS s1, s2, r1, r2, a1, a2

Symmetry == Permutations(Sessions) \cup Permutations(Requests)
=============================================================================
