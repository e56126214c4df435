----------------------------- MODULE MCConnPool -----------------------------
(* ConnPool on small sets, for TLC.                                        *)
EXTENDS ConnPool, TLC

CONSTANTS r1, r2, r3, e1, e2, e3, a1, a2

\* Fields nothing reads again are left out: everything in a garbage entry
\* (Entry resets it), idle outside the map, auth without a connection.
View ==
  <<poolVars, rowVars, procVars, dropped, floor, overlap,
    [e \in Entries \ Garbage |->
       <<connMu[e], client[e], e \in Pooled /\ idle[e],
         IF client[e] \in {"open", "dead"} THEN auth[e] ELSE 0, e \in late>>]>>

\* Requests and pooledConns are interchangeable; safety runs only.
Symmetry == Permutations(Requests) \cup Permutations(Entries)
=============================================================================
