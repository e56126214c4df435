--------------------------- MODULE MCLoginThrottle --------------------------
(* LoginThrottle on small sets, for TLC.                                   *)
EXTENDS LoginThrottle, TLC

CONSTANTS p1, p2, i1, i2

\* A row's place among the rows: what its id is compared for.
Place(f) == Cardinality({g \in failures : g.id <= f.id})
Kept(f)  == <<Place(f), f.ip, f.name, f.at>>

\* What the rules are about.  blocked_ip_log decides only whether a refused
\* attempt takes one more step; row ids only order the rows and tell which an
\* attempt is recording; an expiry matters while it is to be used.
View ==
  <<now, blocks, history, pc, ip, name, t0, todo,
    [p \in Attempts |->
       IF pc[p] \in {"deny", "log", "blockIP", "blockName"} THEN until[p] ELSE 0],
    {Kept(f) : f \in failures},
    [p \in Attempts |->
       <<mine[p] # 0, {Kept(f) : f \in {g \in failures : g.id = mine[p]}}>>]>>

Symmetry == Permutations(Attempts) \cup Permutations(IPs)
=============================================================================
