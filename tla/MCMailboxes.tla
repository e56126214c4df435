---------------------------- MODULE MCMailboxes ----------------------------
(* Mailboxes on a small instance: who holds an address, and who is told so. *)
EXTENDS Mailboxes, TLC

\* Addresses, accounts, requests and browsers are interchangeable.
Interchangeable ==
    Permutations(Addr) \union Permutations(Users)
        \union Permutations(Tabs) \union Permutations(Directs)

\* Bound: requests in flight at once, sessions at rest not counted.
MaxBusy == 2
AtMostBusy ==
    Cardinality({t \in Tabs : tab[t].pc # "idle"})
        + Cardinality({d \in Directs : dir[d].pc \notin {"out", "in"}}) <= MaxBusy
=============================================================================
