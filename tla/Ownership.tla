----------------------------- MODULE Ownership -----------------------------
(***************************************************************************)
(* What the deployment promises about an address: nobody has it, it signs  *)
(* in as itself, or one application account holds it.  An account takes it *)
(* from nobody or from itself, never from another account.                 *)
(***************************************************************************)
CONSTANTS Addr, Users, Nobody, Self

VARIABLE owner

TypeOK == owner \in [Addr -> Users \union {Self, Nobody}]

Init == owner = [a \in Addr |-> Nobody]

\* The first direct sign-in with an address (SelfOwnedMailbox).
SignIn(a) ==
    /\ owner[a] = Nobody
    /\ owner' = [owner EXCEPT ![a] = Self]

\* Attached: created, or claimed from the mailbox itself (attachMailbox).
Take(u, a) ==
    /\ owner[a] \in {Nobody, Self}
    /\ owner' = [owner EXCEPT ![a] = u]

\* Detached (DeleteMailAccount).
Release(u, a) ==
    /\ owner[a] = u
    /\ owner' = [owner EXCEPT ![a] = Nobody]

\* Edited to another address nobody has (UpdateMailAccount).
Rename(u, a, b) ==
    /\ owner[a] = u /\ owner[b] = Nobody
    /\ owner' = [owner EXCEPT ![a] = Nobody, ![b] = u]

\* The account is removed, and everything it held with it (DeleteAppUser).
Remove(u) ==
    owner' = [a \in Addr |-> IF owner[a] = u THEN Nobody ELSE owner[a]]

\* Each step is one address's, or one account's, and somebody's answer changes.
Next ==
    /\ owner' # owner
    /\ \/ \E a \in Addr : SignIn(a)
       \/ \E u \in Users, a \in Addr : Take(u, a) \/ Release(u, a)
       \/ \E u \in Users, a, b \in Addr : Rename(u, a, b)
       \/ \E u \in Users : Remove(u)

Spec == Init /\ [][Next]_owner
=============================================================================
