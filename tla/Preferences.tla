---------------------------- MODULE Preferences ----------------------------
(***************************************************************************)
(* A mailbox's preferences: the mailbox_settings table, the copy of it     *)
(* every request reads, and what becomes of both as addresses change       *)
(* hands.                                                                  *)
(*                                                                         *)
(* Preferences belong to an address, so they outlive the row they were     *)
(* saved under, and handleMailboxesDelete forgets them in a step of its    *)
(* own.  A write is an SQL statement followed by Load, which selects the   *)
(* whole table and then publishes it: nothing orders the publishing of two *)
(* requests after their selecting.  The deployment's settings              *)
(* (SettingsStore) are written and loaded the same way.                    *)
(*                                                                         *)
(* What an address has saved is modelled by who saved it.  Who has an      *)
(* address changes as Ownership says; Mailboxes shows that it does.        *)
(***************************************************************************)
EXTENDS FiniteSets

CONSTANTS Addr, Users, Nobody, Self,
          Reqs      \* requests that write preferences at once

ASSUME NobodyAssumption == Nobody \notin Users

VARIABLES
    owner,      \* who has each address (mail_accounts)
    door,       \* addresses somebody is signed in with directly
    table,      \* mailbox_settings: who saved what an address has stored
    cache,      \* MailboxSettings.values, which every reader sees
    req,        \* each request
    left,       \* history: addresses whose preferences nothing forgot
    stale       \* history: the last Load failed or published an old table

vars == <<owner, door, table, cache, req, left, stale>>

Has == INSTANCE Ownership

Author == Users \union {Self, Nobody}
Saved == [Addr -> Author]

Step == {"idle", "opened", "confirmed", "forget", "wrote", "read"}

Req == [pc : Step, who : Author, addr : Addr \union {Nobody},
        snap : Saved \union {Nobody},
        behind : BOOLEAN,   \* history: the table changed after it was selected
        lost : BOOLEAN]     \* history: the address changed hands meanwhile

TypeOK ==
    /\ Has!TypeOK
    /\ door \subseteq Addr
    /\ table \in Saved /\ cache \in Saved
    /\ req \in [Reqs -> Req]
    /\ left \subseteq Addr
    /\ stale \in BOOLEAN

Idle == [pc |-> "idle", who |-> Nobody, addr |-> Nobody, snap |-> Nobody,
         behind |-> FALSE, lost |-> FALSE]

\* A request that has settled who it is for and which address.
Begun(pc, w, a) == [Idle EXCEPT !.pc = pc, !.who = w, !.addr = a]

-----------------------------------------------------------------------------
(* Addresses changing hands, and the requests this happens under. *)

Overtaken(q) ==
    [r \in Reqs |-> [q[r] EXCEPT !.lost = @ \/ \E a \in Addr :
                        /\ q[r].addr = a /\ q[r].pc \in {"opened", "forget"}
                        /\ owner'[a] # owner[a]]]

\* A direct sign-in.
SignIn(a) ==
    /\ owner[a] = Self \/ Has!SignIn(a)
    /\ owner' = [owner EXCEPT ![a] = Self]
    /\ door' = door \union {a}
    /\ req' = Overtaken(req)
    /\ UNCHANGED <<table, cache, left, stale>>

SignOut(a) ==
    /\ a \in door
    /\ door' = door \ {a}
    /\ UNCHANGED <<owner, table, cache, req, left, stale>>

\* An account attaches the address.  A direct session it overtakes stays.
Attach(u, a) ==
    /\ Has!Take(u, a)
    /\ req' = Overtaken(req)
    /\ UNCHANGED <<door, table, cache, left, stale>>

\* Editing the address, or removing the account, forgets nothing.
Rename(u, a, b) ==
    /\ Has!Rename(u, a, b)
    /\ left' = left \union {a}
    /\ req' = Overtaken(req)
    /\ UNCHANGED <<door, table, cache, stale>>

RemoveAccount(u) ==
    /\ Has!Remove(u) /\ owner' # owner
    /\ left' = left \union {a \in Addr : owner[a] = u}
    /\ req' = Overtaken(req)
    /\ UNCHANGED <<door, table, cache, stale>>

-----------------------------------------------------------------------------
(* Saving preferences. *)

\* The request settles which mailbox it is about: the session's own, or the
\* one an account has open (mailboxOwner, memoised by prefsHolder).
Open(r, w, a) ==
    /\ req[r].pc = "idle"
    /\ IF w = Self THEN a \in door ELSE owner[a] = w
    /\ req' = [req EXCEPT ![r] = Begun("opened", w, a)]
    /\ UNCHANGED <<owner, door, table, cache, left, stale>>

\* What a statement leaves to do: Load.  A slip: a deleted row is thought not
\* to need it.
WrittenUnlessDeleted(v) ==
    IF v = Nobody THEN Idle ELSE [Idle EXCEPT !.pc = "wrote"]
Written(v) == [Idle EXCEPT !.pc = "wrote"]

\* The statement of Set or Forget: the table changes, and whoever had selected
\* it already holds an old one.  A slip: the WHERE does not name the owner.
WriteEverybodys(r, v) ==
    /\ table' = [a \in Addr |-> v]
    /\ req' = [q \in Reqs |->
                  IF q = r THEN Written(v)
                  ELSE [req[q] EXCEPT !.behind = @ \/ req[q].pc = "read"]]
Write(r, v) ==
    /\ table' = [table EXCEPT ![req[r].addr] = v]
    /\ req' = [q \in Reqs |->
                  IF q = r THEN Written(v)
                  ELSE [req[q] EXCEPT !.behind = @ \/ (req[q].pc = "read"
                                                       /\ table' # table)]]

\* Set: a value is stored, a default value is deleted, or the statement fails.
\* Nothing asks again whose the address is.
Set(r) ==
    /\ req[r].pc = "opened"
    /\ \/ /\ Write(r, req[r].who)
          /\ left' = IF req[r].lost THEN left \union {req[r].addr} ELSE left
       \/ Write(r, Nobody) /\ UNCHANGED left
       \/ req' = [req EXCEPT ![r] = Idle] /\ UNCHANGED <<table, left>>
    /\ UNCHANGED <<owner, door, cache, stale>>

-----------------------------------------------------------------------------
(* Detaching a mailbox. *)

\* handleMailboxesDelete reads the row it was asked about ...
Confirm(r, u, a) ==
    /\ req[r].pc = "idle"
    /\ owner[a] = u
    /\ req' = [req EXCEPT ![r] = Begun("confirmed", u, a)]
    /\ UNCHANGED <<owner, door, table, cache, left, stale>>

\* ... deletes it, by its id: under the address it was read with, unless it
\* was renamed since, and not at all if it is gone ...
Detach(r) ==
    LET u == req[r].who
        a == req[r].addr
    IN  /\ req[r].pc = "confirmed"
        /\ \/ /\ Has!Release(u, a)
              /\ req' = [Overtaken(req) EXCEPT ![r] = Begun("forget", u, a)]
              /\ UNCHANGED left
           \/ \E b \in Addr \ {a} :
                 /\ owner[a] # u /\ Has!Release(u, b)
                 /\ req' = [Overtaken(req) EXCEPT
                               ![r] = [Begun("forget", u, a) EXCEPT !.lost = TRUE]]
                 /\ left' = left \union {b}
           \/ /\ owner[a] # u
              /\ req' = [req EXCEPT ![r] = Idle]
              /\ UNCHANGED <<owner, left>>
        /\ UNCHANGED <<door, table, cache, stale>>

\* ... and then forgets the preferences of the address it read.  A failure is
\* logged, and the handler goes on.  A slip: it ends with the row.
ForgetNothing(r) ==
    /\ req[r].pc = "forget"
    /\ req' = [req EXCEPT ![r] = Idle]
    /\ UNCHANGED <<owner, door, table, cache, left, stale>>
Forget(r) ==
    /\ req[r].pc = "forget"
    /\ \/ Write(r, Nobody) /\ left' = left \ {req[r].addr}
       \/ /\ req' = [req EXCEPT ![r] = Idle]
          /\ left' = left \union {req[r].addr}
          /\ UNCHANGED table
    /\ UNCHANGED <<owner, door, cache, stale>>

-----------------------------------------------------------------------------
(* Load. *)

Select(r) ==
    /\ req[r].pc = "wrote"
    /\ \/ /\ req' = [req EXCEPT ![r] = [Idle EXCEPT !.pc = "read", !.snap = table]]
          /\ UNCHANGED stale
       \/ /\ req' = [req EXCEPT ![r] = Idle]    \* the query failed
          /\ stale' = TRUE
    /\ UNCHANGED <<owner, door, table, cache, left>>

Publish(r) ==
    /\ req[r].pc = "read"
    /\ cache' = req[r].snap
    /\ stale' = req[r].behind
    /\ req' = [req EXCEPT ![r] = Idle]
    /\ UNCHANGED <<owner, door, table, left>>

\* The process starts again: sessions and requests are gone, and Load runs
\* before anything is served.
Restart ==
    /\ door' = {}
    /\ req' = [r \in Reqs |-> Idle]
    /\ left' = left \union {req[r].addr : r \in {q \in Reqs : req[q].pc = "forget"}}
    /\ cache' = table
    /\ stale' = FALSE
    /\ UNCHANGED <<owner, table>>

-----------------------------------------------------------------------------
Init ==
    /\ Has!Init
    /\ door = {}
    /\ table = [a \in Addr |-> Nobody]
    /\ cache = table
    /\ req = [r \in Reqs |-> Idle]
    /\ left = {}
    /\ stale = FALSE

Next ==
    \/ \E a \in Addr : SignIn(a) \/ SignOut(a)
    \/ \E u \in Users, a \in Addr : Attach(u, a)
    \/ \E u \in Users, a, b \in Addr : Rename(u, a, b)
    \/ \E u \in Users : RemoveAccount(u)
    \/ \E r \in Reqs : \/ \E w \in Users \union {Self}, a \in Addr : Open(r, w, a)
                       \/ \E u \in Users, a \in Addr : Confirm(r, u, a)
                       \/ Set(r) \/ Detach(r) \/ Forget(r)
                       \/ Select(r) \/ Publish(r)
    \/ Restart

Spec == Init /\ [][Next]_vars

-----------------------------------------------------------------------------
(* Properties. *)

\* Whoever attaches an address, or signs in with it, inherits nothing from an
\* account that had it before (mailboxes.go:243), except where nothing forgets
\* it: the account was removed, the mailbox renamed, forgetting failed, or a
\* request outlived the mailbox.  Between deleting and forgetting there is a
\* moment when it is still there.
NothingInherited ==
    \A a \in Addr :
        owner[a] # Nobody /\ table[a] \notin {Nobody, Self, owner[a]}
            => a \in left \/ \E r \in Reqs : req[r].pc = "forget" /\ req[r].addr = a

\* Preferences an account saved for an address it holds are changed only by its
\* own requests, by a direct session, or by a request that settled on the
\* address before it changed hands: somebody else's Forget, late.
OwnPrefsStand ==
    [][\A a \in Addr :
          owner[a] \in Users /\ table[a] = owner[a] /\ table'[a] # table[a]
              => \E r \in Reqs : /\ req[r].addr = a
                                 /\ req[r].pc \in {"opened", "forget"}
                                 /\ req[r].who \in {owner[a], Self} \/ req[r].lost]_vars

\* "The cache is invalidated on write": once the writers have finished, what
\* is read is what is stored, unless the last Load failed or was overtaken by
\* a write between its SELECT and its publishing.
CacheCurrent ==
    cache # table => stale \/ \E r \in Reqs : req[r].pc \in {"wrote", "read"}
=============================================================================
