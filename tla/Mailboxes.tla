------------------------------ MODULE Mailboxes ------------------------------
(***************************************************************************)
(* The mail_accounts table and everybody who writes it at once: account    *)
(* holders attaching, editing and detaching mailboxes, people signing in   *)
(* with the address itself, those sessions' second factor, and the         *)
(* superuser removing an account.                                          *)
(*                                                                         *)
(* There is one database connection (db.go:169), so a statement, or a      *)
(* transaction, is one step.  A handler that issues several is several:    *)
(* attachMailbox looks the address up and then claims or creates the row,  *)
(* a direct sign-in checks, looks up, inserts, dials and asks for the      *)
(* second factor, and a second factor is stored by a SELECT of the owner   *)
(* followed by an UPDATE that no longer names it.                          *)
(*                                                                         *)
(* What the handlers do besides, the pool's connections being dropped and  *)
(* the mailbox's preferences forgotten, is in ConnPool and Preferences.    *)
(***************************************************************************)
EXTENDS Naturals, FiniteSets

CONSTANTS
    Addr,       \* mailbox addresses on served domains
    Users,      \* application accounts
    Tabs,       \* requests of account holders that may run at once
    Directs,    \* browsers signing in with an address and its password
    MaxId,      \* bound: rows ever inserted (AUTOINCREMENT, never reused)
    Nobody,     \* NULL: no owner, no secret
    Self        \* in OwnerOf: a mailbox that signs in as itself

ASSUME NobodyAssumption == Nobody \notin Users \union Directs
ASSUME SelfAssumption == Self \notin Users \union {Nobody}
ASSUME MaxIdAssumption == MaxId \in Nat

VARIABLES
    rows,       \* mail_accounts: account_id -> row, over the ids present
    next,       \* the next account_id
    accounts,   \* app_users
    tab,        \* each account holder's request
    dir,        \* each direct sign-in, and the session it opened
    raced       \* history: rows claimed under a second factor being written

vars == <<rows, next, accounts, tab, dir, raced>>

Ids == 1 .. MaxId

Row == [addr : Addr, owner : Users \union {Nobody}, pw : BOOLEAN,
        dflt : BOOLEAN, totp : Directs \union {Nobody}]

TabStep == {"idle", "proved", "claim", "create"}
Tab == [pc : TabStep, user : Users \union {Nobody},
        addr : Addr \union {Nobody}, id : Ids \union {0}]

DirStep == {"out", "checked", "insert", "found", "put", "in", "set", "write"}
Dir == [pc : DirStep, addr : Addr \union {Nobody}, id : Ids \union {0},
        secret : Directs \union {Nobody},
        overtaken : BOOLEAN,    \* history: the row was claimed under it
        late : BOOLEAN]         \* history: another secret went in meanwhile

TypeOK ==
    /\ \E I \in SUBSET Ids : rows \in [I -> Row]
    /\ next \in 1 .. MaxId + 1
    /\ \A i \in DOMAIN rows : i < next
    /\ accounts \subseteq Users
    /\ tab \in [Tabs -> Tab]
    /\ dir \in [Directs -> Dir]
    /\ raced \subseteq Ids

Idle == [pc |-> "idle", user |-> Nobody, addr |-> Nobody, id |-> 0]
Out == [pc |-> "out", addr |-> Nobody, id |-> 0, secret |-> Nobody,
        overtaken |-> FALSE, late |-> FALSE]

-----------------------------------------------------------------------------
(* Reading the table. *)

Live == DOMAIN rows

\* FindMailboxByAddress: the ids of the rows for an address.  The unique index
\* on email keeps this to one (Free).
Holding(a) == {i \in Live : rows[i].addr = a}

\* scanMailAccount's HasOwner, for whatever row an address has.  A slip: one
\* that cannot tell NULL from an owner.
NeverOwned(a) == FALSE
HasOwner(a) == \E i \in Holding(a) : rows[i].owner # Nobody

\* What the unique index on email lets in.
Free(a) == Holding(a) = {}

\* Whether a self-owned mailbox has a second factor on.  A slip: not asking.
ReadsOff(i) == FALSE
FactorOn(i) == i \in Live /\ rows[i].owner = Nobody /\ rows[i].totp # Nobody

\* ListMailAccounts: an account's mailboxes.
Of(u) == {i \in Live : rows[i].owner = u}

\* Every mailbox the app creates has sort_order 0, so the order of a list is
\* the order of the ids.
First(S) == CHOOSE i \in S : \A j \in S : i <= j

\* A session a direct sign-in has opened and not ended.
SignedIn(d) == dir[d].pc \in {"put", "in", "set", "write"}

-----------------------------------------------------------------------------
(* Writing the table. *)

\* Clear is_default on an account's rows other than `keep`.
WithoutDefaults(t, u, keep) ==
    [i \in DOMAIN t |-> IF t[i].owner = u /\ i \notin keep
                        THEN [t[i] EXCEPT !.dflt = FALSE] ELSE t[i]]

WithRow(t, i, r) == [j \in DOMAIN t \union {i} |-> IF j = i THEN r ELSE t[j]]

Without(t, I) == [j \in DOMAIN t \ I |-> t[j]]

-----------------------------------------------------------------------------
(* Attaching a mailbox. *)

\* The account holder posts the form and the mail server accepts the password
\* (attachMailbox's dialAndLogin).  A refusal changes nothing.
Prove(t, u, a) ==
    /\ tab[t].pc = "idle" /\ u \in accounts
    /\ tab' = [tab EXCEPT ![t] = [pc |-> "proved", user |-> u, addr |-> a, id |-> 0]]
    /\ UNCHANGED <<rows, next, accounts, dir, raced>>

\* FindMailboxByAddress: somebody's, nobody's, or not here at all.
Find(t) ==
    /\ tab[t].pc = "proved"
    /\ \/ /\ HasOwner(tab[t].addr)
          /\ tab' = [tab EXCEPT ![t] = Idle]
       \/ /\ ~ HasOwner(tab[t].addr)
          /\ \E i \in Holding(tab[t].addr) :
                tab' = [tab EXCEPT ![t].pc = "claim", ![t].id = i]
       \/ /\ Holding(tab[t].addr) = {}
          /\ tab' = [tab EXCEPT ![t].pc = "create"]
    /\ UNCHANGED <<rows, next, accounts, dir, raced>>

\* What ClaimMailbox's WHERE matches, and the owner SetMailboxTOTP accepts.  A
\* slip: the WHERE names the row only.
StillThere(i) == i \in Live
Unclaimed(i) == i \in Live /\ rows[i].owner = Nobody

\* What its SET leaves: is_default stays as the self-owned row had it.  A slip:
\* so does the second factor.
ClaimedAsIs(r, u) == [r EXCEPT !.owner = u, !.pw = TRUE]
Claimed(r, u) == [r EXCEPT !.owner = u, !.pw = TRUE, !.totp = Nobody]

\* The UPDATE takes the row over, or fails: it matches nothing when the row is
\* gone or somebody else claimed it first, the foreign key refuses a deleted
\* account, and any statement may report an error.
Claim(t) ==
    LET i == tab[t].id
        u == tab[t].user
        writing == \E d \in Directs : dir[d].pc = "write" /\ dir[d].id = i
    IN  /\ tab[t].pc = "claim"
        /\ tab' = [tab EXCEPT ![t] = Idle]
        /\ \/ /\ Unclaimed(i) /\ u \in accounts
              /\ rows' = [rows EXCEPT ![i] = Claimed(@, u)]
              /\ dir' = [d \in Directs |->
                            [dir[d] EXCEPT !.overtaken = @ \/ dir[d].id = i]]
              /\ raced' = IF writing THEN raced \union {i} ELSE raced
           \/ UNCHANGED <<rows, dir, raced>>
        /\ UNCHANGED <<next, accounts>>

\* A default is forced on the first mailbox, and clears every other one.
Created(u, a, ticked) ==
    LET dflt == ticked \/ Of(u) = {}
        cleared == IF dflt THEN WithoutDefaults(rows, u, {}) ELSE rows
    IN  WithRow(cleared, next, [addr |-> a, owner |-> u, pw |-> TRUE,
                                dflt |-> dflt, totp |-> Nobody])

\* CreateMailAccount: one transaction, undone when the address has a row by
\* now (ErrEmailAttached), the account is gone, or a statement fails.
Create(t) ==
    LET u == tab[t].user
        a == tab[t].addr
    IN  /\ tab[t].pc = "create"
        /\ tab' = [tab EXCEPT ![t] = Idle]
        /\ \/ \E ticked \in BOOLEAN :
                 /\ Free(a) /\ u \in accounts /\ next \in Ids
                 /\ rows' = Created(u, a, ticked)
                 /\ next' = next + 1
           \/ UNCHANGED <<rows, next>>
        /\ UNCHANGED <<accounts, dir, raced>>

-----------------------------------------------------------------------------
(* Editing and detaching one. *)

Edited(u, i, a, ticked) ==
    LET cleared == IF ticked THEN WithoutDefaults(rows, u, {i}) ELSE rows
    IN  [cleared EXCEPT ![i].addr = a, ![i].dflt = ticked]

\* UpdateMailAccount, one transaction scoped to the owner: the address may
\* change, and is_default is written from the form, where an absent box reads
\* as unticked.
Edit(t, u, i, a, ticked) ==
    /\ tab[t].pc = "idle" /\ u \in accounts
    /\ i \in Of(u)
    /\ a = rows[i].addr \/ Free(a)
    /\ rows' = Edited(u, i, a, ticked)
    /\ UNCHANGED <<next, accounts, tab, dir, raced>>

\* The row goes, and if it was the default the first of the others becomes it.
\* A slip: only the row goes.
DetachedOnly(u, i) == Without(rows, {i})
Detached(u, i) ==
    LET others == Of(u) \ {i}
        rest == Without(rows, {i})
    IN  IF rows[i].dflt /\ others # {}
        THEN [rest EXCEPT ![First(others)].dflt = TRUE] ELSE rest

\* DeleteMailAccount, one transaction scoped to the owner.
Detach(t, u, i) ==
    /\ tab[t].pc = "idle" /\ u \in accounts
    /\ i \in Of(u)
    /\ rows' = Detached(u, i)
    /\ UNCHANGED <<next, accounts, tab, dir, raced>>

\* DeleteAppUser: the foreign key takes the account's mailboxes along.
RemoveAccount(u) ==
    /\ u \in accounts
    /\ accounts' = accounts \ {u}
    /\ rows' = Without(rows, Of(u))
    /\ UNCHANGED <<next, tab, dir, raced>>

-----------------------------------------------------------------------------
(* Signing in with the address itself. *)

\* MailboxIsAttached: an owned address is refused, and an error reading the
\* table is not a refusal.
CheckAttached(d, a) ==
    /\ dir[d].pc = "out"
    /\ \E failed \in BOOLEAN :
          failed \/ ~ HasOwner(a)
    /\ dir' = [dir EXCEPT ![d].pc = "checked", ![d].addr = a]
    /\ UNCHANGED <<rows, next, accounts, tab, raced>>

\* SelfOwnedMailbox reads the row: owned is refused, unowned is used, absent
\* is inserted.
LookUp(d) ==
    /\ dir[d].pc = "checked"
    /\ \/ /\ HasOwner(dir[d].addr)
          /\ dir' = [dir EXCEPT ![d] = Out]
       \/ /\ ~ HasOwner(dir[d].addr)
          /\ \E i \in Holding(dir[d].addr) :
                dir' = [dir EXCEPT ![d].pc = "found", ![d].id = i]
       \/ /\ Holding(dir[d].addr) = {}
          /\ dir' = [dir EXCEPT ![d].pc = "insert"]
    /\ UNCHANGED <<rows, next, accounts, tab, raced>>

\* The row a direct sign-in makes.
SelfOwned(a) == [addr |-> a, owner |-> Nobody, pw |-> FALSE,
                 dflt |-> TRUE, totp |-> Nobody]

\* The INSERT, which may fail and which the unique index refuses when the
\* address has a row by now.
Insert(d) ==
    /\ dir[d].pc = "insert"
    /\ \/ /\ Free(dir[d].addr) /\ next \in Ids
          /\ rows' = WithRow(rows, next, SelfOwned(dir[d].addr))
          /\ next' = next + 1
          /\ dir' = [dir EXCEPT ![d].pc = "found", ![d].id = next]
       \/ dir' = [dir EXCEPT ![d] = Out] /\ UNCHANGED <<rows, next>>
    /\ UNCHANGED <<accounts, tab, raced>>

\* The mail server accepts the password and the session goes in the store, or
\* it does not and the sign-in ends.
Dial(d) ==
    /\ dir[d].pc = "found"
    /\ \/ dir' = [dir EXCEPT ![d].pc = "put"]
       \/ dir' = [dir EXCEPT ![d] = Out]
    /\ UNCHANGED <<rows, next, accounts, tab, raced>>

\* directTOTPSecret: what a direct sign-in has to answer for an address.
SecretOf(a) == {rows[i].totp : i \in {j \in Holding(a) : rows[j].owner = Nobody}}
               \ {Nobody}

\* checkDirectTOTP.  With a secret the code may be right, or the session just
\* opened is ended: no code, a wrong one, a secret that will not open.
Factor(d) ==
    /\ dir[d].pc = "put"
    /\ \/ dir' = [dir EXCEPT ![d].pc = "in"]
       \/ SecretOf(dir[d].addr) # {} /\ dir' = [dir EXCEPT ![d] = Out]
    /\ UNCHANGED <<rows, next, accounts, tab, raced>>

\* Signed out, or expired.
Leave(d) ==
    /\ dir[d].pc = "in"
    /\ dir' = [dir EXCEPT ![d] = Out]
    /\ UNCHANGED <<rows, next, accounts, tab, raced>>

-----------------------------------------------------------------------------
(* A direct session's second factor. *)

\* saveTOTP switching it on: nothing to do when totpFor already reads a secret.
StartEnable(d) ==
    /\ dir[d].pc = "in"
    /\ ~ FactorOn(dir[d].id)
    /\ dir' = [dir EXCEPT ![d].pc = "set", ![d].secret = d, ![d].late = FALSE]
    /\ UNCHANGED <<rows, next, accounts, tab, raced>>

\* saveTOTP switching it off, which reads nothing first.
StartDisable(d) ==
    /\ dir[d].pc = "in"
    /\ dir' = [dir EXCEPT ![d].pc = "set", ![d].secret = Nobody]
    /\ UNCHANGED <<rows, next, accounts, tab, raced>>

\* SetMailboxTOTP reads the owner and refuses a mailbox that has one ...
ReadOwner(d) ==
    /\ dir[d].pc = "set"
    /\ dir' = [dir EXCEPT ![d].pc = IF Unclaimed(dir[d].id) THEN "write" ELSE "in"]
    /\ UNCHANGED <<rows, next, accounts, tab, raced>>

\* ... and then writes by account_id alone.
WriteSecret(d) ==
    LET i == dir[d].id
        under(e) == e # d /\ dir[e].id = i /\ dir[e].pc \in {"set", "write"}
    IN  /\ dir[d].pc = "write"
        /\ rows' = IF i \in Live THEN [rows EXCEPT ![i].totp = dir[d].secret] ELSE rows
        /\ dir' = [e \in Directs |->
                      IF e = d THEN [dir[d] EXCEPT !.pc = "in"]
                      ELSE [dir[e] EXCEPT !.late = @ \/ under(e)]]
        /\ UNCHANGED <<next, accounts, tab, raced>>

-----------------------------------------------------------------------------
Init ==
    /\ rows = <<>>
    /\ next = 1
    /\ accounts = Users
    /\ tab = [t \in Tabs |-> Idle]
    /\ dir = [d \in Directs |-> Out]
    /\ raced = {}

TabNext(t) ==
    \/ \E u \in Users, a \in Addr : Prove(t, u, a)
    \/ \E u \in Users, i \in Ids : Detach(t, u, i)
    \/ \E u \in Users, i \in Ids, a \in Addr, ticked \in BOOLEAN :
          Edit(t, u, i, a, ticked)
    \/ Find(t) \/ Claim(t) \/ Create(t)

DirNext(d) ==
    \/ \E a \in Addr : CheckAttached(d, a)
    \/ LookUp(d) \/ Insert(d) \/ Dial(d) \/ Factor(d) \/ Leave(d)
    \/ StartEnable(d) \/ StartDisable(d) \/ ReadOwner(d) \/ WriteSecret(d)

Next ==
    \/ \E t \in Tabs : TabNext(t)
    \/ \E d \in Directs : DirNext(d)
    \/ \E u \in Users : RemoveAccount(u)

Spec == Init /\ [][Next]_vars

-----------------------------------------------------------------------------
(* Properties. *)

\* Who an address belongs to.
OwnerOf(a) ==
    IF Holding(a) = {} THEN Nobody
    ELSE LET i == CHOOSE j \in Holding(a) : TRUE
         IN  IF rows[i].owner = Nobody THEN Self ELSE rows[i].owner

Promise == INSTANCE Ownership WITH owner <- [a \in Addr |-> OwnerOf(a)]

\* "Who owns this address" has exactly one answer, and it changes only as
\* Ownership says, whatever sign-ins and attaches do between their lookups and
\* their writes: two account holders who both proved the password and both
\* found the row unowned cannot both take it (schema.sql's unique index, and
\* the WHERE of ClaimMailbox, UpdateMailAccount and DeleteMailAccount).
OwnershipKept == Promise!Spec

\* Attaching a mailbox takes its own login away: somebody is signed in with an
\* address an account holds only if the account claimed it under a sign-in
\* that had already looked the row up (MailboxIsAttached, SelfOwnedMailbox).
OneDoorUnlessOvertaken ==
    \A d \in Directs, i \in Live :
        SignedIn(d) /\ rows[i].addr = dir[d].addr /\ rows[i].owner # Nobody
            => dir[d].overtaken

\* A mailbox an account controls holds no second factor of its own, unless a
\* claim landed between SetMailboxTOTP's read of the owner and its write.
NoFactorOnOwned ==
    \A i \in Live : rows[i].owner # Nobody /\ rows[i].totp # Nobody => i \in raced

\* Switching two-factor on never replaces a secret that works, unless the two
\* requests overlapped (saveTOTP: "Already on: do nothing").
WorkingSecretStays ==
    [][\A i \in Live \intersect Live' :
          rows[i].totp # Nobody /\ rows'[i].totp \notin {Nobody, rows[i].totp}
              => \E d \in Directs : dir[d].pc = "write" /\ dir[d].id = i
                                    /\ dir[d].late]_vars

OneDefault(u) == Of(u) # {} => Cardinality({i \in Of(u) : rows[i].dflt}) = 1

\* An account with exactly one default mailbox keeps exactly one, whatever it
\* attaches, edits or detaches and in whatever order.  Two steps are excepted:
\* taking over a self-owned row, which brings its own is_default along
\* (ClaimMailbox), and saving the default mailbox unticked (UpdateMailAccount).
DefaultKept ==
    [][\A u \in Users :
          LET tookOver == \E i \in Live \intersect Live' :
                              rows[i].owner = Nobody /\ rows'[i].owner = u
              unticked == \E i \in Of(u) \intersect Live' :
                              rows[i].dflt /\ ~ rows'[i].dflt
                                  /\ ~ \E j \in Of(u)' : rows'[j].dflt
          IN  OneDefault(u) /\ ~ tookOver /\ ~ unticked => OneDefault(u)']_vars

\* The promise as the code states it: never an account with mailboxes but no
\* default (cmd/mailctl/main.go:763, store.go:648).  The edit form has no
\* default box, so saving any edit of the default mailbox breaks it.
HasDefault ==
    \A u \in Users : Of(u) # {} => \E i \in Of(u) : rows[i].dflt

=============================================================================
