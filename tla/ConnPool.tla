------------------------------ MODULE ConnPool ------------------------------
(***************************************************************************)
(* The IMAP connection pool of src/src/mail.go: a map from mail account to *)
(* pooledConn behind Pool.mu, and one mutex per pooledConn that a request  *)
(* holds for the whole of its IMAP operation.                              *)
(*                                                                         *)
(* Goroutines that meet here:                                              *)
(*   Requests   HTTP handlers: read the mailbox's row, then withConn,      *)
(*              several times over with the credentials read once;         *)
(*   Editors    the mailbox form: write or delete the row, then Pool.Drop; *)
(*   Reaper     the goroutine NewPool starts.                              *)
(* The mail server may hang up without notice, and time passes.            *)
(*                                                                         *)
(* Pool.mu is held across steps by the reaper alone, which logs out of     *)
(* idle connections with the map locked.  Every other critical section     *)
(* under it touches memory only and is one step that needs it free.        *)
(*                                                                         *)
(* A pooledConn is a member of Entries.  One that nothing refers to is     *)
(* garbage and may stand for the next one allocated, so Entries bounds how *)
(* many are alive together, not how many are ever made.                    *)
(***************************************************************************)
EXTENDS Naturals

CONSTANTS
  Accounts,    \* mail account ids
  Requests,    \* request goroutines
  Editors,     \* goroutines serving the mailbox form
  Reaper,      \* the reaper goroutine
  Entries,     \* pooledConn objects
  Hung,        \* accounts whose mail server may stop answering
  None,        \* nil, no account, an unlocked mutex
  MaxGen       \* how often a mailbox's row is rewritten (model bound)

Proc == Requests \cup Editors \cup {Reaper}

ASSUME ProcAssumption ==
  /\ Reaper \notin Requests \cup Editors
  /\ Requests \cap Editors = {}
ASSUME NoneAssumption == None \notin Proc \cup Entries \cup Accounts
ASSUME BoundAssumption == MaxGen \in Nat /\ Hung \subseteq Accounts

VARIABLES
  poolMu,       \* who holds Pool.mu between two steps
  conns,        \* Pool.conns: account -> entry
  provisioned,  \* Pool.provisioned: accounts whose folders were checked
  connMu,       \* who holds each pooledConn.mu
  client,       \* pooledConn.client, and what became of its socket
  idle,         \* lastUsed is over connIdleTimeout ago (the zero time is)
  auth,         \* the generation of the row the client logged in with
  stored, gone, \* mailbox rows: their generation; those deleted
  pc,           \* where each goroutine is
  acct, ent,    \* its account and its *pooledConn
  cred,         \* the generation of the row it read or wrote
  todo,         \* accounts the reaper has still to visit in this pass
  late,         \* history: entries a request locked after they left the map
  dropped,      \* history: newest generation whose Drop has returned
  floor,        \* history: dropped[acct], when the request read the row
  overlap       \* history: accounts dropped under a request with an older row

poolVars == <<poolMu, conns, provisioned>>
connVars == <<connMu, client, idle, auth>>
rowVars  == <<stored, gone>>
procVars == <<pc, acct, ent, cred, todo>>
history  == <<late, dropped, floor, overlap>>
vars == <<poolVars, connVars, rowVars, procVars, history>>

\* "dead": the server hung up and nobody has noticed.  "closed": closed by
\* this process but not set to nil, which is how reap leaves it.
ClientState == {"nil", "open", "dead", "closed"}

RequestPC == {"idle", "entry", "lock", "check", "dial", "provCheck",
              "provList", "provMark", "fn", "returned"}
EditorPC  == {"idle", "take", "dropLock", "dropClose"}
ReaperPC  == {"sleep", "scan", "close"}

Pooled     == {conns[a] : a \in Accounts} \ {None}
Referenced == {ent[p] : p \in Proc} \ {None}
\* A socket keeps its entry alive until the other end hangs up.
Garbage    == {e \in Entries \ (Pooled \cup Referenced) : client[e] # "open"}

TypeOK ==
  /\ poolMu \in {None, Reaper}
  /\ conns \in [Accounts -> Entries \cup {None}]
  /\ provisioned \in SUBSET Accounts
  /\ connMu \in [Entries -> Proc \cup {None}]
  /\ client \in [Entries -> ClientState]
  /\ idle \in [Entries -> BOOLEAN]
  /\ auth \in [Entries -> Nat]
  /\ stored \in [Accounts -> Nat] /\ gone \in SUBSET Accounts
  /\ pc \in [Proc -> RequestPC \cup EditorPC \cup ReaperPC]
  /\ \A r \in Requests : pc[r] \in RequestPC
  /\ \A d \in Editors : pc[d] \in EditorPC
  /\ pc[Reaper] \in ReaperPC
  /\ acct \in [Proc -> Accounts \cup {None}]
  /\ ent \in [Proc -> Entries \cup {None}]
  /\ cred \in [Proc -> Nat]
  /\ todo \in SUBSET Accounts
  /\ late \in SUBSET Entries
  /\ dropped \in [Accounts -> Nat]
  /\ floor \in [Requests -> Nat]
  /\ overlap \in SUBSET Accounts

Init ==
  /\ poolMu = None
  /\ conns = [a \in Accounts |-> None]
  /\ connMu = [e \in Entries |-> None]
  /\ client = [e \in Entries |-> "nil"]
  /\ idle = [e \in Entries |-> TRUE]
  /\ auth = [e \in Entries |-> 0]
  /\ stored = [a \in Accounts |-> 0]
  /\ pc = [p \in Proc |-> IF p = Reaper THEN "sleep" ELSE "idle"]
  /\ acct = [p \in Proc |-> None]
  /\ ent = [p \in Proc |-> None]
  /\ cred = [p \in Proc |-> 0]
  /\ dropped = [a \in Accounts |-> 0]
  /\ floor = [r \in Requests |-> 0]
  /\ provisioned = {} /\ gone = {} /\ todo = {} /\ late = {} /\ overlap = {}

At(p, l)   == pc[p] = l
Goto(p, l) == pc' = [pc EXCEPT ![p] = l]

\* What mu.Lock waits for.  (Mutant: no mutex.)
NoMutex(e)  == TRUE
Unlocked(e) == connMu[e] = None

-----------------------------------------------------------------------------
(* A request.  withConn is the run of steps from "entry" to "returned".     *)

\* accountCredentials: the row is read before withConn is called.
Begin(r, a) ==
  /\ At(r, "idle") /\ a \notin gone
  /\ acct' = [acct EXCEPT ![r] = a]
  /\ cred' = [cred EXCEPT ![r] = stored[a]]
  /\ floor' = [floor EXCEPT ![r] = dropped[a]]
  /\ Goto(r, "entry")
  /\ UNCHANGED <<poolVars, connVars, rowVars, ent, todo, late, dropped, overlap>>

\* Pool.mu as entry leaves it: the deferred Unlock has run.
EntryMutex(r) == poolMu

\* entry: the account's pooledConn, made if the map has none.
Entry(r) ==
  /\ At(r, "entry") /\ poolMu = None
  /\ \/ /\ conns[acct[r]] # None
        /\ ent' = [ent EXCEPT ![r] = conns[acct[r]]]
        /\ UNCHANGED <<conns, client, idle, auth, late>>
     \/ /\ conns[acct[r]] = None
        /\ \E e \in Garbage :
             /\ conns' = [conns EXCEPT ![acct[r]] = e]
             /\ ent' = [ent EXCEPT ![r] = e]
             /\ client' = [client EXCEPT ![e] = "nil"]
             /\ idle' = [idle EXCEPT ![e] = TRUE]
             /\ auth' = [auth EXCEPT ![e] = 0]
             /\ late' = late \ {e}
  /\ poolMu' = EntryMutex(r)
  /\ Goto(r, "lock")
  /\ UNCHANGED <<provisioned, connMu, rowVars, acct, cred, todo, dropped, floor,
                 overlap>>

Lock(r) ==
  /\ At(r, "lock") /\ Unlocked(ent[r])
  /\ connMu' = [connMu EXCEPT ![ent[r]] = r]
  /\ late' = IF conns[acct[r]] = ent[r] THEN late ELSE late \cup {ent[r]}
  /\ Goto(r, "check")
  /\ UNCHANGED <<poolVars, client, idle, auth, rowVars, acct, ent, cred, todo,
                 dropped, floor, overlap>>

\* lastUsed is stamped and fn begins.
StartUse(r) ==
  /\ idle' = [idle EXCEPT ![ent[r]] = FALSE]
  /\ Goto(r, "fn")

\* The client is closed and set to nil.
Discard(e) ==
  /\ client' = [client EXCEPT ![e] = "nil"]
  /\ auth' = [auth EXCEPT ![e] = 0]

\* The NOOP that proves a pooled connection alive.
Check(r) ==
  /\ At(r, "check")
  /\ \/ client[ent[r]] = "open" /\ StartUse(r) /\ UNCHANGED <<client, auth>>
     \/ client[ent[r]] # "open" /\ Discard(ent[r]) /\ Goto(r, "dial")
        /\ UNCHANGED idle
  /\ UNCHANGED <<poolVars, connMu, rowVars, acct, ent, cred, todo, history>>

\* Leaving withConn: the deferred Unlock, and the local pointer is gone.
Return(r) ==
  /\ connMu' = [connMu EXCEPT ![ent[r]] = None]
  /\ ent' = [ent EXCEPT ![r] = None]
  /\ Goto(r, "returned")

Dial(r) ==
  /\ At(r, "dial")
  /\ \/ /\ client' = [client EXCEPT ![ent[r]] = "open"]
        /\ auth' = [auth EXCEPT ![ent[r]] = cred[r]]
        /\ Goto(r, "provCheck")
        /\ UNCHANGED <<connMu, ent>>
     \/ Return(r) /\ UNCHANGED <<client, auth>>
  /\ UNCHANGED <<poolVars, idle, rowVars, acct, cred, todo, history>>

\* ensureStandardFolders: Pool.mu twice, around a LIST and some CREATEs.  A
\* LIST that fails ends it unrecorded; a CREATE that fails is only logged.
ProvisionCheck(r) ==
  /\ At(r, "provCheck") /\ poolMu = None
  /\ \/ acct[r] \in provisioned /\ StartUse(r)
     \/ acct[r] \notin provisioned /\ Goto(r, "provList") /\ UNCHANGED idle
  /\ UNCHANGED <<poolVars, connMu, client, auth, rowVars, acct, ent, cred, todo,
                 history>>

ProvisionList(r) ==
  /\ At(r, "provList")
  /\ StartUse(r) \/ (Goto(r, "provMark") /\ UNCHANGED idle)
  /\ UNCHANGED <<poolVars, connMu, client, auth, rowVars, acct, ent, cred, todo,
                 history>>

ProvisionMark(r) ==
  /\ At(r, "provMark") /\ poolMu = None
  /\ provisioned' = provisioned \cup {acct[r]}
  /\ StartUse(r)
  /\ UNCHANGED <<poolMu, conns, connMu, client, auth, rowVars, acct, ent, cred,
                 todo, history>>

\* fn returned and lastUsed is stamped again.  A connection error discards the
\* client; isConnectionError matches by text, so a dead socket can be kept.
EndUse(r) ==
  /\ At(r, "fn")
  /\ idle' = [idle EXCEPT ![ent[r]] = FALSE]
  /\ Discard(ent[r]) \/ UNCHANGED <<client, auth>>
  /\ Return(r)
  /\ UNCHANGED <<poolVars, rowVars, acct, cred, todo, history>>

\* A handler that needs a second operation calls withConn again with the
\* account and password it already has.
Again(r) ==
  /\ At(r, "returned") /\ Goto(r, "entry")
  /\ UNCHANGED <<poolVars, connVars, rowVars, acct, ent, cred, todo, history>>

Finish(r) ==
  /\ At(r, "returned") /\ Goto(r, "idle")
  /\ acct' = [acct EXCEPT ![r] = None]
  /\ cred' = [cred EXCEPT ![r] = 0]
  /\ floor' = [floor EXCEPT ![r] = 0]
  /\ UNCHANGED <<poolVars, connVars, rowVars, ent, todo, late, dropped, overlap>>

-----------------------------------------------------------------------------
(* The mailbox form: the row first, then Drop.                             *)

\* handleMailboxesSave (UpdateMailAccount) or handleMailboxesDelete.
WriteRow(d, a) ==
  /\ At(d, "idle") /\ a \notin gone
  /\ \/ /\ stored[a] < MaxGen
        /\ stored' = [stored EXCEPT ![a] = @ + 1]
        /\ UNCHANGED gone
     \/ gone' = gone \cup {a} /\ UNCHANGED stored
  /\ acct' = [acct EXCEPT ![d] = a]
  /\ cred' = [cred EXCEPT ![d] = stored'[a]]
  /\ Goto(d, "take")
  /\ UNCHANGED <<poolVars, connVars, ent, todo, history>>

\* Drop has returned.
Dropped(d) ==
  /\ Goto(d, "idle")
  /\ dropped' = [dropped EXCEPT ![acct[d]] = IF cred[d] > @ THEN cred[d] ELSE @]
  /\ acct' = [acct EXCEPT ![d] = None]
  /\ cred' = [cred EXCEPT ![d] = 0]

\* What Drop takes out of the map.  (Mutant: it leaves a busy one alone.)
DropsIfFree(a) == IF conns[a] # None /\ connMu[conns[a]] # None
                  THEN None ELSE conns[a]
Drops(a)       == conns[a]

\* Drop under Pool.mu.
Take(d) ==
  /\ At(d, "take") /\ poolMu = None
  /\ overlap' = IF \E r \in Requests : acct[r] = acct[d] /\ cred[r] < cred[d]
                THEN overlap \cup {acct[d]} ELSE overlap
  /\ \/ /\ Drops(acct[d]) = None
        /\ Dropped(d)
        /\ UNCHANGED <<conns, ent>>
     \/ /\ Drops(acct[d]) # None
        /\ conns' = [conns EXCEPT ![acct[d]] = None]
        /\ ent' = [ent EXCEPT ![d] = Drops(acct[d])]
        /\ Goto(d, "dropLock")
        /\ UNCHANGED <<acct, cred, dropped>>
  /\ UNCHANGED <<poolMu, provisioned, connVars, rowVars, todo, late, floor>>

DropLock(d) ==
  /\ At(d, "dropLock") /\ Unlocked(ent[d])
  /\ connMu' = [connMu EXCEPT ![ent[d]] = d]
  /\ Goto(d, "dropClose")
  /\ UNCHANGED <<poolVars, client, idle, auth, rowVars, acct, ent, cred, todo,
                 history>>

\* How Drop leaves the client.  (Mutant: forgotten, not closed.)
OnlyForgotten(e) == UNCHANGED <<client, auth>>
LogOut(e)        == Discard(e)

DropClose(d) ==
  /\ At(d, "dropClose")
  /\ LogOut(ent[d])
  /\ connMu' = [connMu EXCEPT ![ent[d]] = None]
  /\ ent' = [ent EXCEPT ![d] = None]
  /\ Dropped(d)
  /\ UNCHANGED <<poolVars, idle, rowVars, todo, late, floor, overlap>>

-----------------------------------------------------------------------------
(* The reaper: one pass a minute, all of it with Pool.mu held.             *)

\* What a pass visits.  (Mutant: accounts whose folders were checked.)
ProvisionedOnly == {a \in provisioned : conns[a] # None}
InMap           == {a \in Accounts : conns[a] # None}

Wake ==
  /\ At(Reaper, "sleep") /\ poolMu = None
  /\ poolMu' = Reaper
  /\ todo' = InMap
  /\ Goto(Reaper, "scan")
  /\ UNCHANGED <<conns, provisioned, connVars, rowVars, acct, ent, cred, history>>

\* TryLock gives up on a locked entry.  (Mutant: Lock, which waits.)
NeverGivesUp(e) == FALSE
Busy(e)         == connMu[e] # None

Skip(a) ==
  /\ At(Reaper, "scan") /\ a \in todo
  /\ Busy(conns[a]) \/ ~idle[conns[a]]
  /\ todo' = todo \ {a}
  /\ UNCHANGED <<poolVars, connVars, rowVars, pc, acct, ent, cred, history>>

\* TryLock succeeded and the entry is idle.
LockIdle(a) ==
  /\ At(Reaper, "scan") /\ a \in todo
  /\ Unlocked(conns[a]) /\ idle[conns[a]]
  /\ connMu' = [connMu EXCEPT ![conns[a]] = Reaper]
  /\ acct' = [acct EXCEPT ![Reaper] = a]
  /\ ent' = [ent EXCEPT ![Reaper] = conns[a]]
  /\ todo' = todo \ {a}
  /\ Goto(Reaper, "close")
  /\ UNCHANGED <<poolVars, client, idle, auth, rowVars, cred, history>>

\* Log out and close, without setting the client to nil; forget; unlock.
Reap ==
  /\ At(Reaper, "close")
  /\ client' = [client EXCEPT ![ent[Reaper]] = IF @ = "nil" THEN @ ELSE "closed"]
  /\ connMu' = [connMu EXCEPT ![ent[Reaper]] = None]
  /\ conns' = [conns EXCEPT ![acct[Reaper]] = None]
  /\ ent' = [ent EXCEPT ![Reaper] = None]
  /\ acct' = [acct EXCEPT ![Reaper] = None]
  /\ Goto(Reaper, "scan")
  /\ UNCHANGED <<poolMu, provisioned, idle, auth, rowVars, cred, todo, history>>

Sleep ==
  /\ At(Reaper, "scan") /\ todo = {}
  /\ poolMu' = None
  /\ Goto(Reaper, "sleep")
  /\ UNCHANGED <<conns, provisioned, connVars, rowVars, acct, ent, cred, todo,
                 history>>

-----------------------------------------------------------------------------
(* The server and the clock.                                               *)

HangUp(e) ==
  /\ client[e] = "open"
  /\ client' = [client EXCEPT ![e] = "dead"]
  /\ UNCHANGED <<poolVars, connMu, idle, auth, rowVars, procVars, history>>

\* connIdleTimeout passes without the entry being used.
Age(e) ==
  /\ ~idle[e]
  /\ idle' = [idle EXCEPT ![e] = TRUE]
  /\ UNCHANGED <<poolVars, connMu, client, auth, rowVars, procVars, history>>

-----------------------------------------------------------------------------
\* Steps that wait for a mutex, and steps that wait for the mail server.
Local(r)  == Entry(r) \/ Lock(r) \/ ProvisionCheck(r) \/ ProvisionMark(r)
Remote(r) == Check(r) \/ Dial(r) \/ ProvisionList(r) \/ EndUse(r)

Request(r) ==
  \/ \E a \in Accounts : Begin(r, a)
  \/ Local(r) \/ Remote(r) \/ Again(r) \/ Finish(r)

Editor(d) ==
  \/ \E a \in Accounts : WriteRow(d, a)
  \/ Take(d) \/ DropLock(d) \/ DropClose(d)

Visit == \E a \in Accounts : Skip(a) \/ LockIdle(a)

Next ==
  \/ \E r \in Requests : Request(r)
  \/ \E d \in Editors : Editor(d)
  \/ Wake \/ Visit \/ Reap \/ Sleep
  \/ \E e \in Entries : HangUp(e) \/ Age(e)

Spec == Init /\ [][Next]_vars

-----------------------------------------------------------------------------
(* Fairness.  Goroutines run; sync.Mutex hands a contended lock to whoever *)
(* has waited a millisecond for it, hence SF on the steps that take one;   *)
(* servers outside Hung answer (nothing in src/src bounds the wait for an  *)
(* answer); time passes; a server logs out a session nobody speaks on.     *)

Orphan(e) == client[e] = "open" /\ e \notin Pooled \cup Referenced

\* The server it has to hear from is not answering.
Stuck(p) == acct[p] \in Hung /\ (At(p, "dial") \/ client[ent[p]] = "open")

Fairness ==
  /\ \A r \in Requests : SF_vars(Local(r)) /\ WF_vars(Remote(r) /\ ~Stuck(r))
  /\ \A d \in Editors : /\ SF_vars(Take(d) \/ DropLock(d))
                        /\ WF_vars(DropClose(d) /\ ~Stuck(d))
  /\ WF_vars(Wake) /\ WF_vars(Visit) /\ WF_vars(Sleep)
  /\ WF_vars(Reap /\ ~Stuck(Reaper))
  /\ \A e \in Entries : WF_vars(Age(e)) /\ WF_vars(HangUp(e) /\ Orphan(e))

FairSpec == Spec /\ Fairness

-----------------------------------------------------------------------------
(* Properties.                                                             *)

\* Between Lock and Unlock on a pooledConn.
Holding(p) == pc[p] \in {"check", "dial", "provCheck", "provList", "provMark",
                         "fn", "dropClose", "close"}

\* "Every use holds the account's mutex for the whole operation": no two
\* goroutines, whatever their kind, are on one connection at once.
ExclusiveUse ==
  \A p, q \in Proc :
    (Holding(p) /\ Holding(q) /\ ent[p] = ent[q]) => p = q

\* While fn runs its client is not nil and nobody here has closed it: only
\* the server can take it away.  Neither the reaper nor Drop cuts a request
\* short.
NeverCutShort ==
  \A r \in Requests : pc[r] \in {"provCheck", "provList", "provMark", "fn"}
                        => client[ent[r]] \in {"open", "dead"}

\* A request never works on a connection to a mailbox that is not its own:
\* two accounts never share a pooledConn, and what a request holds is, if
\* pooled at all, pooled under its own account.
OwnConnection ==
  /\ \A a, b \in Accounts : (conns[a] = conns[b] /\ conns[a] # None) => a = b
  /\ \A r \in Requests, a \in Accounts :
       (ent[r] # None /\ conns[a] = ent[r]) => a = acct[r]

\* Whoever takes an entry out of the map closes its connection: the only
\* authenticated sockets nothing can reach are on entries some request had
\* fetched before, and locked after, they left the map.
OrphansAreLate == \A e \in Entries : Orphan(e) => e \in late

\* A request that read the row after a Drop returned works with a session
\* opened under the row of that Drop or a later one.
FreshSession(r) == pc[r] = "fn" => auth[ent[r]] >= floor[r]

\* So it is, unless a request that had read an older row was under way as
\* Drop took the entry: that one may dial again under the old row.
StaleOnlyByOverlap ==
  \A r \in Requests : FreshSession(r) \/ acct[r] \in overlap

\* Locks are taken pooledConn first, Pool.mu second, except by the reaper,
\* which takes Pool.mu first and must therefore never wait: every call of
\* withConn returns and every Drop does, when the servers answer;
CallsReturn ==
  /\ \A r \in Requests : pc[r] = "entry" ~> pc[r] = "returned"
  /\ \A d \in Editors : pc[d] = "take" ~> pc[d] = "idle"

\* and a pooled connection is closed unless somebody uses it again.
IdleIsClosed ==
  \A e \in Entries :
    (client[e] = "open" /\ e \in Pooled /\ connMu[e] = None)
      ~> (client[e] # "open" \/ connMu[e] \in Requests)
=============================================================================
