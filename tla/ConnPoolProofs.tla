--------------------------- MODULE ConnPoolProofs ---------------------------
(***************************************************************************)
(* Proofs about ConnPool, for every set of accounts, goroutines and pooled *)
(* connections.  The inductive invariant IInv is a conjunction of named    *)
(* parts; each part has a lemma, with one step per action, that says a     *)
(* step of the pool preserves it.                                          *)
(***************************************************************************)
EXTENDS ConnPool, TLAPS

\* A goroutine knows its account from its first step on, and has a
\* pooledConn in hand exactly while withConn, Drop or reap is working on it.
Placed ==
  /\ \A r \in Requests :
       /\ pc[r] # "idle" => acct[r] \in Accounts
       /\ ent[r] # None <=> pc[r] \notin {"idle", "entry", "returned"}
  /\ \A d \in Editors :
       /\ pc[d] # "idle" => acct[d] \in Accounts
       /\ ent[d] # None <=> pc[d] \in {"dropLock", "dropClose"}
  /\ pc[Reaper] = "close" => acct[Reaper] \in Accounts
  /\ ent[Reaper] # None <=> pc[Reaper] = "close"

\* The reaper has Pool.mu for the whole of a pass, so that what it has yet to
\* visit, and what it is closing, stays in the map.
Pass ==
  /\ poolMu = Reaper <=> pc[Reaper] # "sleep"
  /\ pc[Reaper] = "sleep" => todo = {}
  /\ \A a \in todo : conns[a] # None
  /\ pc[Reaper] = "close"
       => conns[acct[Reaper]] = ent[Reaper] /\ acct[Reaper] \notin todo

Base == TypeOK /\ Placed /\ Pass

\* Whoever is between Lock and Unlock is the recorded holder of the mutex.
Mutual == \A p \in Proc : Holding(p) => connMu[ent[p]] = p

\* An entry outside the map with an open connection, or with a request on it
\* that may yet open one, is in an editor's hand or was locked late.
Tracked ==
  \A e \in Entries :
    (/\ e \notin Pooled /\ e \notin late
     /\ client[e] = "open" \/ \E r \in Requests : Holding(r) /\ ent[r] = e)
      => \E d \in Editors : ent[d] = e

\* No Drop is ahead of the row.
Rows ==
  /\ \A a \in Accounts : dropped[a] <= stored[a]
  /\ \A d \in Editors : pc[d] # "idle" => cred[d] <= stored[acct[d]]

\* Requests with one pooledConn in hand are requests of one account.
Shared ==
  \A r, q \in Requests : (ent[r] # None /\ ent[r] = ent[q]) => acct[r] = acct[q]

Dropping(d, a) == pc[d] \in {"dropLock", "dropClose"} /\ acct[d] = a

\* Until a Drop overtakes a request with an older row, all that is in flight
\* or pooled for an account is at least as new as its last Drop.
Fresh ==
  \A a \in Accounts \ overlap :
    /\ \A r \in Requests : (pc[r] # "idle" /\ acct[r] = a) =>
         /\ floor[r] <= dropped[a] /\ dropped[a] <= cred[r]
         /\ \A d \in Editors : Dropping(d, a) => cred[d] <= cred[r]
         /\ (ent[r] # None /\ client[ent[r]] # "nil")
               => floor[r] <= auth[ent[r]]
    /\ (conns[a] # None /\ client[conns[a]] # "nil") =>
         /\ dropped[a] <= auth[conns[a]]
         /\ \A d \in Editors : Dropping(d, a) => cred[d] <= auth[conns[a]]

IInv ==
  /\ Base /\ Mutual /\ NeverCutShort /\ OwnConnection
  /\ Tracked /\ Rows /\ Shared /\ Fresh

-----------------------------------------------------------------------------

LEMMA InitIInv == Init => IInv
  BY ProcAssumption, NoneAssumption, BoundAssumption
  DEF Init, IInv, Base, TypeOK, Placed, Pass, Mutual, NeverCutShort,
      OwnConnection, Tracked, Rows, Shared, Fresh, Dropping, Holding, Proc,
      RequestPC, EditorPC, ReaperPC, ClientState, Pooled

\* What Placed says of the pointers, as types.
LEMMA InHand ==
  ASSUME Base
  PROVE  /\ \A r \in Requests :
              /\ pc[r] # "idle" => acct[r] \in Accounts
              /\ pc[r] \notin {"idle", "entry", "returned"}
                   => ent[r] \in Entries
         /\ pc[Reaper] = "close"
              => ent[Reaper] \in Entries /\ acct[Reaper] \in Accounts
  BY DEF Base, TypeOK, Placed, Proc

\* Only pointers need care: conns[acct[r]] has a type when acct[r] has.
LEMMA TypeStep == Base /\ [Next]_vars => TypeOK'
<1> SUFFICES ASSUME Base, [Next]_vars PROVE TypeOK'
  OBVIOUS
<1> USE ProcAssumption, NoneAssumption DEF Base, TypeOK, Proc, Placed, Pass,
     RequestPC, EditorPC, ReaperPC, ClientState, At, Goto, poolVars, connVars,
     rowVars, procVars, history
<1>1. ASSUME NEW r \in Requests, NEW a \in Accounts, Begin(r, a) PROVE TypeOK'
  BY <1>1 DEF Begin
<1>2. ASSUME NEW r \in Requests, Entry(r) PROVE TypeOK'
  <2>1. CASE conns[acct[r]] # None
    BY <1>2, <2>1, InHand DEF Entry, EntryMutex
  <2>2. ASSUME NEW e \in Garbage,
               conns' = [conns EXCEPT ![acct[r]] = e],
               ent' = [ent EXCEPT ![r] = e],
               client' = [client EXCEPT ![e] = "nil"],
               idle' = [idle EXCEPT ![e] = TRUE],
               auth' = [auth EXCEPT ![e] = 0],
               late' = late \ {e}
        PROVE  TypeOK'
    BY <1>2, <2>2 DEF Entry, EntryMutex, Garbage
  <2> QED
    BY <1>2, <2>1, <2>2 DEF Entry
<1>3. ASSUME NEW r \in Requests, Lock(r) PROVE TypeOK'
  BY <1>3 DEF Lock, Unlocked
<1>4. ASSUME NEW r \in Requests, Check(r) PROVE TypeOK'
  <2>1. CASE StartUse(r) /\ UNCHANGED <<client, auth>>
    BY <1>4, <2>1, InHand DEF Check, StartUse
  <2>2. CASE Discard(ent[r]) /\ Goto(r, "dial") /\ UNCHANGED idle
    BY <1>4, <2>2, InHand DEF Check, Discard
  <2> QED
    BY <1>4, <2>1, <2>2 DEF Check
<1>5. ASSUME NEW r \in Requests, Dial(r) PROVE TypeOK'
  BY <1>5 DEF Dial, Return
<1>6. ASSUME NEW r \in Requests, ProvisionCheck(r) PROVE TypeOK'
  BY ZenonT(40), <1>6 DEF ProvisionCheck, StartUse
<1>7. ASSUME NEW r \in Requests, ProvisionList(r) PROVE TypeOK'
  <2>1. CASE StartUse(r)
    BY <1>7, <2>1, InHand DEF ProvisionList, StartUse
  <2>2. CASE Goto(r, "provMark") /\ UNCHANGED idle
    BY <1>7, <2>2 DEF ProvisionList
  <2> QED
    BY <1>7, <2>1, <2>2 DEF ProvisionList
<1>8. ASSUME NEW r \in Requests, ProvisionMark(r) PROVE TypeOK'
  BY <1>8 DEF ProvisionMark, StartUse
<1>9. ASSUME NEW r \in Requests, EndUse(r) PROVE TypeOK'
  BY <1>9 DEF EndUse, Discard, Return
<1>10. ASSUME NEW r \in Requests, Again(r) PROVE TypeOK'
  BY <1>10 DEF Again
<1>11. ASSUME NEW r \in Requests, Finish(r) PROVE TypeOK'
  BY <1>11 DEF Finish
<1>12. ASSUME NEW d \in Editors, NEW a \in Accounts, WriteRow(d, a) PROVE
     TypeOK'
  BY <1>12 DEF WriteRow
<1>13. ASSUME NEW d \in Editors, Take(d) PROVE TypeOK'
  BY <1>13 DEF Take, Dropped, Drops
<1>14. ASSUME NEW d \in Editors, DropLock(d) PROVE TypeOK'
  BY <1>14 DEF DropLock, Unlocked
<1>15. ASSUME NEW d \in Editors, DropClose(d) PROVE TypeOK'
  BY <1>15 DEF DropClose, Dropped, LogOut, Discard
<1>16. CASE Wake
  BY <1>16 DEF Wake, InMap
<1>17. ASSUME NEW a \in Accounts, Skip(a) PROVE TypeOK'
  BY <1>17 DEF Skip, Busy
<1>18. ASSUME NEW a \in Accounts, LockIdle(a) PROVE TypeOK'
  BY <1>18 DEF LockIdle, Unlocked
<1>19. CASE Reap
  <2>1. client' \in [Entries -> ClientState]
    BY <1>19, InHand DEF Reap
  <2>2. pc' \in [Proc -> RequestPC \cup EditorPC \cup ReaperPC]
    BY <1>19 DEF Reap
  <2> QED
    BY <1>19, <2>1, <2>2, InHand DEF Reap
<1>20. CASE Sleep
  BY <1>20 DEF Sleep
<1>21. ASSUME NEW e \in Entries, HangUp(e) PROVE TypeOK'
  BY <1>21 DEF HangUp
<1>22. ASSUME NEW e \in Entries, Age(e) PROVE TypeOK'
  BY <1>22 DEF Age
<1>23. CASE UNCHANGED vars
  BY <1>23 DEF vars
<1>24. QED
  BY <1>1, <1>2, <1>3, <1>4, <1>5, <1>6, <1>7, <1>8, <1>9, <1>10, <1>11, <1>12,
       <1>13, <1>14, <1>15, <1>16, <1>17, <1>18, <1>19, <1>20, <1>21, <1>22,
       <1>23 DEF Next, Request, Local, Remote, Editor, Visit

LEMMA PlacedStep == Base /\ [Next]_vars => Placed'
<1> SUFFICES ASSUME Base, [Next]_vars PROVE Placed'
  OBVIOUS
<1> USE ProcAssumption, NoneAssumption DEF Base, TypeOK, Proc, Placed, Pass,
     RequestPC, EditorPC, ReaperPC, ClientState, At, Goto, poolVars, connVars,
     rowVars, procVars, history
<1>1. ASSUME NEW r \in Requests, NEW a \in Accounts, Begin(r, a) PROVE Placed'
  BY <1>1 DEF Begin
<1>2. ASSUME NEW r \in Requests, Entry(r) PROVE Placed'
  BY <1>2 DEF Entry, EntryMutex, Garbage, Referenced, Pooled
<1>3. ASSUME NEW r \in Requests, Lock(r) PROVE Placed'
  BY <1>3 DEF Lock, Unlocked
<1>4. ASSUME NEW r \in Requests, Check(r) PROVE Placed'
  BY <1>4 DEF Check, StartUse, Discard
<1>5. ASSUME NEW r \in Requests, Dial(r) PROVE Placed'
  BY <1>5 DEF Dial, Return
<1>6. ASSUME NEW r \in Requests, ProvisionCheck(r) PROVE Placed'
  BY <1>6 DEF ProvisionCheck, StartUse
<1>7. ASSUME NEW r \in Requests, ProvisionList(r) PROVE Placed'
  BY <1>7 DEF ProvisionList, StartUse
<1>8. ASSUME NEW r \in Requests, ProvisionMark(r) PROVE Placed'
  BY <1>8 DEF ProvisionMark, StartUse
<1>9. ASSUME NEW r \in Requests, EndUse(r) PROVE Placed'
  BY <1>9 DEF EndUse, Discard, Return
<1>10. ASSUME NEW r \in Requests, Again(r) PROVE Placed'
  BY <1>10 DEF Again
<1>11. ASSUME NEW r \in Requests, Finish(r) PROVE Placed'
  BY <1>11 DEF Finish
<1>12. ASSUME NEW d \in Editors, NEW a \in Accounts, WriteRow(d, a) PROVE
     Placed'
  BY <1>12 DEF WriteRow
<1>13. ASSUME NEW d \in Editors, Take(d) PROVE Placed'
  BY <1>13 DEF Take, Dropped, Drops
<1>14. ASSUME NEW d \in Editors, DropLock(d) PROVE Placed'
  BY <1>14 DEF DropLock, Unlocked
<1>15. ASSUME NEW d \in Editors, DropClose(d) PROVE Placed'
  BY <1>15 DEF DropClose, Dropped, LogOut, Discard
<1>16. CASE Wake
  BY <1>16 DEF Wake, InMap
<1>17. ASSUME NEW a \in Accounts, Skip(a) PROVE Placed'
  BY <1>17 DEF Skip, Busy
<1>18. ASSUME NEW a \in Accounts, LockIdle(a) PROVE Placed'
  BY <1>18 DEF LockIdle, Unlocked
<1>19. CASE Reap
  BY <1>19 DEF Reap
<1>20. CASE Sleep
  BY <1>20 DEF Sleep
<1>21. ASSUME NEW e \in Entries, HangUp(e) PROVE Placed'
  BY <1>21 DEF HangUp
<1>22. ASSUME NEW e \in Entries, Age(e) PROVE Placed'
  BY <1>22 DEF Age
<1>23. CASE UNCHANGED vars
  BY <1>23 DEF vars
<1>24. QED
  BY <1>1, <1>2, <1>3, <1>4, <1>5, <1>6, <1>7, <1>8, <1>9, <1>10, <1>11, <1>12,
       <1>13, <1>14, <1>15, <1>16, <1>17, <1>18, <1>19, <1>20, <1>21, <1>22,
       <1>23 DEF Next, Request, Local, Remote, Editor, Visit

LEMMA PassStep == Base /\ [Next]_vars => Pass'
<1> SUFFICES ASSUME Base, [Next]_vars PROVE Pass'
  OBVIOUS
<1> USE ProcAssumption, NoneAssumption DEF Base, TypeOK, Proc, Placed, Pass,
     RequestPC, EditorPC, ReaperPC, ClientState, At, Goto, poolVars, connVars,
     rowVars, procVars, history
<1>1. ASSUME NEW r \in Requests, NEW a \in Accounts, Begin(r, a) PROVE Pass'
  BY <1>1 DEF Begin
<1>2. ASSUME NEW r \in Requests, Entry(r) PROVE Pass'
  BY <1>2 DEF Entry, EntryMutex, Garbage, Referenced, Pooled
<1>3. ASSUME NEW r \in Requests, Lock(r) PROVE Pass'
  BY <1>3 DEF Lock, Unlocked
<1>4. ASSUME NEW r \in Requests, Check(r) PROVE Pass'
  BY <1>4 DEF Check, StartUse, Discard
<1>5. ASSUME NEW r \in Requests, Dial(r) PROVE Pass'
  BY <1>5 DEF Dial, Return
<1>6. ASSUME NEW r \in Requests, ProvisionCheck(r) PROVE Pass'
  BY <1>6 DEF ProvisionCheck, StartUse
<1>7. ASSUME NEW r \in Requests, ProvisionList(r) PROVE Pass'
  BY <1>7 DEF ProvisionList, StartUse
<1>8. ASSUME NEW r \in Requests, ProvisionMark(r) PROVE Pass'
  BY <1>8 DEF ProvisionMark, StartUse
<1>9. ASSUME NEW r \in Requests, EndUse(r) PROVE Pass'
  BY <1>9 DEF EndUse, Discard, Return
<1>10. ASSUME NEW r \in Requests, Again(r) PROVE Pass'
  BY <1>10 DEF Again
<1>11. ASSUME NEW r \in Requests, Finish(r) PROVE Pass'
  BY <1>11 DEF Finish
<1>12. ASSUME NEW d \in Editors, NEW a \in Accounts, WriteRow(d, a) PROVE Pass'
  BY <1>12 DEF WriteRow
<1>13. ASSUME NEW d \in Editors, Take(d) PROVE Pass'
  BY <1>13 DEF Take, Dropped, Drops
<1>14. ASSUME NEW d \in Editors, DropLock(d) PROVE Pass'
  BY <1>14 DEF DropLock, Unlocked
<1>15. ASSUME NEW d \in Editors, DropClose(d) PROVE Pass'
  BY <1>15 DEF DropClose, Dropped, LogOut, Discard
<1>16. CASE Wake
  BY <1>16 DEF Wake, InMap
<1>17. ASSUME NEW a \in Accounts, Skip(a) PROVE Pass'
  BY <1>17 DEF Skip, Busy
<1>18. ASSUME NEW a \in Accounts, LockIdle(a) PROVE Pass'
  BY <1>18 DEF LockIdle, Unlocked
<1>19. CASE Reap
  BY <1>19 DEF Reap
<1>20. CASE Sleep
  BY <1>20 DEF Sleep
<1>21. ASSUME NEW e \in Entries, HangUp(e) PROVE Pass'
  BY <1>21 DEF HangUp
<1>22. ASSUME NEW e \in Entries, Age(e) PROVE Pass'
  BY <1>22 DEF Age
<1>23. CASE UNCHANGED vars
  BY <1>23 DEF vars
<1>24. QED
  BY <1>1, <1>2, <1>3, <1>4, <1>5, <1>6, <1>7, <1>8, <1>9, <1>10, <1>11, <1>12,
       <1>13, <1>14, <1>15, <1>16, <1>17, <1>18, <1>19, <1>20, <1>21, <1>22,
       <1>23 DEF Next, Request, Local, Remote, Editor, Visit

\* Lock needs the mutex free; only the holder gives it back.
LEMMA MutualStep == Base /\ Mutual /\ [Next]_vars => Mutual'
<1> SUFFICES ASSUME Base /\ Mutual, [Next]_vars PROVE Mutual'
  OBVIOUS
<1> USE ProcAssumption, NoneAssumption DEF Base, TypeOK, Proc, Placed, Pass,
     Mutual, Holding, RequestPC, EditorPC, ReaperPC, ClientState, At, Goto,
     poolVars, connVars, rowVars, procVars, history
<1>1. ASSUME NEW r \in Requests, NEW a \in Accounts, Begin(r, a) PROVE Mutual'
  BY <1>1 DEF Begin
<1>2. ASSUME NEW r \in Requests, Entry(r) PROVE Mutual'
  BY <1>2 DEF Entry, EntryMutex, Garbage, Referenced, Pooled
<1>3. ASSUME NEW r \in Requests, Lock(r) PROVE Mutual'
  BY <1>3 DEF Lock, Unlocked
<1>4. ASSUME NEW r \in Requests, Check(r) PROVE Mutual'
  BY <1>4 DEF Check, StartUse, Discard
<1>5. ASSUME NEW r \in Requests, Dial(r) PROVE Mutual'
  BY <1>5 DEF Dial, Return
<1>6. ASSUME NEW r \in Requests, ProvisionCheck(r) PROVE Mutual'
  BY <1>6 DEF ProvisionCheck, StartUse
<1>7. ASSUME NEW r \in Requests, ProvisionList(r) PROVE Mutual'
  BY <1>7 DEF ProvisionList, StartUse
<1>8. ASSUME NEW r \in Requests, ProvisionMark(r) PROVE Mutual'
  BY <1>8 DEF ProvisionMark, StartUse
<1>9. ASSUME NEW r \in Requests, EndUse(r) PROVE Mutual'
  BY <1>9 DEF EndUse, Discard, Return
<1>10. ASSUME NEW r \in Requests, Again(r) PROVE Mutual'
  BY <1>10 DEF Again
<1>11. ASSUME NEW r \in Requests, Finish(r) PROVE Mutual'
  BY <1>11 DEF Finish
<1>12. ASSUME NEW d \in Editors, NEW a \in Accounts, WriteRow(d, a) PROVE
     Mutual'
  BY <1>12 DEF WriteRow
<1>13. ASSUME NEW d \in Editors, Take(d) PROVE Mutual'
  BY <1>13 DEF Take, Dropped, Drops
<1>14. ASSUME NEW d \in Editors, DropLock(d) PROVE Mutual'
  BY <1>14 DEF DropLock, Unlocked
<1>15. ASSUME NEW d \in Editors, DropClose(d) PROVE Mutual'
  BY <1>15 DEF DropClose, Dropped, LogOut, Discard
<1>16. CASE Wake
  BY <1>16 DEF Wake, InMap
<1>17. ASSUME NEW a \in Accounts, Skip(a) PROVE Mutual'
  BY <1>17 DEF Skip, Busy
<1>18. ASSUME NEW a \in Accounts, LockIdle(a) PROVE Mutual'
  BY <1>18 DEF LockIdle, Unlocked
<1>19. CASE Reap
  BY <1>19 DEF Reap
<1>20. CASE Sleep
  BY <1>20 DEF Sleep
<1>21. ASSUME NEW e \in Entries, HangUp(e) PROVE Mutual'
  BY <1>21 DEF HangUp
<1>22. ASSUME NEW e \in Entries, Age(e) PROVE Mutual'
  BY <1>22 DEF Age
<1>23. CASE UNCHANGED vars
  BY <1>23 DEF vars
<1>24. QED
  BY <1>1, <1>2, <1>3, <1>4, <1>5, <1>6, <1>7, <1>8, <1>9, <1>10, <1>11, <1>12,
       <1>13, <1>14, <1>15, <1>16, <1>17, <1>18, <1>19, <1>20, <1>21, <1>22,
       <1>23 DEF Next, Request, Local, Remote, Editor, Visit

\* Whoever closes a client, or sets it to nil, holds the mutex.
LEMMA CutStep == Base /\ Mutual /\ NeverCutShort /\ [Next]_vars =>
     NeverCutShort'
<1> SUFFICES ASSUME Base /\ Mutual /\ NeverCutShort, [Next]_vars PROVE
     NeverCutShort'
  OBVIOUS
<1> USE ProcAssumption, NoneAssumption DEF Base, TypeOK, Proc, Placed, Pass,
     Mutual, Holding, NeverCutShort, At, Goto, poolVars, connVars, rowVars,
     procVars, history
<1>1. ASSUME NEW r \in Requests, NEW a \in Accounts, Begin(r, a) PROVE
     NeverCutShort'
  BY <1>1 DEF Begin
<1>2. ASSUME NEW r \in Requests, Entry(r) PROVE NeverCutShort'
  BY <1>2 DEF Entry, EntryMutex, Garbage, Referenced, Pooled
<1>3. ASSUME NEW r \in Requests, Lock(r) PROVE NeverCutShort'
  BY <1>3 DEF Lock, Unlocked
<1>4. ASSUME NEW r \in Requests, Check(r) PROVE NeverCutShort'
  BY <1>4 DEF Check, StartUse, Discard
<1>5. ASSUME NEW r \in Requests, Dial(r) PROVE NeverCutShort'
  BY <1>5 DEF Dial, Return
<1>6. ASSUME NEW r \in Requests, ProvisionCheck(r) PROVE NeverCutShort'
  BY <1>6 DEF ProvisionCheck, StartUse
<1>7. ASSUME NEW r \in Requests, ProvisionList(r) PROVE NeverCutShort'
  BY <1>7 DEF ProvisionList, StartUse
<1>8. ASSUME NEW r \in Requests, ProvisionMark(r) PROVE NeverCutShort'
  BY <1>8 DEF ProvisionMark, StartUse
<1>9. ASSUME NEW r \in Requests, EndUse(r) PROVE NeverCutShort'
  BY <1>9 DEF EndUse, Discard, Return
<1>10. ASSUME NEW r \in Requests, Again(r) PROVE NeverCutShort'
  BY <1>10 DEF Again
<1>11. ASSUME NEW r \in Requests, Finish(r) PROVE NeverCutShort'
  BY <1>11 DEF Finish
<1>12. ASSUME NEW d \in Editors, NEW a \in Accounts, WriteRow(d, a) PROVE
     NeverCutShort'
  BY <1>12 DEF WriteRow
<1>13. ASSUME NEW d \in Editors, Take(d) PROVE NeverCutShort'
  BY <1>13 DEF Take, Dropped, Drops
<1>14. ASSUME NEW d \in Editors, DropLock(d) PROVE NeverCutShort'
  BY <1>14 DEF DropLock, Unlocked
<1>15. ASSUME NEW d \in Editors, DropClose(d) PROVE NeverCutShort'
  BY <1>15 DEF DropClose, Dropped, LogOut, Discard
<1>16. CASE Wake
  BY <1>16 DEF Wake, InMap
<1>17. ASSUME NEW a \in Accounts, Skip(a) PROVE NeverCutShort'
  BY <1>17 DEF Skip, Busy
<1>18. ASSUME NEW a \in Accounts, LockIdle(a) PROVE NeverCutShort'
  BY <1>18 DEF LockIdle, Unlocked
<1>19. CASE Reap
  BY <1>19 DEF Reap
<1>20. CASE Sleep
  BY <1>20 DEF Sleep
<1>21. ASSUME NEW e \in Entries, HangUp(e) PROVE NeverCutShort'
  BY <1>21 DEF HangUp
<1>22. ASSUME NEW e \in Entries, Age(e) PROVE NeverCutShort'
  BY <1>22 DEF Age
<1>23. CASE UNCHANGED vars
  BY <1>23 DEF vars
<1>24. QED
  BY <1>1, <1>2, <1>3, <1>4, <1>5, <1>6, <1>7, <1>8, <1>9, <1>10, <1>11, <1>12,
       <1>13, <1>14, <1>15, <1>16, <1>17, <1>18, <1>19, <1>20, <1>21, <1>22,
       <1>23 DEF Next, Request, Local, Remote, Editor, Visit

\* A pooledConn enters the map new, and under the account that asked.
LEMMA OwnStep == Base /\ OwnConnection /\ [Next]_vars => OwnConnection'
<1> SUFFICES ASSUME Base /\ OwnConnection, [Next]_vars PROVE OwnConnection'
  OBVIOUS
<1> USE ProcAssumption, NoneAssumption DEF Base, TypeOK, Proc, Placed, Pass,
     OwnConnection, At, Goto, poolVars, connVars, rowVars, procVars, history
<1>1. ASSUME NEW r \in Requests, NEW a \in Accounts, Begin(r, a) PROVE
     OwnConnection'
  BY <1>1 DEF Begin
<1>2. ASSUME NEW r \in Requests, Entry(r) PROVE OwnConnection'
  BY <1>2 DEF Entry, EntryMutex, Garbage, Referenced, Pooled
<1>3. ASSUME NEW r \in Requests, Lock(r) PROVE OwnConnection'
  BY <1>3 DEF Lock, Unlocked
<1>4. ASSUME NEW r \in Requests, Check(r) PROVE OwnConnection'
  BY <1>4 DEF Check, StartUse, Discard
<1>5. ASSUME NEW r \in Requests, Dial(r) PROVE OwnConnection'
  BY <1>5 DEF Dial, Return
<1>6. ASSUME NEW r \in Requests, ProvisionCheck(r) PROVE OwnConnection'
  BY <1>6 DEF ProvisionCheck, StartUse
<1>7. ASSUME NEW r \in Requests, ProvisionList(r) PROVE OwnConnection'
  BY <1>7 DEF ProvisionList, StartUse
<1>8. ASSUME NEW r \in Requests, ProvisionMark(r) PROVE OwnConnection'
  BY <1>8 DEF ProvisionMark, StartUse
<1>9. ASSUME NEW r \in Requests, EndUse(r) PROVE OwnConnection'
  BY <1>9 DEF EndUse, Discard, Return
<1>10. ASSUME NEW r \in Requests, Again(r) PROVE OwnConnection'
  BY <1>10 DEF Again
<1>11. ASSUME NEW r \in Requests, Finish(r) PROVE OwnConnection'
  BY <1>11 DEF Finish
<1>12. ASSUME NEW d \in Editors, NEW a \in Accounts, WriteRow(d, a) PROVE
     OwnConnection'
  BY <1>12 DEF WriteRow
<1>13. ASSUME NEW d \in Editors, Take(d) PROVE OwnConnection'
  BY <1>13 DEF Take, Dropped, Drops
<1>14. ASSUME NEW d \in Editors, DropLock(d) PROVE OwnConnection'
  BY <1>14 DEF DropLock, Unlocked
<1>15. ASSUME NEW d \in Editors, DropClose(d) PROVE OwnConnection'
  BY <1>15 DEF DropClose, Dropped, LogOut, Discard
<1>16. CASE Wake
  BY <1>16 DEF Wake, InMap
<1>17. ASSUME NEW a \in Accounts, Skip(a) PROVE OwnConnection'
  BY <1>17 DEF Skip, Busy
<1>18. ASSUME NEW a \in Accounts, LockIdle(a) PROVE OwnConnection'
  BY <1>18 DEF LockIdle, Unlocked
<1>19. CASE Reap
  BY <1>19 DEF Reap
<1>20. CASE Sleep
  BY <1>20 DEF Sleep
<1>21. ASSUME NEW e \in Entries, HangUp(e) PROVE OwnConnection'
  BY <1>21 DEF HangUp
<1>22. ASSUME NEW e \in Entries, Age(e) PROVE OwnConnection'
  BY <1>22 DEF Age
<1>23. CASE UNCHANGED vars
  BY <1>23 DEF vars
<1>24. QED
  BY <1>1, <1>2, <1>3, <1>4, <1>5, <1>6, <1>7, <1>8, <1>9, <1>10, <1>11, <1>12,
       <1>13, <1>14, <1>15, <1>16, <1>17, <1>18, <1>19, <1>20, <1>21, <1>22,
       <1>23 DEF Next, Request, Local, Remote, Editor, Visit

\* What Take unlinks, the editor has in hand until it has closed it.
LEMMA TrackedStep == Base /\ Mutual /\ OwnConnection /\ Tracked /\ [Next]_vars
     => Tracked'
<1> SUFFICES ASSUME Base /\ Mutual /\ OwnConnection /\ Tracked, [Next]_vars
     PROVE Tracked'
  OBVIOUS
<1> USE ProcAssumption, NoneAssumption DEF Base, TypeOK, Proc, Placed, Pass,
     Mutual, Holding, OwnConnection, Tracked, Pooled, At, Goto, poolVars,
     connVars, rowVars, procVars, history
<1>1. ASSUME NEW r \in Requests, NEW a \in Accounts, Begin(r, a) PROVE Tracked'
  BY <1>1 DEF Begin
<1>2. ASSUME NEW r \in Requests, Entry(r) PROVE Tracked'
  BY <1>2 DEF Entry, EntryMutex, Garbage, Referenced, Pooled
<1>3. ASSUME NEW r \in Requests, Lock(r) PROVE Tracked'
  BY <1>3 DEF Lock, Unlocked
<1>4. ASSUME NEW r \in Requests, Check(r) PROVE Tracked'
  BY <1>4 DEF Check, StartUse, Discard
<1>5. ASSUME NEW r \in Requests, Dial(r) PROVE Tracked'
  BY <1>5 DEF Dial, Return
<1>6. ASSUME NEW r \in Requests, ProvisionCheck(r) PROVE Tracked'
  BY <1>6 DEF ProvisionCheck, StartUse
<1>7. ASSUME NEW r \in Requests, ProvisionList(r) PROVE Tracked'
  BY <1>7 DEF ProvisionList, StartUse
<1>8. ASSUME NEW r \in Requests, ProvisionMark(r) PROVE Tracked'
  BY <1>8 DEF ProvisionMark, StartUse
<1>9. ASSUME NEW r \in Requests, EndUse(r) PROVE Tracked'
  BY <1>9 DEF EndUse, Discard, Return
<1>10. ASSUME NEW r \in Requests, Again(r) PROVE Tracked'
  BY <1>10 DEF Again
<1>11. ASSUME NEW r \in Requests, Finish(r) PROVE Tracked'
  BY <1>11 DEF Finish
<1>12. ASSUME NEW d \in Editors, NEW a \in Accounts, WriteRow(d, a) PROVE
     Tracked'
  BY <1>12 DEF WriteRow
<1>13. ASSUME NEW d \in Editors, Take(d) PROVE Tracked'
  BY <1>13 DEF Take, Dropped, Drops
<1>14. ASSUME NEW d \in Editors, DropLock(d) PROVE Tracked'
  BY <1>14 DEF DropLock, Unlocked
<1>15. ASSUME NEW d \in Editors, DropClose(d) PROVE Tracked'
  BY <1>15 DEF DropClose, Dropped, LogOut, Discard
<1>16. CASE Wake
  BY <1>16 DEF Wake, InMap
<1>17. ASSUME NEW a \in Accounts, Skip(a) PROVE Tracked'
  BY <1>17 DEF Skip, Busy
<1>18. ASSUME NEW a \in Accounts, LockIdle(a) PROVE Tracked'
  BY <1>18 DEF LockIdle, Unlocked
<1>19. CASE Reap
  BY <1>19 DEF Reap
<1>20. CASE Sleep
  BY <1>20 DEF Sleep
<1>21. ASSUME NEW e \in Entries, HangUp(e) PROVE Tracked'
  BY <1>21 DEF HangUp
<1>22. ASSUME NEW e \in Entries, Age(e) PROVE Tracked'
  BY <1>22 DEF Age
<1>23. CASE UNCHANGED vars
  BY <1>23 DEF vars
<1>24. QED
  BY <1>1, <1>2, <1>3, <1>4, <1>5, <1>6, <1>7, <1>8, <1>9, <1>10, <1>11, <1>12,
       <1>13, <1>14, <1>15, <1>16, <1>17, <1>18, <1>19, <1>20, <1>21, <1>22,
       <1>23 DEF Next, Request, Local, Remote, Editor, Visit

LEMMA RowsStep == Base /\ Rows /\ [Next]_vars => Rows'
<1> SUFFICES ASSUME Base /\ Rows, [Next]_vars PROVE Rows'
  OBVIOUS
<1> USE ProcAssumption, NoneAssumption DEF Base, TypeOK, Proc, Placed, Rows,
     At, Goto, poolVars, connVars, rowVars, procVars, history
<1>1. ASSUME NEW r \in Requests, NEW a \in Accounts, Begin(r, a) PROVE Rows'
  BY <1>1 DEF Begin
<1>2. ASSUME NEW r \in Requests, Entry(r) PROVE Rows'
  BY <1>2 DEF Entry, EntryMutex, Garbage, Referenced, Pooled
<1>3. ASSUME NEW r \in Requests, Lock(r) PROVE Rows'
  BY <1>3 DEF Lock, Unlocked
<1>4. ASSUME NEW r \in Requests, Check(r) PROVE Rows'
  BY <1>4 DEF Check, StartUse, Discard
<1>5. ASSUME NEW r \in Requests, Dial(r) PROVE Rows'
  BY <1>5 DEF Dial, Return
<1>6. ASSUME NEW r \in Requests, ProvisionCheck(r) PROVE Rows'
  BY <1>6 DEF ProvisionCheck, StartUse
<1>7. ASSUME NEW r \in Requests, ProvisionList(r) PROVE Rows'
  BY <1>7 DEF ProvisionList, StartUse
<1>8. ASSUME NEW r \in Requests, ProvisionMark(r) PROVE Rows'
  BY <1>8 DEF ProvisionMark, StartUse
<1>9. ASSUME NEW r \in Requests, EndUse(r) PROVE Rows'
  BY <1>9 DEF EndUse, Discard, Return
<1>10. ASSUME NEW r \in Requests, Again(r) PROVE Rows'
  BY <1>10 DEF Again
<1>11. ASSUME NEW r \in Requests, Finish(r) PROVE Rows'
  BY <1>11 DEF Finish
<1>12. ASSUME NEW d \in Editors, NEW a \in Accounts, WriteRow(d, a) PROVE Rows'
  BY <1>12 DEF WriteRow
<1>13. ASSUME NEW d \in Editors, Take(d) PROVE Rows'
  BY <1>13 DEF Take, Dropped, Drops
<1>14. ASSUME NEW d \in Editors, DropLock(d) PROVE Rows'
  BY <1>14 DEF DropLock, Unlocked
<1>15. ASSUME NEW d \in Editors, DropClose(d) PROVE Rows'
  BY <1>15 DEF DropClose, Dropped, LogOut, Discard
<1>16. CASE Wake
  BY <1>16 DEF Wake, InMap
<1>17. ASSUME NEW a \in Accounts, Skip(a) PROVE Rows'
  BY <1>17 DEF Skip, Busy
<1>18. ASSUME NEW a \in Accounts, LockIdle(a) PROVE Rows'
  BY <1>18 DEF LockIdle, Unlocked
<1>19. CASE Reap
  BY <1>19 DEF Reap
<1>20. CASE Sleep
  BY <1>20 DEF Sleep
<1>21. ASSUME NEW e \in Entries, HangUp(e) PROVE Rows'
  BY <1>21 DEF HangUp
<1>22. ASSUME NEW e \in Entries, Age(e) PROVE Rows'
  BY <1>22 DEF Age
<1>23. CASE UNCHANGED vars
  BY <1>23 DEF vars
<1>24. QED
  BY <1>1, <1>2, <1>3, <1>4, <1>5, <1>6, <1>7, <1>8, <1>9, <1>10, <1>11, <1>12,
       <1>13, <1>14, <1>15, <1>16, <1>17, <1>18, <1>19, <1>20, <1>21, <1>22,
       <1>23 DEF Next, Request, Local, Remote, Editor, Visit

LEMMA SharedStep == Base /\ OwnConnection /\ Shared /\ [Next]_vars => Shared'
<1> SUFFICES ASSUME Base /\ OwnConnection /\ Shared, [Next]_vars PROVE Shared'
  OBVIOUS
<1> USE ProcAssumption, NoneAssumption DEF Base, TypeOK, Proc, Placed,
     OwnConnection, Shared, At, Goto, poolVars, connVars, rowVars, procVars,
     history
<1>1. ASSUME NEW r \in Requests, NEW a \in Accounts, Begin(r, a) PROVE Shared'
  BY <1>1 DEF Begin
<1>2. ASSUME NEW r \in Requests, Entry(r) PROVE Shared'
  BY <1>2 DEF Entry, EntryMutex, Garbage, Referenced, Pooled
<1>3. ASSUME NEW r \in Requests, Lock(r) PROVE Shared'
  BY <1>3 DEF Lock, Unlocked
<1>4. ASSUME NEW r \in Requests, Check(r) PROVE Shared'
  BY <1>4 DEF Check, StartUse, Discard
<1>5. ASSUME NEW r \in Requests, Dial(r) PROVE Shared'
  BY <1>5 DEF Dial, Return
<1>6. ASSUME NEW r \in Requests, ProvisionCheck(r) PROVE Shared'
  BY <1>6 DEF ProvisionCheck, StartUse
<1>7. ASSUME NEW r \in Requests, ProvisionList(r) PROVE Shared'
  BY <1>7 DEF ProvisionList, StartUse
<1>8. ASSUME NEW r \in Requests, ProvisionMark(r) PROVE Shared'
  BY <1>8 DEF ProvisionMark, StartUse
<1>9. ASSUME NEW r \in Requests, EndUse(r) PROVE Shared'
  BY <1>9 DEF EndUse, Discard, Return
<1>10. ASSUME NEW r \in Requests, Again(r) PROVE Shared'
  BY <1>10 DEF Again
<1>11. ASSUME NEW r \in Requests, Finish(r) PROVE Shared'
  BY <1>11 DEF Finish
<1>12. ASSUME NEW d \in Editors, NEW a \in Accounts, WriteRow(d, a) PROVE
     Shared'
  BY <1>12 DEF WriteRow
<1>13. ASSUME NEW d \in Editors, Take(d) PROVE Shared'
  BY <1>13 DEF Take, Dropped, Drops
<1>14. ASSUME NEW d \in Editors, DropLock(d) PROVE Shared'
  BY <1>14 DEF DropLock, Unlocked
<1>15. ASSUME NEW d \in Editors, DropClose(d) PROVE Shared'
  BY <1>15 DEF DropClose, Dropped, LogOut, Discard
<1>16. CASE Wake
  BY <1>16 DEF Wake, InMap
<1>17. ASSUME NEW a \in Accounts, Skip(a) PROVE Shared'
  BY <1>17 DEF Skip, Busy
<1>18. ASSUME NEW a \in Accounts, LockIdle(a) PROVE Shared'
  BY <1>18 DEF LockIdle, Unlocked
<1>19. CASE Reap
  BY <1>19 DEF Reap
<1>20. CASE Sleep
  BY <1>20 DEF Sleep
<1>21. ASSUME NEW e \in Entries, HangUp(e) PROVE Shared'
  BY <1>21 DEF HangUp
<1>22. ASSUME NEW e \in Entries, Age(e) PROVE Shared'
  BY <1>22 DEF Age
<1>23. CASE UNCHANGED vars
  BY <1>23 DEF vars
<1>24. QED
  BY <1>1, <1>2, <1>3, <1>4, <1>5, <1>6, <1>7, <1>8, <1>9, <1>10, <1>11, <1>12,
       <1>13, <1>14, <1>15, <1>16, <1>17, <1>18, <1>19, <1>20, <1>21, <1>22,
       <1>23 DEF Next, Request, Local, Remote, Editor, Visit

\* Take looks for older rows in flight; without one, later dials are newer.
LEMMA FreshStep == Base /\ OwnConnection /\ Rows /\ Shared /\ Fresh /\
     [Next]_vars => Fresh'
<1> SUFFICES ASSUME Base /\ OwnConnection /\ Rows /\ Shared /\ Fresh,
     [Next]_vars PROVE Fresh'
  OBVIOUS
<1> USE ProcAssumption, NoneAssumption DEF Base, TypeOK, Proc, Placed, Pass,
     OwnConnection, Rows, Shared, Fresh, Dropping, At, Goto, poolVars,
     connVars, rowVars, procVars, history
<1>1. ASSUME NEW r \in Requests, NEW a \in Accounts, Begin(r, a) PROVE Fresh'
  BY <1>1 DEF Begin
<1>2. ASSUME NEW r \in Requests, Entry(r) PROVE Fresh'
  BY <1>2 DEF Entry, EntryMutex, Garbage, Referenced, Pooled
<1>3. ASSUME NEW r \in Requests, Lock(r) PROVE Fresh'
  BY <1>3 DEF Lock, Unlocked
<1>4. ASSUME NEW r \in Requests, Check(r) PROVE Fresh'
  BY <1>4 DEF Check, StartUse, Discard
<1>5. ASSUME NEW r \in Requests, Dial(r) PROVE Fresh'
  BY <1>5 DEF Dial, Return
<1>6. ASSUME NEW r \in Requests, ProvisionCheck(r) PROVE Fresh'
  BY <1>6 DEF ProvisionCheck, StartUse
<1>7. ASSUME NEW r \in Requests, ProvisionList(r) PROVE Fresh'
  BY <1>7 DEF ProvisionList, StartUse
<1>8. ASSUME NEW r \in Requests, ProvisionMark(r) PROVE Fresh'
  BY <1>8 DEF ProvisionMark, StartUse
<1>9. ASSUME NEW r \in Requests, EndUse(r) PROVE Fresh'
  BY <1>9 DEF EndUse, Discard, Return
<1>10. ASSUME NEW r \in Requests, Again(r) PROVE Fresh'
  BY <1>10 DEF Again
<1>11. ASSUME NEW r \in Requests, Finish(r) PROVE Fresh'
  BY <1>11 DEF Finish
<1>12. ASSUME NEW d \in Editors, NEW a \in Accounts, WriteRow(d, a) PROVE
     Fresh'
  BY <1>12 DEF WriteRow
<1>13. ASSUME NEW d \in Editors, Take(d) PROVE Fresh'
  BY <1>13 DEF Take, Dropped, Drops
<1>14. ASSUME NEW d \in Editors, DropLock(d) PROVE Fresh'
  BY <1>14 DEF DropLock, Unlocked
<1>15. ASSUME NEW d \in Editors, DropClose(d) PROVE Fresh'
  BY <1>15 DEF DropClose, Dropped, LogOut, Discard
<1>16. CASE Wake
  BY <1>16 DEF Wake, InMap
<1>17. ASSUME NEW a \in Accounts, Skip(a) PROVE Fresh'
  BY <1>17 DEF Skip, Busy
<1>18. ASSUME NEW a \in Accounts, LockIdle(a) PROVE Fresh'
  BY <1>18 DEF LockIdle, Unlocked
<1>19. CASE Reap
  BY <1>19 DEF Reap
<1>20. CASE Sleep
  BY <1>20 DEF Sleep
<1>21. ASSUME NEW e \in Entries, HangUp(e) PROVE Fresh'
  BY <1>21 DEF HangUp
<1>22. ASSUME NEW e \in Entries, Age(e) PROVE Fresh'
  BY <1>22 DEF Age
<1>23. CASE UNCHANGED vars
  BY <1>23 DEF vars
<1>24. QED
  BY <1>1, <1>2, <1>3, <1>4, <1>5, <1>6, <1>7, <1>8, <1>9, <1>10, <1>11, <1>12,
       <1>13, <1>14, <1>15, <1>16, <1>17, <1>18, <1>19, <1>20, <1>21, <1>22,
       <1>23 DEF Next, Request, Local, Remote, Editor, Visit

LEMMA IInvStep == IInv /\ [Next]_vars => IInv'
  BY TypeStep, PlacedStep, PassStep, MutualStep, CutStep, OwnStep,
     TrackedStep, RowsStep, SharedStep, FreshStep
  DEF IInv, Base

\* The invariant holds in every state of every behaviour of the pool.
THEOREM PoolInvariant == Spec => []IInv
  BY InitIInv, IInvStep, PTL DEF Spec

-----------------------------------------------------------------------------

\* The variables keep their types.
THEOREM PoolTypes == Spec => []TypeOK
<1>1. IInv => TypeOK
  BY DEF IInv, Base
<1> QED
  BY <1>1, PoolInvariant, PTL

\* No two goroutines are ever on one connection (mail.go, pooledConn.mu).
THEOREM PoolExclusive == Spec => []ExclusiveUse
<1>1. IInv => ExclusiveUse
  BY DEF IInv, Mutual, ExclusiveUse
<1> QED
  BY <1>1, PoolInvariant, PTL

\* Neither the reaper nor Drop closes a connection under a running request.
THEOREM PoolNeverCutShort == Spec => []NeverCutShort
<1>1. IInv => NeverCutShort
  BY DEF IInv
<1> QED
  BY <1>1, PoolInvariant, PTL

\* No request is ever given another mailbox's connection.
THEOREM PoolOwnConnection == Spec => []OwnConnection
<1>1. IInv => OwnConnection
  BY DEF IInv
<1> QED
  BY <1>1, PoolInvariant, PTL

\* A connection nothing can reach comes from a request that locked its entry
\* after the entry had left the map, and from nothing else.
THEOREM PoolOrphansAreLate == Spec => []OrphansAreLate
<1>1. IInv => OrphansAreLate
  BY NoneAssumption
  DEF IInv, Tracked, OrphansAreLate, Orphan, Referenced, Proc
<1> QED
  BY <1>1, PoolInvariant, PTL

\* After a Drop no later request works under an older row, unless one that had
\* read the older row was in flight as the Drop took the entry.
THEOREM PoolStaleOnlyByOverlap == Spec => []StaleOnlyByOverlap
<1>1. ASSUME IInv, NEW r \in Requests, pc[r] = "fn", acct[r] \notin overlap
      PROVE  auth[ent[r]] >= floor[r]
  <2>1. Base /\ NeverCutShort /\ Fresh
    BY <1>1 DEF IInv
  <2>2. acct[r] \in Accounts /\ ent[r] \in Entries /\ ent[r] # None
    BY <1>1, <2>1, InHand, NoneAssumption
  <2>3. client[ent[r]] # "nil"
    BY <1>1, <2>1 DEF NeverCutShort
  <2>4. floor[r] <= auth[ent[r]]
    BY <1>1, <2>1, <2>2, <2>3 DEF Fresh
  <2> QED
    BY <2>1, <2>2, <2>4 DEF Base, TypeOK
<1>2. IInv => StaleOnlyByOverlap
  BY <1>1 DEF StaleOnlyByOverlap, FreshSession
<1> QED
  BY <1>2, PoolInvariant, PTL
=============================================================================
