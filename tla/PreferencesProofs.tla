-------------------------- MODULE PreferencesProofs --------------------------
(***************************************************************************)
(* Proofs about Preferences, for every set of addresses, accounts and      *)
(* requests.                                                               *)
(***************************************************************************)
EXTENDS Preferences, TLAPS

\* What a request is about while it is about something.
Placed ==
    \A r \in Reqs :
        /\ req[r].pc \in {"opened", "confirmed", "forget"} => req[r].addr \in Addr
        /\ req[r].pc \in {"confirmed", "forget"} => req[r].who \in Users
        /\ req[r].pc = "opened" => req[r].who \in Users \union {Self}
        /\ req[r].pc = "read" => req[r].snap \in Saved

Typed == TypeOK /\ Placed

\* A request that an account opened is for an address the account still has,
\* until the address changes hands.
OpenedIsOwn ==
    \A r \in Reqs :
        req[r].pc = "opened" /\ req[r].who # Self /\ ~ req[r].lost
            => owner[req[r].addr] = req[r].who

\* NothingInherited, of addresses nobody has as well: nobody can have one next.
LeftOnRecord ==
    \A a \in Addr :
        table[a] \notin {Nobody, Self, owner[a]}
            => a \in left \/ \E r \in Reqs : req[r].pc = "forget" /\ req[r].addr = a

\* What a Load holds is the table, or the table has changed since.
SnapCurrent ==
    \A r \in Reqs :
        req[r].pc = "read" => req[r].behind \/ req[r].snap = table

-----------------------------------------------------------------------------

\* Losing an address changes nothing else about a request.
Same(x, y) ==
    /\ x.pc = y.pc /\ x.who = y.who /\ x.addr = y.addr
    /\ x.snap = y.snap /\ x.behind = y.behind

LEMMA OvertakenType ==
    ASSUME req \in [Reqs -> Req]
    PROVE  Overtaken(req) \in [Reqs -> Req]
<1>1. ASSUME NEW q \in Reqs
      PROVE  [req[q] EXCEPT !.lost = @ \/ \E a \in Addr :
                        /\ req[q].addr = a /\ req[q].pc \in {"opened", "forget"}
                        /\ owner'[a] # owner[a]] \in Req
  <2>1. req[q] \in Req
    OBVIOUS
  <2>2. (req[q].lost \/ \E a \in Addr :
                        /\ req[q].addr = a /\ req[q].pc \in {"opened", "forget"}
                        /\ owner'[a] # owner[a]) \in BOOLEAN
    OBVIOUS
  <2>3. QED
    BY <2>1, <2>2 DEF Req
<1>2. QED
  BY <1>1 DEF Overtaken

LEMMA OvertakenAt ==
    ASSUME req \in [Reqs -> Req], NEW r \in Reqs
    PROVE  /\ Same(Overtaken(req)[r], req[r])
           /\ req[r].lost => Overtaken(req)[r].lost
           /\ req[r].addr \in Addr /\ req[r].pc \in {"opened", "forget"}
                /\ owner'[req[r].addr] # owner[req[r].addr]
              => Overtaken(req)[r].lost
  BY DEF Overtaken, Same, Req

LEMMA IdleType == Idle \in Req /\ Idle.pc = "idle"
  BY DEF Idle, Req, Author, Step

LEMMA BegunType ==
    ASSUME NEW pc \in Step, NEW w \in Author, NEW a \in Addr
    PROVE  /\ Begun(pc, w, a) \in Req
           /\ [Begun(pc, w, a) EXCEPT !.lost = TRUE] \in Req
  BY DEF Idle, Begun, Req, Author, Step

LEMMA ReadType ==
    ASSUME NEW t \in Saved
    PROVE  [Idle EXCEPT !.pc = "read", !.snap = t] \in Req
  BY DEF Idle, Req, Author, Step

\* What a statement leaves of every request: its own has Load to do.
LEMMA WriteAt ==
    ASSUME TypeOK, NEW r \in Reqs, req[r].addr \in Addr, NEW v \in Author,
           Write(r, v)
    PROVE  /\ table' \in Saved
           /\ \A a \in Addr : table'[a] = IF a = req[r].addr THEN v ELSE table[a]
           /\ req' \in [Reqs -> Req]
           /\ req'[r].pc = "wrote"
           /\ \A q \in Reqs \ {r} :
                 /\ req'[q].pc = req[q].pc /\ req'[q].who = req[q].who
                 /\ req'[q].addr = req[q].addr /\ req'[q].snap = req[q].snap
                 /\ req'[q].lost = req[q].lost
                 /\ req[q].behind => req'[q].behind
                 /\ req[q].pc = "read" /\ table' # table => req'[q].behind
<1>1. [Idle EXCEPT !.pc = "wrote"] \in Req /\ [Idle EXCEPT !.pc = "wrote"].pc = "wrote"
  BY DEF Idle, Req, Author, Step
<1>2. ASSUME NEW q \in Reqs
      PROVE  [req[q] EXCEPT !.behind = @ \/ (req[q].pc = "read"
                                             /\ table' # table)] \in Req
  <2>1. (req[q].behind \/ (req[q].pc = "read" /\ table' # table)) \in BOOLEAN
    OBVIOUS
  <2>2. req[q] \in Req
    BY DEF TypeOK
  <2>3. QED
    BY <2>1, <2>2 DEF Req
<1>3. req' \in [Reqs -> Req]
  BY <1>1, <1>2 DEF Write, Written
<1>4. QED
  BY <1>1, <1>3 DEF Write, Written, TypeOK, Req, Saved

\* What Detach leaves: the request goes on to forget the address it read,
\* whatever the address of the row it deleted was by then, or it is over.
LEMMA DetachAt ==
    ASSUME Typed, NEW r \in Reqs, Detach(r)
    PROVE  /\ req' \in [Reqs -> Req]
           /\ \A q \in Reqs \ {r} :
                 /\ Same(req'[q], req[q])
                 /\ req[q].lost => req'[q].lost
                 /\ req[q].addr \in Addr /\ req[q].pc \in {"opened", "forget"}
                      /\ owner'[req[q].addr] # owner[req[q].addr]
                    => req'[q].lost
           /\ \/ /\ req'[r].pc = "forget" /\ req'[r].who = req[r].who
                 /\ req'[r].addr = req[r].addr
                 /\ owner[req[r].addr] = req[r].who
                 /\ owner' = [owner EXCEPT ![req[r].addr] = Nobody]
                 /\ left' = left
              \/ /\ req'[r].pc = "forget" /\ req'[r].who = req[r].who
                 /\ req'[r].addr = req[r].addr
                 /\ \E b \in Addr :
                       /\ owner[b] = req[r].who
                       /\ owner' = [owner EXCEPT ![b] = Nobody]
                       /\ left' = left \union {b}
              \/ req'[r].pc = "idle" /\ owner' = owner /\ left' = left
<1> DEFINE u == req[r].who
           a == req[r].addr
<1>1. /\ req \in [Reqs -> Req] /\ Overtaken(req) \in [Reqs -> Req]
      /\ a \in Addr /\ u \in Users /\ u \in Author /\ req[r].pc = "confirmed"
  BY OvertakenType DEF Typed, TypeOK, Placed, Detach, Author
<1>2. Begun("forget", u, a) \in Req /\ Begun("forget", u, a).pc = "forget"
      /\ Begun("forget", u, a).who = u /\ Begun("forget", u, a).addr = a
      /\ [Begun("forget", u, a) EXCEPT !.lost = TRUE] \in Req
      /\ Same([Begun("forget", u, a) EXCEPT !.lost = TRUE], Begun("forget", u, a))
  BY <1>1, BegunType DEF Begun, Idle, Step, Same
<1>3. CASE /\ Has!Release(u, a)
           /\ req' = [Overtaken(req) EXCEPT ![r] = Begun("forget", u, a)]
           /\ UNCHANGED left
  BY <1>1, <1>2, <1>3, OvertakenAt DEF Has!Release
<1>4. CASE \E b \in Addr \ {a} :
              /\ owner[a] # u /\ Has!Release(u, b)
              /\ req' = [Overtaken(req) EXCEPT
                            ![r] = [Begun("forget", u, a) EXCEPT !.lost = TRUE]]
              /\ left' = left \union {b}
  <2>1. PICK b \in Addr : Has!Release(u, b) /\ left' = left \union {b}
    BY <1>4
  <2>2. \A q \in Reqs \ {r} : req'[q] = Overtaken(req)[q]
    BY <1>1, <1>4
  <2>3. /\ req' \in [Reqs -> Req]
        /\ Same(req'[r], Begun("forget", u, a))
    BY <1>1, <1>2, <1>4
  <2>4. QED
    BY ZenonT(40), <1>1, <1>2, <2>1, <2>2, <2>3, OvertakenAt DEF Has!Release, Same
<1>5. CASE owner[a] # u /\ req' = [req EXCEPT ![r] = Idle] /\ UNCHANGED <<owner, left>>
  BY <1>1, <1>5, IdleType DEF Same
<1>6. QED
  BY <1>3, <1>4, <1>5 DEF Detach

LEMMA SelectAt ==
    ASSUME Typed, NEW r \in Reqs, Select(r)
    PROVE  /\ \A q \in Reqs \ {r} : req'[q] = req[q]
           /\ \/ req'[r].pc = "read" /\ req'[r].snap = table /\ stale' = stale
              \/ req'[r].pc = "idle" /\ stale'
<1>1. req \in [Reqs -> Req]
  BY DEF Typed, TypeOK
<1>2. CASE req' = [req EXCEPT ![r] = Idle] /\ stale' = TRUE
  BY <1>1, <1>2, IdleType
<1>3. CASE /\ req' = [req EXCEPT ![r] = [Idle EXCEPT !.pc = "read", !.snap = table]]
           /\ UNCHANGED stale
  BY <1>1, <1>3 DEF Idle
<1>4. QED
  BY <1>2, <1>3 DEF Select

LEMMA TypeStep == Typed /\ [Next]_vars => Typed'
<1> SUFFICES ASSUME Typed, [Next]_vars PROVE Typed'
  OBVIOUS
<1> USE DEF Typed, TypeOK, Placed, Has!TypeOK, Saved, Author, Step
<1>1. ASSUME NEW a \in Addr, SignIn(a) PROVE Typed'
  <2>1. req' \in [Reqs -> Req] /\ \A r \in Reqs : Same(req'[r], req[r])
    BY <1>1, OvertakenType, OvertakenAt DEF SignIn
  <2>2. owner' \in [Addr -> Users \union {Self, Nobody}]
    BY <1>1 DEF SignIn, Has!SignIn
  <2>3. Placed'
    BY <2>1 DEF Same
  <2>4. QED
    BY <2>1, <2>2, <2>3, <1>1 DEF SignIn
<1>2. ASSUME NEW a \in Addr, SignOut(a) PROVE Typed'
  BY <1>2 DEF SignOut
<1>3. ASSUME NEW u \in Users, NEW a \in Addr, Attach(u, a) PROVE Typed'
  <2>1. req' \in [Reqs -> Req] /\ \A r \in Reqs : Same(req'[r], req[r])
    BY <1>3, OvertakenType, OvertakenAt DEF Attach
  <2>2. owner' \in [Addr -> Users \union {Self, Nobody}]
    BY <1>3 DEF Attach, Has!Take
  <2>3. Placed'
    BY <2>1 DEF Same
  <2>4. QED
    BY <2>1, <2>2, <2>3, <1>3 DEF Attach
<1>4. ASSUME NEW u \in Users, NEW a \in Addr, NEW b \in Addr, Rename(u, a, b)
    PROVE Typed'
  <2>1. req' \in [Reqs -> Req] /\ \A r \in Reqs : Same(req'[r], req[r])
    BY <1>4, OvertakenType, OvertakenAt DEF Rename
  <2>2. owner' \in [Addr -> Users \union {Self, Nobody}]
    BY <1>4 DEF Rename, Has!Rename
  <2>3. Placed'
    BY <2>1 DEF Same
  <2>4. QED
    BY <2>1, <2>2, <2>3, <1>4 DEF Rename
<1>5. ASSUME NEW u \in Users, RemoveAccount(u) PROVE Typed'
  <2>1. req' \in [Reqs -> Req] /\ \A r \in Reqs : Same(req'[r], req[r])
    BY <1>5, OvertakenType, OvertakenAt DEF RemoveAccount
  <2>2. owner' \in [Addr -> Users \union {Self, Nobody}]
    BY <1>5 DEF RemoveAccount, Has!Remove
  <2>3. Placed'
    BY <2>1 DEF Same
  <2>4. QED
    BY <2>1, <2>2, <2>3, <1>5 DEF RemoveAccount
<1>6. ASSUME NEW r \in Reqs, NEW w \in Users \union {Self}, NEW a \in Addr,
    Open(r, w, a) PROVE Typed'
  <2>1. [req EXCEPT ![r] = Begun("opened", w, a)] \in [Reqs -> Req]
    BY BegunType
  <2>2. Placed'
    BY <1>6 DEF Open, Begun, Idle, Req
  <2>3. QED
    BY <2>1, <2>2, <1>6 DEF Open
<1>7. ASSUME NEW r \in Reqs, NEW u \in Users, NEW a \in Addr, Confirm(r, u, a)
    PROVE Typed'
  <2>1. [req EXCEPT ![r] = Begun("confirmed", u, a)] \in [Reqs -> Req]
    BY BegunType
  <2>2. Placed'
    BY <1>7 DEF Confirm, Begun, Idle, Req
  <2>3. QED
    BY <2>1, <2>2, <1>7 DEF Confirm
<1>8. ASSUME NEW r \in Reqs, Set(r) PROVE Typed'
  <2>1. CASE \E v \in Author : Write(r, v)
    <3>1. PICK v \in Author : Write(r, v)
      BY <2>1
    <3>2. table' \in Saved /\ req' \in [Reqs -> Req] /\ Placed'
      BY <3>1, <1>8, WriteAt DEF Set
    <3>3. QED
      BY <3>2, <1>8 DEF Set
  <2>2. CASE req' = [req EXCEPT ![r] = Idle] /\ UNCHANGED <<table, left>>
    <3>1. req' \in [Reqs -> Req] /\ Placed'
      BY <2>2, IdleType
    <3>2. QED
      BY <2>2, <3>1, <1>8 DEF Set
  <2>3. QED
    BY <2>1, <2>2, <1>8 DEF Set
<1>9. ASSUME NEW r \in Reqs, Detach(r) PROVE Typed'
  <2>1. req' \in [Reqs -> Req] /\ Placed'
    BY <1>9, DetachAt DEF Same, Detach
  <2>2. owner' \in [Addr -> Users \union {Self, Nobody}] /\ left' \subseteq Addr
    BY <1>9, DetachAt
  <2>3. QED
    BY <2>1, <2>2, <1>9 DEF Detach
<1>10. ASSUME NEW r \in Reqs, Forget(r) PROVE Typed'
  <2>1. left' \subseteq Addr
    BY <1>10 DEF Forget
  <2>2. CASE Write(r, Nobody)
    <3>1. table' \in Saved /\ req' \in [Reqs -> Req] /\ Placed'
      BY <2>2, <1>10, WriteAt DEF Forget
    <3>2. QED
      BY <2>1, <3>1, <1>10 DEF Forget
  <2>3. CASE req' = [req EXCEPT ![r] = Idle] /\ UNCHANGED table
    <3>1. req' \in [Reqs -> Req] /\ Placed'
      BY <2>3, IdleType
    <3>2. QED
      BY <2>1, <2>3, <3>1, <1>10 DEF Forget
  <2>4. QED
    BY <2>2, <2>3, <1>10 DEF Forget
<1>11. ASSUME NEW r \in Reqs, Select(r) PROVE Typed'
  <2>1. [Idle EXCEPT !.pc = "read", !.snap = table] \in Req
    BY ReadType
  <2>2. req' \in [Reqs -> Req]
    BY <2>1, IdleType, <1>11 DEF Select
  <2>3. Placed'
    <3>1. CASE req' = [req EXCEPT ![r] = Idle]
      BY <3>1, IdleType
    <3>2. CASE req' = [req EXCEPT ![r] = [Idle EXCEPT !.pc = "read", !.snap = table]]
      BY <3>2, IdleType DEF Idle
    <3>3. QED
      BY <3>1, <3>2, <1>11 DEF Select
  <2>4. QED
    BY <2>2, <2>3, <1>11 DEF Select
<1>12. ASSUME NEW r \in Reqs, Publish(r) PROVE Typed'
  <2>1. req' \in [Reqs -> Req] /\ Placed'
    BY IdleType, <1>12 DEF Publish
  <2>2. stale' \in BOOLEAN
    BY <1>12 DEF Publish, Req
  <2>3. QED
    BY <2>1, <2>2, <1>12 DEF Publish
<1>13. CASE Restart
  <2>1. req' \in [Reqs -> Req] /\ Placed'
    BY IdleType, <1>13 DEF Restart
  <2>2. left' \subseteq Addr
    BY <1>13 DEF Restart
  <2>3. QED
    BY <2>1, <2>2, <1>13 DEF Restart
<1>14. CASE UNCHANGED vars
  BY <1>14 DEF vars
<1>15. QED
  BY <1>1, <1>2, <1>3, <1>4, <1>5, <1>6, <1>7, <1>8, <1>9, <1>10, <1>11, <1>12,
      <1>13, <1>14 DEF Next

LEMMA OwnStep == Typed /\ OpenedIsOwn /\ [Next]_vars => OpenedIsOwn'
<1> SUFFICES ASSUME Typed /\ OpenedIsOwn, [Next]_vars PROVE OpenedIsOwn'
  OBVIOUS
<1> USE DEF Typed, TypeOK, Placed, Same, OpenedIsOwn, Has!TypeOK, Saved, Author,
    Req, Step, Idle, Begun, Written
<1>1. ASSUME NEW a \in Addr, SignIn(a) PROVE OpenedIsOwn'
  BY <1>1, OvertakenAt DEF SignIn, Has!SignIn
<1>2. ASSUME NEW a \in Addr, SignOut(a) PROVE OpenedIsOwn'
  BY <1>2 DEF SignOut
<1>3. ASSUME NEW u \in Users, NEW a \in Addr, Attach(u, a) PROVE OpenedIsOwn'
  BY <1>3, OvertakenAt DEF Attach, Has!Take
<1>4. ASSUME NEW u \in Users, NEW a \in Addr, NEW b \in Addr, Rename(u, a, b)
    PROVE OpenedIsOwn'
  BY <1>4, OvertakenAt DEF Rename, Has!Rename
<1>5. ASSUME NEW u \in Users, RemoveAccount(u) PROVE OpenedIsOwn'
  BY <1>5, OvertakenAt DEF RemoveAccount, Has!Remove
<1>6. ASSUME NEW r \in Reqs, NEW w \in Users \union {Self}, NEW a \in Addr,
    Open(r, w, a) PROVE OpenedIsOwn'
  BY <1>6 DEF Open
<1>7. ASSUME NEW r \in Reqs, NEW u \in Users, NEW a \in Addr, Confirm(r, u, a)
    PROVE OpenedIsOwn'
  BY <1>7 DEF Confirm
<1>8. ASSUME NEW r \in Reqs, Set(r) PROVE OpenedIsOwn'
  BY <1>8 DEF Set, Write
<1>9. ASSUME NEW r \in Reqs, Detach(r) PROVE OpenedIsOwn'
  BY <1>9, DetachAt DEF Same, Typed, TypeOK, Placed, OpenedIsOwn, Has!TypeOK
<1>10. ASSUME NEW r \in Reqs, Forget(r) PROVE OpenedIsOwn'
  BY <1>10 DEF Forget, Write
<1>11. ASSUME NEW r \in Reqs, Select(r) PROVE OpenedIsOwn'
  BY ZenonT(40), <1>11, SelectAt DEF OpenedIsOwn, Select
<1>12. ASSUME NEW r \in Reqs, Publish(r) PROVE OpenedIsOwn'
  BY <1>12 DEF Publish
<1>13. CASE Restart
  BY <1>13 DEF Restart
<1>14. CASE UNCHANGED vars
  BY <1>14 DEF vars
<1>15. QED
  BY <1>1, <1>2, <1>3, <1>4, <1>5, <1>6, <1>7, <1>8, <1>9, <1>10, <1>11, <1>12,
      <1>13, <1>14 DEF Next

LEMMA LeftStep == Typed /\ OpenedIsOwn /\ LeftOnRecord /\ [Next]_vars => LeftOnRecord'
<1> SUFFICES ASSUME Typed /\ OpenedIsOwn /\ LeftOnRecord, [Next]_vars PROVE LeftOnRecord'
  OBVIOUS
<1> USE DEF Typed, TypeOK, Placed, Same, OpenedIsOwn, LeftOnRecord, Has!TypeOK,
    Saved, Author, Req, Step, Idle, Begun, Written
<1>1. ASSUME NEW a \in Addr, SignIn(a) PROVE LeftOnRecord'
  BY <1>1, OvertakenAt DEF SignIn, Has!SignIn
<1>2. ASSUME NEW a \in Addr, SignOut(a) PROVE LeftOnRecord'
  BY <1>2 DEF SignOut
<1>3. ASSUME NEW u \in Users, NEW a \in Addr, Attach(u, a) PROVE LeftOnRecord'
  BY <1>3, OvertakenAt DEF Attach, Has!Take
<1>4. ASSUME NEW u \in Users, NEW a \in Addr, NEW b \in Addr, Rename(u, a, b)
    PROVE LeftOnRecord'
  BY <1>4, OvertakenAt DEF Rename, Has!Rename
<1>5. ASSUME NEW u \in Users, RemoveAccount(u) PROVE LeftOnRecord'
  BY <1>5, OvertakenAt DEF RemoveAccount, Has!Remove
<1>6. ASSUME NEW r \in Reqs, NEW w \in Users \union {Self}, NEW a \in Addr,
    Open(r, w, a) PROVE LeftOnRecord'
  BY <1>6 DEF Open
<1>7. ASSUME NEW r \in Reqs, NEW u \in Users, NEW a \in Addr, Confirm(r, u, a)
    PROVE LeftOnRecord'
  BY <1>7 DEF Confirm
<1>8. ASSUME NEW r \in Reqs, Set(r) PROVE LeftOnRecord'
  BY <1>8 DEF Set, Write
<1>9. ASSUME NEW r \in Reqs, Detach(r) PROVE LeftOnRecord'
  <2> SUFFICES ASSUME NEW a \in Addr, table'[a] \notin {Nobody, Self, owner'[a]}
               PROVE  a \in left'
                        \/ \E q \in Reqs : req'[q].pc = "forget" /\ req'[q].addr = a
    BY DEF LeftOnRecord
  <2> HIDE DEF Typed, TypeOK, Req, Idle, Begun, Written, Saved
  <2>1. table' = table /\ req[r].pc = "confirmed" /\ owner \in [Addr -> Users \union {Self, Nobody}]
    BY <1>9 DEF Detach, Typed, TypeOK
  <2>2. \A q \in Reqs : req[q].pc = "forget" =>
                  req'[q].pc = "forget" /\ req'[q].addr = req[q].addr
    BY <2>1, <1>9, DetachAt DEF Same
  <2>3. CASE table[a] # owner[a]
    <3>1. left \subseteq left'
      BY <1>9, DetachAt
    <3>2. QED
      BY <2>1, <2>2, <2>3, <3>1
  <2>4. CASE table[a] = owner[a]
    <3>1. owner'[a] # owner[a]
      BY <2>1, <2>4
    <3>2. QED
      BY <2>1, <3>1, <1>9, DetachAt
  <2>5. QED
    BY <2>3, <2>4
<1>10. ASSUME NEW r \in Reqs, Forget(r) PROVE LeftOnRecord'
  BY <1>10 DEF Forget, Write
<1>11. ASSUME NEW r \in Reqs, Select(r) PROVE LeftOnRecord'
  <2>1. \A q \in Reqs : req[q].pc = "forget" => req'[q] = req[q]
    BY <1>11, SelectAt DEF Select
  <2>2. QED
    BY <2>1, <1>11 DEF Select
<1>12. ASSUME NEW r \in Reqs, Publish(r) PROVE LeftOnRecord'
  BY <1>12 DEF Publish
<1>13. CASE Restart
  BY <1>13 DEF Restart
<1>14. CASE UNCHANGED vars
  BY <1>14 DEF vars
<1>15. QED
  BY <1>1, <1>2, <1>3, <1>4, <1>5, <1>6, <1>7, <1>8, <1>9, <1>10, <1>11, <1>12,
      <1>13, <1>14 DEF Next

LEMMA SnapStep == Typed /\ SnapCurrent /\ [Next]_vars => SnapCurrent'
<1> SUFFICES ASSUME Typed /\ SnapCurrent, [Next]_vars PROVE SnapCurrent'
  OBVIOUS
<1> USE DEF Typed, TypeOK, Placed, Same, SnapCurrent, Has!TypeOK, Saved, Author,
    Req, Step, Idle, Begun, Written
<1>1. ASSUME NEW a \in Addr, SignIn(a) PROVE SnapCurrent'
  BY <1>1, OvertakenAt DEF SignIn, Has!SignIn
<1>2. ASSUME NEW a \in Addr, SignOut(a) PROVE SnapCurrent'
  BY <1>2 DEF SignOut
<1>3. ASSUME NEW u \in Users, NEW a \in Addr, Attach(u, a) PROVE SnapCurrent'
  BY <1>3, OvertakenAt DEF Attach, Has!Take
<1>4. ASSUME NEW u \in Users, NEW a \in Addr, NEW b \in Addr, Rename(u, a, b)
    PROVE SnapCurrent'
  BY <1>4, OvertakenAt DEF Rename, Has!Rename
<1>5. ASSUME NEW u \in Users, RemoveAccount(u) PROVE SnapCurrent'
  BY <1>5, OvertakenAt DEF RemoveAccount, Has!Remove
<1>6. ASSUME NEW r \in Reqs, NEW w \in Users \union {Self}, NEW a \in Addr,
    Open(r, w, a) PROVE SnapCurrent'
  BY <1>6 DEF Open
<1>7. ASSUME NEW r \in Reqs, NEW u \in Users, NEW a \in Addr, Confirm(r, u, a)
    PROVE SnapCurrent'
  BY <1>7 DEF Confirm
<1>8. ASSUME NEW r \in Reqs, Set(r) PROVE SnapCurrent'
  <2>1. CASE \E v \in Author : Write(r, v)
    <3>1. PICK v \in Author : Write(r, v)
      BY <2>1
    <3>2. QED
      BY <3>1, <1>8, WriteAt DEF Set
  <2>2. CASE req' = [req EXCEPT ![r] = Idle] /\ UNCHANGED <<table, left>>
    BY <2>2, IdleType
  <2>3. QED
    BY <2>1, <2>2, <1>8 DEF Set
<1>9. ASSUME NEW r \in Reqs, Detach(r) PROVE SnapCurrent'
  <2> SUFFICES ASSUME NEW q \in Reqs, req'[q].pc = "read"
               PROVE  req'[q].behind \/ req'[q].snap = table'
    BY DEF SnapCurrent
  <2> HIDE DEF Typed, TypeOK, Req, Idle, Begun, Written, Saved
  <2>1. table' = table
    BY <1>9 DEF Detach
  <2>2. q # r
    BY <1>9, DetachAt
  <2>3. QED
    BY <2>1, <2>2, <1>9, DetachAt
<1>10. ASSUME NEW r \in Reqs, Forget(r) PROVE SnapCurrent'
  <2>1. CASE Write(r, Nobody)
    BY <2>1, <1>10, WriteAt DEF Forget
  <2>2. CASE req' = [req EXCEPT ![r] = Idle] /\ UNCHANGED table
    BY <2>2, IdleType
  <2>3. QED
    BY <2>1, <2>2, <1>10 DEF Forget
<1>11. ASSUME NEW r \in Reqs, Select(r) PROVE SnapCurrent'
  BY <1>11, SelectAt DEF SnapCurrent, Select
<1>12. ASSUME NEW r \in Reqs, Publish(r) PROVE SnapCurrent'
  BY <1>12 DEF Publish
<1>13. CASE Restart
  BY <1>13 DEF Restart
<1>14. CASE UNCHANGED vars
  BY <1>14 DEF vars
<1>15. QED
  BY <1>1, <1>2, <1>3, <1>4, <1>5, <1>6, <1>7, <1>8, <1>9, <1>10, <1>11, <1>12,
      <1>13, <1>14 DEF Next

LEMMA CacheStep == Typed /\ SnapCurrent /\ CacheCurrent /\ [Next]_vars => CacheCurrent'
<1> SUFFICES ASSUME Typed /\ SnapCurrent /\ CacheCurrent, [Next]_vars PROVE CacheCurrent'
  OBVIOUS
<1> USE DEF Typed, TypeOK, Placed, Same, SnapCurrent, CacheCurrent, Has!TypeOK,
    Saved, Author, Req, Step, Idle, Begun, Written
<1>1. ASSUME NEW a \in Addr, SignIn(a) PROVE CacheCurrent'
  BY <1>1, OvertakenAt DEF SignIn, Has!SignIn
<1>2. ASSUME NEW a \in Addr, SignOut(a) PROVE CacheCurrent'
  BY <1>2 DEF SignOut
<1>3. ASSUME NEW u \in Users, NEW a \in Addr, Attach(u, a) PROVE CacheCurrent'
  BY <1>3, OvertakenAt DEF Attach, Has!Take
<1>4. ASSUME NEW u \in Users, NEW a \in Addr, NEW b \in Addr, Rename(u, a, b)
    PROVE CacheCurrent'
  BY <1>4, OvertakenAt DEF Rename, Has!Rename
<1>5. ASSUME NEW u \in Users, RemoveAccount(u) PROVE CacheCurrent'
  BY <1>5, OvertakenAt DEF RemoveAccount, Has!Remove
<1>6. ASSUME NEW r \in Reqs, NEW w \in Users \union {Self}, NEW a \in Addr,
    Open(r, w, a) PROVE CacheCurrent'
  BY <1>6 DEF Open
<1>7. ASSUME NEW r \in Reqs, NEW u \in Users, NEW a \in Addr, Confirm(r, u, a)
    PROVE CacheCurrent'
  BY <1>7 DEF Confirm
<1>8. ASSUME NEW r \in Reqs, Set(r) PROVE CacheCurrent'
  BY <1>8 DEF Set, Write
<1>9. ASSUME NEW r \in Reqs, Detach(r) PROVE CacheCurrent'
  BY ZenonT(40), <1>9, DetachAt DEF Same, Typed, CacheCurrent, Detach
<1>10. ASSUME NEW r \in Reqs, Forget(r) PROVE CacheCurrent'
  BY <1>10 DEF Forget, Write
<1>11. ASSUME NEW r \in Reqs, Select(r) PROVE CacheCurrent'
  BY <1>11, SelectAt DEF CacheCurrent, Select
<1>12. ASSUME NEW r \in Reqs, Publish(r) PROVE CacheCurrent'
  BY <1>12 DEF Publish
<1>13. CASE Restart
  BY <1>13 DEF Restart
<1>14. CASE UNCHANGED vars
  BY <1>14 DEF vars
<1>15. QED
  BY <1>1, <1>2, <1>3, <1>4, <1>5, <1>6, <1>7, <1>8, <1>9, <1>10, <1>11, <1>12,
      <1>13, <1>14 DEF Next

IInv ==
    /\ Typed
    /\ OpenedIsOwn
    /\ LeftOnRecord
    /\ SnapCurrent
    /\ CacheCurrent

LEMMA InitIInv == Init => IInv
<1> SUFFICES ASSUME Init PROVE IInv
  OBVIOUS
<1>1. req \in [Reqs -> Req] /\ \A r \in Reqs : req[r].pc = "idle"
  BY IdleType DEF Init
<1>2. TypeOK
  BY <1>1 DEF Init, TypeOK, Has!Init, Has!TypeOK, Saved, Author
<1>3. QED
  BY <1>1, <1>2 DEF Init, IInv, Typed, Placed, OpenedIsOwn, LeftOnRecord,
                    SnapCurrent, CacheCurrent

LEMMA IInvStep == IInv /\ [Next]_vars => IInv'
  BY TypeStep, OwnStep, LeftStep, SnapStep, CacheStep DEF IInv

\* The invariant holds in every state of every behaviour.
THEOREM PreferencesInvariant == Spec => []IInv
  BY InitIInv, IInvStep, PTL DEF Spec

-----------------------------------------------------------------------------

\* The variables keep their types.
THEOREM PreferencesTypes == Spec => []TypeOK
<1>1. IInv => TypeOK
  BY DEF IInv, Typed
<1> QED
  BY <1>1, PreferencesInvariant, PTL

\* An address is handed over without what the account before it had saved,
\* except where the code forgets nothing (handleMailboxesDelete).
THEOREM InheritedTheorem == Spec => []NothingInherited
<1>1. IInv => NothingInherited
  BY DEF IInv, LeftOnRecord, NothingInherited
<1> QED
  BY <1>1, PreferencesInvariant, PTL

\* What every request reads is what is stored, once the writers are done, but
\* for a Load that failed or published a table already written over.
THEOREM CacheTheorem == Spec => []CacheCurrent
<1>1. IInv => CacheCurrent
  BY DEF IInv
<1> QED
  BY <1>1, PreferencesInvariant, PTL

-----------------------------------------------------------------------------
(* Preferences an account saved stand.                                     *)

\* Nobody has the address a request is about to forget, unless it changed hands
\* since the request deleted the row.
ForgetsNobodys ==
    \A r \in Reqs :
        req[r].pc = "forget" /\ ~ req[r].lost => owner[req[r].addr] = Nobody

\* The row Detach deleted was the address's, or the address was lost by then.
LEMMA DetachNobodys ==
    ASSUME Typed, NEW r \in Reqs, Detach(r), req'[r].pc = "forget", ~ req'[r].lost
    PROVE  owner'[req'[r].addr] = Nobody
<1> DEFINE u == req[r].who
           a == req[r].addr
           begun == Begun("forget", u, a)
<1>1. /\ Overtaken(req) \in [Reqs -> Req]
      /\ a \in Addr /\ u \in Users /\ req[r].pc = "confirmed"
      /\ req \in [Reqs -> Req] /\ owner \in [Addr -> Users \union {Self, Nobody}]
  BY OvertakenType DEF Typed, TypeOK, Placed, Detach, Has!TypeOK
<1>2. begun.addr = a /\ [begun EXCEPT !.lost = TRUE].lost
  BY DEF Begun, Idle
<1> HIDE DEF begun, a, u
<1>3. CASE /\ Has!Release(u, a)
           /\ req' = [Overtaken(req) EXCEPT ![r] = begun]
  <2>1. req'[r] = begun
    BY <1>1, <1>3
  <2>2. owner'[a] = Nobody
    BY <1>1, <1>3 DEF Has!Release
  <2>3. QED
    BY <1>2, <2>1, <2>2
<1>4. CASE req' = [Overtaken(req) EXCEPT ![r] = [begun EXCEPT !.lost = TRUE]]
  <2>1. req'[r] = [begun EXCEPT !.lost = TRUE]
    BY <1>1, <1>4
  <2>2. QED
    BY <1>2, <2>1
<1>5. CASE req' = [req EXCEPT ![r] = Idle]
  BY <1>1, <1>5, IdleType
<1>6. QED
  BY <1>3, <1>4, <1>5 DEF Detach, begun, a, u

LEMMA NobodysStep == Typed /\ ForgetsNobodys /\ [Next]_vars => ForgetsNobodys'
<1> SUFFICES ASSUME Typed /\ ForgetsNobodys, [Next]_vars PROVE ForgetsNobodys'
  OBVIOUS
<1> USE DEF Typed, TypeOK, Placed, Same, ForgetsNobodys, Has!TypeOK, Saved, Author,
    Req, Step, Idle, Begun, Written
<1>1. ASSUME NEW a \in Addr, SignIn(a) PROVE ForgetsNobodys'
  BY <1>1, OvertakenAt DEF SignIn, Has!SignIn
<1>2. ASSUME NEW a \in Addr, SignOut(a) PROVE ForgetsNobodys'
  BY <1>2 DEF SignOut
<1>3. ASSUME NEW u \in Users, NEW a \in Addr, Attach(u, a) PROVE ForgetsNobodys'
  BY <1>3, OvertakenAt DEF Attach, Has!Take
<1>4. ASSUME NEW u \in Users, NEW a \in Addr, NEW b \in Addr, Rename(u, a, b)
    PROVE ForgetsNobodys'
  BY <1>4, OvertakenAt DEF Rename, Has!Rename
<1>5. ASSUME NEW u \in Users, RemoveAccount(u) PROVE ForgetsNobodys'
  BY <1>5, OvertakenAt DEF RemoveAccount, Has!Remove
<1>6. ASSUME NEW r \in Reqs, NEW w \in Users \union {Self}, NEW a \in Addr,
    Open(r, w, a) PROVE ForgetsNobodys'
  BY <1>6 DEF Open
<1>7. ASSUME NEW r \in Reqs, NEW u \in Users, NEW a \in Addr, Confirm(r, u, a)
    PROVE ForgetsNobodys'
  BY <1>7 DEF Confirm
<1>8. ASSUME NEW r \in Reqs, Set(r) PROVE ForgetsNobodys'
  BY <1>8 DEF Set, Write
<1>9. ASSUME NEW r \in Reqs, Detach(r) PROVE ForgetsNobodys'
  <2> HIDE DEF Typed, TypeOK, Req, Idle, Begun, Written, Saved, ForgetsNobodys
  <2>1. ASSUME NEW q \in Reqs \ {r}, req'[q].pc = "forget", ~ req'[q].lost
        PROVE  owner'[req'[q].addr] = Nobody
    <3>1. Same(req'[q], req[q]) /\ ~ req[q].lost
      BY <1>9, <2>1, DetachAt
    <3>2. req[q].addr \in Addr
      BY <2>1, <3>1 DEF Typed, Same
    <3>3. owner'[req[q].addr] = owner[req[q].addr]
      BY <1>9, <2>1, <3>1, <3>2, DetachAt DEF Same
    <3>4. QED
      BY <2>1, <3>1, <3>3 DEF Same, ForgetsNobodys
  <2>2. QED
    BY <1>9, <2>1, DetachNobodys DEF ForgetsNobodys
<1>10. ASSUME NEW r \in Reqs, Forget(r) PROVE ForgetsNobodys'
  BY <1>10 DEF Forget, Write
<1>11. ASSUME NEW r \in Reqs, Select(r) PROVE ForgetsNobodys'
  BY ZenonT(40), <1>11, SelectAt DEF ForgetsNobodys, Select
<1>12. ASSUME NEW r \in Reqs, Publish(r) PROVE ForgetsNobodys'
  BY <1>12 DEF Publish
<1>13. CASE Restart
  BY <1>13 DEF Restart
<1>14. CASE UNCHANGED vars
  BY <1>14 DEF vars
<1>15. QED
  BY <1>1, <1>2, <1>3, <1>4, <1>5, <1>6, <1>7, <1>8, <1>9, <1>10, <1>11, <1>12,
      <1>13, <1>14 DEF Next

\* What OwnPrefsStand says of one step.
PrefsStand ==
    \A a \in Addr :
        owner[a] \in Users /\ table[a] = owner[a] /\ table'[a] # table[a]
            => \E r \in Reqs : /\ req[r].addr = a
                               /\ req[r].pc \in {"opened", "forget"}
                               /\ req[r].who \in {owner[a], Self} \/ req[r].lost

\* Only Set and Forget write the table, for the address they are about.
LEMMA TableWritten ==
    ASSUME Typed, [Next]_vars, NEW a \in Addr, table'[a] # table[a]
    PROVE  \E r \in Reqs : req[r].addr = a /\ req[r].pc \in {"opened", "forget"}
<1>1. PICK r \in Reqs : Set(r) \/ Forget(r)
  BY DEF Next, vars, SignIn, SignOut, Attach, Rename, RemoveAccount, Open, Confirm,
         Detach, Select, Publish, Restart
<1>2. req[r].pc \in {"opened", "forget"}
  BY <1>1 DEF Set, Forget
<1>3. table' # table
  OBVIOUS
<1>4. \E v : table' = [table EXCEPT ![req[r].addr] = v]
  BY <1>1, <1>3 DEF Set, Forget, Write
<1>5. req[r].addr = a
  BY <1>4 DEF Typed, TypeOK, Saved
<1>6. QED
  BY <1>2, <1>5

LEMMA PrefsStep ==
    ASSUME Typed, OpenedIsOwn, ForgetsNobodys, [Next]_vars PROVE PrefsStand
<1> SUFFICES ASSUME NEW a \in Addr, owner[a] \in Users, table'[a] # table[a]
             PROVE  \E r \in Reqs : /\ req[r].addr = a
                                    /\ req[r].pc \in {"opened", "forget"}
                                    /\ req[r].who \in {owner[a], Self} \/ req[r].lost
  BY DEF PrefsStand
<1>1. PICK r \in Reqs : req[r].addr = a /\ req[r].pc \in {"opened", "forget"}
  BY TableWritten
<1>2. req[r].who \in {owner[a], Self} \/ req[r].lost
  <2>1. CASE req[r].pc = "opened"
    BY <1>1, <2>1 DEF OpenedIsOwn
  <2>2. CASE req[r].pc = "forget"
    BY <1>1, <2>2, NobodyAssumption DEF ForgetsNobodys
  <2>3. QED
    BY <1>1, <2>1, <2>2
<1>3. QED
  BY <1>1, <1>2

\* What an account saved for an address it has is changed by its own requests,
\* a direct session's, or one the address changed hands under.
THEOREM OwnPrefsTheorem == Spec => OwnPrefsStand
<1>1. Init => ForgetsNobodys
  <2> SUFFICES ASSUME Init PROVE ForgetsNobodys
    OBVIOUS
  <2>1. \A r \in Reqs : req[r].pc = "idle"
    BY IdleType DEF Init
  <2>2. QED
    BY <2>1 DEF ForgetsNobodys
<1>2. IInv /\ ForgetsNobodys /\ [Next]_vars => ForgetsNobodys'
  BY NobodysStep DEF IInv
<1>3. IInv /\ ForgetsNobodys /\ [Next]_vars => [PrefsStand]_vars
  BY PrefsStep DEF IInv
<1>4. Spec => [][PrefsStand]_vars
  BY <1>1, <1>2, <1>3, PreferencesInvariant, PTL DEF Spec
<1>5. QED
  BY <1>4 DEF OwnPrefsStand, PrefsStand
=============================================================================
