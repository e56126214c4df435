--------------------------- MODULE MailboxesProofs ---------------------------
(***************************************************************************)
(* Proofs about Mailboxes, for every set of addresses, accounts, requests  *)
(* and sign-ins, and however many rows are ever inserted.                  *)
(***************************************************************************)
EXTENDS Mailboxes, FiniteSetTheorems, WellFoundedInduction, TLAPS

Typed ==
    /\ Live \subseteq Ids
    /\ rows \in [Live -> Row]
    /\ next \in 1 .. MaxId + 1
    /\ \A i \in Live : i < next
    /\ accounts \subseteq Users
    /\ tab \in [Tabs -> Tab]
    /\ dir \in [Directs -> Dir]
    /\ raced \subseteq Ids

\* What a request or a sign-in knows while it knows it, and that a number it
\* has read is not one still to be given.
Placed ==
    /\ \A t \in Tabs :
          /\ tab[t].pc # "idle" => tab[t].user \in Users /\ tab[t].addr \in Addr
          /\ tab[t].id < next
    /\ \A d \in Directs :
          /\ dir[d].pc # "out" => dir[d].addr \in Addr
          /\ dir[d].pc \in {"found", "put", "in", "set", "write"} =>
                dir[d].id \in Ids
          /\ dir[d].id < next

\* The unique index on email.
OneRow == \A i, j \in Live : rows[i].addr = rows[j].addr => i = j

\* From the lookup on, a direct sign-in's row is the address's and nobody's,
\* until it is claimed under the sign-in: nothing deletes or edits such a row.
RowIsOwn ==
    \A d \in Directs :
        dir[d].pc \in {"found", "put", "in", "set", "write"} /\ ~ dir[d].overtaken =>
            /\ dir[d].id \in Live
            /\ rows[dir[d].id].addr = dir[d].addr
            /\ rows[dir[d].id].owner = Nobody

\* A secret about to be written goes to a row nobody has, or to one that was
\* claimed under it.
WriteIsOwn ==
    \A d \in Directs :
        dir[d].pc = "write" /\ dir[d].id \in Live =>
            rows[dir[d].id].owner = Nobody \/ dir[d].id \in raced

-----------------------------------------------------------------------------

LEMMA TypedIsTypeOK == TypeOK <=> Typed
  BY DEF TypeOK, Typed, Live

\* Rows are alike but for the password and the default.
Alike(r, s) == r.addr = s.addr /\ r.owner = s.owner /\ r.totp = s.totp

LEMMA ClearedAt ==
    ASSUME Typed, NEW u, NEW K
    PROVE  /\ WithoutDefaults(rows, u, K) \in [Live -> Row]
           /\ \A j \in Live : Alike(WithoutDefaults(rows, u, K)[j], rows[j])
<1>1. ASSUME NEW j \in Live
      PROVE  [rows[j] EXCEPT !.dflt = FALSE] \in Row
  BY DEF Typed, Row
<1>2. WithoutDefaults(rows, u, K) \in [Live -> Row]
  BY <1>1 DEF WithoutDefaults, Typed, Live
<1>3. QED
  BY <1>2 DEF WithoutDefaults, Alike, Live, Typed, Row

LEMMA CreatedAt ==
    ASSUME Typed, NEW u \in Users, NEW a \in Addr, NEW ticked \in BOOLEAN
    PROVE  LET c == Created(u, a, ticked)
           IN  /\ c \in [Live \union {next} -> Row]
               /\ c[next].addr = a /\ c[next].owner = u /\ c[next].totp = Nobody
               /\ \A j \in Live : Alike(c[j], rows[j])
<1> DEFINE dflt == ticked \/ Of(u) = {}
           cleared == IF dflt THEN WithoutDefaults(rows, u, {}) ELSE rows
           r == [addr |-> a, owner |-> u, pw |-> TRUE, dflt |-> dflt, totp |-> Nobody]
<1>1. r \in Row
  BY DEF Row
<1>2. cleared \in [Live -> Row] /\ \A j \in Live : Alike(cleared[j], rows[j])
  BY ClearedAt DEF Typed, Alike
<1>3. next \notin Live
  BY MaxIdAssumption DEF Typed
<1>4. Created(u, a, ticked) = [j \in Live \union {next} |-> IF j = next THEN r ELSE cleared[j]]
  <2>1. DOMAIN cleared = Live
    BY <1>2
  <2>2. Created(u, a, ticked) = WithRow(cleared, next, r)
    BY DEF Created
  <2>3. QED
    BY <2>1, <2>2, Zenon DEF WithRow
<1> HIDE DEF cleared, r
<1>5. r.addr = a /\ r.owner = u /\ r.totp = Nobody
  BY DEF r
<1>6. QED
  BY <1>1, <1>2, <1>3, <1>4, <1>5

LEMMA EditedAt ==
    ASSUME Typed, NEW u \in Users, NEW i \in Live, NEW a \in Addr,
           NEW ticked \in BOOLEAN
    PROVE  LET e == Edited(u, i, a, ticked)
           IN  /\ e \in [Live -> Row]
               /\ e[i].addr = a
               /\ \A j \in Live : /\ e[j].owner = rows[j].owner
                                  /\ e[j].totp = rows[j].totp
                                  /\ j # i => e[j].addr = rows[j].addr
<1> DEFINE cleared == IF ticked THEN WithoutDefaults(rows, u, {i}) ELSE rows
<1>1. cleared \in [Live -> Row] /\ \A j \in Live : Alike(cleared[j], rows[j])
  BY ClearedAt DEF Typed, Alike
<1>2. Edited(u, i, a, ticked) = [cleared EXCEPT ![i].addr = a, ![i].dflt = ticked]
  BY Zenon DEF Edited
<1> HIDE DEF cleared
<1>3. ASSUME NEW j \in Live
      PROVE  [cleared[j] EXCEPT !.addr = a, !.dflt = ticked] \in Row
  BY <1>1 DEF Row
<1>4. /\ Edited(u, i, a, ticked) \in [Live -> Row]
      /\ Edited(u, i, a, ticked)[i] = [cleared[i] EXCEPT !.addr = a, !.dflt = ticked]
      /\ \A j \in Live \ {i} : Edited(u, i, a, ticked)[j] = cleared[j]
  BY <1>1, <1>2, <1>3
<1>5. cleared[i] \in Row
  BY <1>1
<1>6. QED
  BY ZenonT(40), <1>1, <1>4, <1>5 DEF Alike, Row

LEMMA WithoutAt ==
    ASSUME Typed, NEW S
    PROVE  /\ Without(rows, S) \in [Live \ S -> Row]
           /\ \A j \in Live \ S : Without(rows, S)[j] = rows[j]
  BY DEF Without, Typed, Live

LEMMA DetachedAt ==
    ASSUME Typed, NEW u \in Users, NEW i \in Live
    PROVE  /\ Detached(u, i) \in [Live \ {i} -> Row]
           /\ \A j \in Live \ {i} : Alike(Detached(u, i)[j], rows[j])
<1> DEFINE rest == Without(rows, {i})
           first == First(Of(u) \ {i})
<1>1. rest \in [Live \ {i} -> Row] /\ \A j \in Live \ {i} : rest[j] = rows[j]
  BY WithoutAt
<1>2. Detached(u, i) = [rest EXCEPT ![first].dflt = TRUE] \/ Detached(u, i) = rest
  BY Zenon DEF Detached
<1> HIDE DEF rest, first
<1>3. CASE Detached(u, i) = rest
  BY <1>1, <1>3 DEF Alike
<1>4. CASE Detached(u, i) = [rest EXCEPT ![first].dflt = TRUE]
  <2>1. ASSUME NEW j \in Live \ {i}
        PROVE  [rest[j] EXCEPT !.dflt = TRUE] \in Row
    BY <1>1 DEF Row
  <2>2. Detached(u, i) \in [Live \ {i} -> Row]
    BY <1>1, <1>4, <2>1
  <2>3. ASSUME NEW j \in Live \ {i} PROVE Alike(Detached(u, i)[j], rows[j])
    <3>1. rest[j] \in Row /\ rest[j] = rows[j]
      BY <1>1
    <3>2. Detached(u, i)[j] = rest[j] \/ Detached(u, i)[j] = [rest[j] EXCEPT !.dflt = TRUE]
      BY <1>1, <1>4
    <3>3. QED
      BY <3>1, <3>2 DEF Alike, Row
  <2>4. QED
    BY <2>2, <2>3
<1>5. QED
  BY <1>2, <1>3, <1>4

LEMMA InsertedAt ==
    ASSUME Typed, NEW a \in Addr
    PROVE  LET c == WithRow(rows, next, SelfOwned(a))
           IN  /\ c \in [Live \union {next} -> Row]
               /\ c[next].addr = a /\ c[next].owner = Nobody /\ c[next].totp = Nobody
               /\ \A j \in Live : c[j] = rows[j]
<1>1. next \notin Live
  BY MaxIdAssumption DEF Typed
<1>2. SelfOwned(a) \in Row
  BY DEF SelfOwned, Row
<1>3. QED
  BY <1>1, <1>2 DEF WithRow, SelfOwned, Live, Typed

\* What each statement leaves of the table.
LEMMA DetachEffect ==
    ASSUME Typed, NEW t \in Tabs, NEW u \in Users, NEW i \in Ids, Detach(t, u, i)
    PROVE  /\ i \in Live /\ rows[i].owner = u
           /\ Live' = Live \ {i} /\ rows' \in [Live' -> Row]
           /\ \A j \in Live' : Alike(rows'[j], rows[j])
<1>1. i \in Live /\ rows[i].owner = u /\ rows' = Detached(u, i)
  BY DEF Detach, Of
<1>2. /\ Detached(u, i) \in [Live \ {i} -> Row]
      /\ \A j \in Live \ {i} : Alike(Detached(u, i)[j], rows[j])
  BY <1>1, DetachedAt
<1>3. Live' = Live \ {i}
  BY <1>1, <1>2 DEF Live
<1>4. QED
  BY <1>1, <1>2, <1>3

LEMMA EditEffect ==
    ASSUME Typed, NEW t \in Tabs, NEW u \in Users, NEW i \in Ids, NEW a \in Addr,
           NEW ticked \in BOOLEAN, Edit(t, u, i, a, ticked)
    PROVE  /\ i \in Live /\ rows[i].owner = u
           /\ a = rows[i].addr \/ \A j \in Live : rows[j].addr # a
           /\ Live' = Live /\ rows' \in [Live' -> Row]
           /\ rows'[i].addr = a
           /\ \A j \in Live : /\ rows'[j].owner = rows[j].owner
                              /\ rows'[j].totp = rows[j].totp
                              /\ j # i => rows'[j].addr = rows[j].addr
<1>1. i \in Live /\ rows[i].owner = u /\ rows' = Edited(u, i, a, ticked)
  BY DEF Edit, Of
<1>2. rows' \in [Live -> Row]
  BY <1>1, EditedAt
<1>3. Live' = Live
  BY <1>2 DEF Live
<1>4. a = rows[i].addr \/ \A j \in Live : rows[j].addr # a
  BY DEF Edit, Free, Holding
<1>5. QED
  BY <1>1, <1>2, <1>3, <1>4, EditedAt

LEMMA RemoveEffect ==
    ASSUME Typed, NEW u \in Users, RemoveAccount(u)
    PROVE  /\ Live' = Live \ Of(u) /\ rows' \in [Live' -> Row]
           /\ \A j \in Live' : rows'[j] = rows[j]
           /\ \A j \in Live : rows[j].owner # u => j \in Live'
<1>1. rows' = Without(rows, Of(u))
  BY DEF RemoveAccount
<1>2. /\ Without(rows, Of(u)) \in [Live \ Of(u) -> Row]
      /\ \A j \in Live \ Of(u) : Without(rows, Of(u))[j] = rows[j]
  BY WithoutAt
<1>3. Live' = Live \ Of(u)
  BY <1>1, <1>2 DEF Live
<1>4. QED
  BY <1>1, <1>2, <1>3 DEF Of

LEMMA ClaimEffect ==
    ASSUME Typed, NEW t \in Tabs, Claim(t)
    PROVE  \/ rows' = rows /\ dir' = dir /\ raced' = raced
           \/ LET i == tab[t].id
              IN  /\ i \in Live /\ rows[i].owner = Nobody
                  /\ Live' = Live
                  /\ rows'[i].addr = rows[i].addr /\ rows'[i].totp = Nobody
                  /\ \A j \in Live \ {i} : rows'[j] = rows[j]
                  /\ \A d \in Directs :
                        /\ dir'[d].pc = dir[d].pc /\ dir'[d].addr = dir[d].addr
                        /\ dir'[d].id = dir[d].id
                        /\ dir[d].overtaken \/ dir[d].id = i => dir'[d].overtaken
                  /\ raced \subseteq raced'
                  /\ (\E d \in Directs : dir[d].pc = "write" /\ dir[d].id = i)
                        => i \in raced'
<1> DEFINE i == tab[t].id
           u == tab[t].user
           taken == /\ Unclaimed(i) /\ u \in accounts
                    /\ rows' = [rows EXCEPT ![i] = Claimed(@, u)]
                    /\ dir' = [d \in Directs |->
                            [dir[d] EXCEPT !.overtaken = @ \/ dir[d].id = i]]
                    /\ raced' = IF \E d \in Directs : dir[d].pc = "write" /\ dir[d].id = i
                                THEN raced \union {i} ELSE raced
<1>1. taken \/ UNCHANGED <<rows, dir, raced>>
  BY DEF Claim
<1>2. CASE taken
  <2>1. i \in Live /\ rows[i] \in Row /\ rows[i].owner = Nobody
    BY <1>2 DEF Unclaimed, Typed
  <2>2. rows' = [rows EXCEPT ![i] = Claimed(rows[i], u)] /\ Live' = Live
    BY <1>2 DEF Live
  <2>3. rows'[i] = Claimed(rows[i], u) /\ \A j \in Live \ {i} : rows'[j] = rows[j]
    BY <2>1, <2>2 DEF Typed
  <2>4. rows'[i].addr = rows[i].addr /\ rows'[i].totp = Nobody
    BY <2>1, <2>3 DEF Claimed, Row
  <2>5. \A d \in Directs :
           /\ dir'[d].pc = dir[d].pc /\ dir'[d].addr = dir[d].addr
           /\ dir'[d].id = dir[d].id
           /\ dir[d].overtaken \/ dir[d].id = i => dir'[d].overtaken
    BY <1>2 DEF Typed, Dir
  <2>6. QED
    BY <1>2, <2>1, <2>2, <2>3, <2>4, <2>5
<1>3. QED
  BY <1>1, <1>2

LEMMA TypeStep == Typed /\ Placed /\ [Next]_vars => Typed'
<1> SUFFICES ASSUME Typed /\ Placed, [Next]_vars PROVE Typed'
  OBVIOUS
<1> USE MaxIdAssumption, NobodyAssumption DEF Typed, Live, Ids, Alike, Placed
<1>1. ASSUME NEW t \in Tabs, NEW u \in Users, NEW a \in Addr, Prove(t, u, a) PROVE
    Typed'
  BY <1>1 DEF Prove, Tab, TabStep
<1>2. ASSUME NEW t \in Tabs, NEW u \in Users, NEW i \in Ids, Detach(t, u, i) PROVE
    Typed'
  <2>1. Live' \subseteq Live /\ rows' \in [Live' -> Row]
    BY ZenonT(40), <1>2, DetachEffect
  <2>2. QED
    BY <2>1, <1>2 DEF Detach
<1>3. ASSUME NEW t \in Tabs, NEW u \in Users, NEW i \in Ids, NEW a \in Addr, NEW
    ticked \in BOOLEAN, Edit(t, u, i, a, ticked) PROVE Typed'
  BY <1>3, EditedAt DEF Edit, Of, Free, Holding
<1>4. ASSUME NEW t \in Tabs, Find(t) PROVE Typed'
  BY <1>4 DEF Find, Holding, HasOwner, Tab, TabStep, Idle
<1>5. ASSUME NEW t \in Tabs, Claim(t) PROVE Typed'
  <2> DEFINE i == tab[t].id
             u == tab[t].user
  <2>1. tab' \in [Tabs -> Tab] /\ u \in Users
    BY <1>5 DEF Claim, Idle, Tab, TabStep
  <2>2. CASE UNCHANGED <<rows, dir, raced>>
    BY <2>1, <2>2, <1>5 DEF Claim
  <2>3. CASE /\ Unclaimed(i)
             /\ rows' = [rows EXCEPT ![i] = Claimed(@, u)]
             /\ dir' = [d \in Directs |->
                            [dir[d] EXCEPT !.overtaken = @ \/ dir[d].id = i]]
             /\ raced' \subseteq raced \union {i}
    <3>1. i \in Live /\ Claimed(rows[i], u) \in Row
      <4>1. i \in Live /\ rows[i] \in Row
        BY <2>3 DEF Unclaimed
      <4>2. QED
        BY <2>1, <4>1 DEF Claimed, Row
    <3>2. rows' \in [Live -> Row]
      BY <2>3, <3>1
    <3>3. ASSUME NEW d \in Directs
          PROVE  [dir[d] EXCEPT !.overtaken = @ \/ dir[d].id = i] \in Dir
      <4>1. (dir[d].overtaken \/ dir[d].id = i) \in BOOLEAN
        OBVIOUS
      <4>2. QED
        BY <4>1 DEF Dir
    <3>4. dir' \in [Directs -> Dir]
      BY <2>3, <3>3
    <3>5. QED
      BY <2>1, <2>3, <3>1, <3>2, <3>4, <1>5 DEF Claim
  <2>4. QED
    BY <2>2, <2>3, <1>5 DEF Claim
<1>6. ASSUME NEW t \in Tabs, Create(t) PROVE Typed'
  <2>1. tab' \in [Tabs -> Tab]
    BY <1>6 DEF Create, Idle, Tab, TabStep
  <2>2. CASE UNCHANGED <<rows, next>>
    BY <2>1, <2>2, <1>6 DEF Create
  <2>3. CASE \E ticked \in BOOLEAN :
                 /\ next \in Ids /\ next' = next + 1
                 /\ rows' = Created(tab[t].user, tab[t].addr, ticked)
    <3>1. rows' \in [Live \union {next} -> Row]
      <4>1. tab[t].user \in Users /\ tab[t].addr \in Addr
        BY <1>6 DEF Create
      <4>2. PICK ticked \in BOOLEAN :
               rows' = Created(tab[t].user, tab[t].addr, ticked)
        BY <2>3
      <4>3. QED
        BY <4>1, <4>2, CreatedAt
    <3>2. QED
      BY <2>1, <2>3, <3>1, <1>6 DEF Create
  <2>4. QED
    BY <2>2, <2>3, <1>6 DEF Create
<1>7. ASSUME NEW d \in Directs, NEW a \in Addr, CheckAttached(d, a) PROVE Typed'
  <2> HIDE DEF Live
  <2>1. [dir[d] EXCEPT !.pc = "checked", !.addr = a] \in Dir
    BY <1>7 DEF Typed, Dir, DirStep
  <2>2. dir' \in [Directs -> Dir]
    BY <2>1, <1>7 DEF CheckAttached, Typed
  <2>3. QED
    BY <2>2, <1>7 DEF CheckAttached, Typed, Live
<1>8. ASSUME NEW d \in Directs, LookUp(d) PROVE Typed'
  <2> HIDE DEF Live
  <2>1. Out \in Dir /\ [dir[d] EXCEPT !.pc = "insert"] \in Dir
    BY DEF Typed, Out, Dir, DirStep
  <2>2. ASSUME NEW i \in Holding(dir[d].addr)
        PROVE  [dir[d] EXCEPT !.pc = "found", !.id = i] \in Dir
    BY ZenonT(40) DEF Typed, Holding, Dir, DirStep
  <2>3. dir' \in [Directs -> Dir]
    BY <2>1, <2>2, <1>8 DEF LookUp, Typed
  <2>4. QED
    BY <2>3, <1>8 DEF LookUp, Typed, Live
<1>9. ASSUME NEW d \in Directs, Insert(d) PROVE Typed'
  <2>1. CASE /\ rows' = WithRow(rows, next, SelfOwned(dir[d].addr)) /\ next \in Ids
             /\ next' = next + 1
             /\ dir' = [dir EXCEPT ![d].pc = "found", ![d].id = next]
    <3>1. dir' \in [Directs -> Dir]
      BY <2>1 DEF Dir, DirStep
    <3>2. rows' \in [Live \union {next} -> Row]
      BY <2>1, <1>9, InsertedAt DEF Insert
    <3>3. QED
      BY <2>1, <3>1, <3>2, <1>9 DEF Insert
  <2>2. CASE dir' = [dir EXCEPT ![d] = Out] /\ UNCHANGED <<rows, next>>
    <3>1. dir' \in [Directs -> Dir]
      BY <2>2 DEF Dir, DirStep, Out
    <3>2. QED
      BY <2>2, <3>1, <1>9 DEF Insert
  <2>3. QED
    BY <2>1, <2>2, <1>9 DEF Insert
<1>10. ASSUME NEW d \in Directs, Dial(d) PROVE Typed'
  <2> HIDE DEF Live
  <2>1. [dir[d] EXCEPT !.pc = "put"] \in Dir
    BY <1>10 DEF Typed, Dir, DirStep
  <2>2. Out \in Dir
    BY <1>10 DEF Out, Dir, DirStep
  <2>3. dir' \in [Directs -> Dir]
    BY <2>1, <2>2, <1>10 DEF Dial, Typed
  <2>4. QED
    BY <2>3, <1>10 DEF Dial, Typed, Live
<1>11. ASSUME NEW d \in Directs, Factor(d) PROVE Typed'
  <2> HIDE DEF Live
  <2>1. [dir[d] EXCEPT !.pc = "in"] \in Dir
    BY <1>11 DEF Typed, Dir, DirStep
  <2>2. Out \in Dir
    BY <1>11 DEF Out, Dir, DirStep
  <2>3. dir' \in [Directs -> Dir]
    BY <2>1, <2>2, <1>11 DEF Factor, Typed
  <2>4. QED
    BY <2>3, <1>11 DEF Factor, Typed, Live
<1>12. ASSUME NEW d \in Directs, Leave(d) PROVE Typed'
  <2> HIDE DEF Live
  <2>1. dir' \in [Directs -> Dir]
    BY <1>12 DEF Leave, Live, Typed, Placed, Ids, Dir, DirStep, Out
  <2>2. QED
    BY <2>1, <1>12 DEF Leave, Live
<1>13. ASSUME NEW d \in Directs, StartEnable(d) PROVE Typed'
  <2> HIDE DEF Live
  <2>1. [dir[d] EXCEPT !.pc = "set", !.secret = d, !.late = FALSE] \in Dir
    BY <1>13 DEF Typed, Dir, DirStep
  <2>2. dir' \in [Directs -> Dir]
    BY <2>1, <1>13 DEF StartEnable, Typed
  <2>3. QED
    BY <2>2, <1>13 DEF StartEnable, Typed, Live
<1>14. ASSUME NEW d \in Directs, StartDisable(d) PROVE Typed'
  <2> HIDE DEF Live
  <2>1. [dir[d] EXCEPT !.pc = "set", !.secret = Nobody] \in Dir
    BY <1>14 DEF Typed, Dir, DirStep
  <2>2. dir' \in [Directs -> Dir]
    BY <2>1, <1>14 DEF StartDisable, Typed
  <2>3. QED
    BY <2>2, <1>14 DEF StartDisable, Typed, Live
<1>15. ASSUME NEW d \in Directs, ReadOwner(d) PROVE Typed'
  <2> HIDE DEF Live
  <2>1. dir' \in [Directs -> Dir]
    BY <1>15 DEF ReadOwner, Live, Typed, Placed, Ids, Dir, DirStep, Out
  <2>2. QED
    BY <2>1, <1>15 DEF ReadOwner, Live
<1>16. ASSUME NEW d \in Directs, WriteSecret(d) PROVE Typed'
  <2> DEFINE i == dir[d].id
             under(e) == e # d /\ dir[e].id = i /\ dir[e].pc \in {"set", "write"}
  <2>1. ASSUME NEW j \in Live PROVE [rows[j] EXCEPT !.totp = dir[d].secret] \in Row
    BY DEF Row, Dir
  <2>2. rows' \in [Live -> Row]
    BY <2>1, <1>16 DEF WriteSecret
  <2>3. ASSUME NEW e \in Directs
        PROVE  /\ [dir[e] EXCEPT !.pc = "in"] \in Dir
               /\ [dir[e] EXCEPT !.late = @ \/ under(e)] \in Dir
    <3>1. (dir[e].late \/ under(e)) \in BOOLEAN
      OBVIOUS
    <3>2. QED
      BY <3>1 DEF Dir, DirStep
  <2>4. dir' \in [Directs -> Dir]
    BY <2>3, <1>16 DEF WriteSecret
  <2>5. QED
    BY <2>2, <2>4, <1>16 DEF WriteSecret
<1>17. ASSUME NEW u \in Users, RemoveAccount(u) PROVE Typed'
  <2>1. Live' \subseteq Live /\ rows' \in [Live' -> Row]
    BY <1>17, RemoveEffect
  <2>2. QED
    BY <2>1, <1>17 DEF RemoveAccount
<1>18. CASE UNCHANGED vars
  BY <1>18 DEF vars
<1>19. QED
  BY <1>1, <1>2, <1>3, <1>4, <1>5, <1>6, <1>7, <1>8, <1>9, <1>10, <1>11, <1>12,
      <1>13, <1>14, <1>15, <1>16, <1>17, <1>18 DEF Next, TabNext, DirNext

LEMMA PlacedStep == Typed /\ Placed /\ [Next]_vars => Placed'
<1> SUFFICES ASSUME Typed /\ Placed, [Next]_vars PROVE Placed'
  OBVIOUS
<1> USE MaxIdAssumption, NobodyAssumption DEF Typed, Live, Ids, Alike, Placed
<1>1. ASSUME NEW t \in Tabs, NEW u \in Users, NEW a \in Addr, Prove(t, u, a) PROVE
    Placed'
  BY <1>1 DEF Prove, Tab, TabStep
<1>2. ASSUME NEW t \in Tabs, NEW u \in Users, NEW i \in Ids, Detach(t, u, i) PROVE
    Placed'
  BY <1>2, DetachedAt DEF Detach, Of
<1>3. ASSUME NEW t \in Tabs, NEW u \in Users, NEW i \in Ids, NEW a \in Addr, NEW
    ticked \in BOOLEAN, Edit(t, u, i, a, ticked) PROVE Placed'
  BY <1>3, EditedAt DEF Edit, Of, Free, Holding
<1>4. ASSUME NEW t \in Tabs, Find(t) PROVE Placed'
  BY <1>4 DEF Find, Holding, HasOwner, Tab, TabStep, Idle
<1>5. ASSUME NEW t \in Tabs, Claim(t) PROVE Placed'
  <2>1. tab' = [tab EXCEPT ![t] = Idle] /\ next' = next
    BY <1>5 DEF Claim
  <2>2. QED
    BY <2>1, <1>5, ClaimEffect DEF Idle
<1>6. ASSUME NEW t \in Tabs, Create(t) PROVE Placed'
  <2>1. tab' = [tab EXCEPT ![t] = Idle] /\ next' \in {next, next + 1} /\ dir' = dir
    BY <1>6 DEF Create
  <2>2. QED
    BY <2>1 DEF Idle, Dir, Tab
<1>7. ASSUME NEW d \in Directs, NEW a \in Addr, CheckAttached(d, a) PROVE Placed'
  BY <1>7 DEF CheckAttached, Dir, DirStep
<1>8. ASSUME NEW d \in Directs, LookUp(d) PROVE Placed'
  BY <1>8 DEF LookUp, Holding, HasOwner, Dir, DirStep, Out
<1>9. ASSUME NEW d \in Directs, Insert(d) PROVE Placed'
  BY SMTT(30), <1>9, InsertedAt DEF Insert, Free, Holding, Dir, DirStep, Out
<1>10. ASSUME NEW d \in Directs, Dial(d) PROVE Placed'
  BY <1>10 DEF Dial, Dir, DirStep, Out
<1>11. ASSUME NEW d \in Directs, Factor(d) PROVE Placed'
  BY <1>11 DEF Factor, Dir, DirStep, Out
<1>12. ASSUME NEW d \in Directs, Leave(d) PROVE Placed'
  BY <1>12 DEF Leave, Dir, DirStep, Out
<1>13. ASSUME NEW d \in Directs, StartEnable(d) PROVE Placed'
  BY <1>13 DEF StartEnable, Dir, DirStep
<1>14. ASSUME NEW d \in Directs, StartDisable(d) PROVE Placed'
  BY <1>14 DEF StartDisable, Dir, DirStep
<1>15. ASSUME NEW d \in Directs, ReadOwner(d) PROVE Placed'
  BY <1>15 DEF ReadOwner, Dir, DirStep, Unclaimed
<1>16. ASSUME NEW d \in Directs, WriteSecret(d) PROVE Placed'
  BY <1>16 DEF WriteSecret
<1>17. ASSUME NEW u \in Users, RemoveAccount(u) PROVE Placed'
  BY <1>17, WithoutAt DEF RemoveAccount, Of
<1>18. CASE UNCHANGED vars
  BY <1>18 DEF vars
<1>19. QED
  BY <1>1, <1>2, <1>3, <1>4, <1>5, <1>6, <1>7, <1>8, <1>9, <1>10, <1>11, <1>12,
      <1>13, <1>14, <1>15, <1>16, <1>17, <1>18 DEF Next, TabNext, DirNext

LEMMA OneRowStep == Typed /\ Placed /\ OneRow /\ [Next]_vars => OneRow'
<1> SUFFICES ASSUME Typed /\ Placed /\ OneRow, [Next]_vars PROVE OneRow'
  OBVIOUS
<1> USE MaxIdAssumption, NobodyAssumption DEF Typed, Live, Ids, Alike, Placed,
    OneRow
<1>1. ASSUME NEW t \in Tabs, NEW u \in Users, NEW a \in Addr, Prove(t, u, a) PROVE
    OneRow'
  BY <1>1 DEF Prove, Tab, TabStep
<1>2. ASSUME NEW t \in Tabs, NEW u \in Users, NEW i \in Ids, Detach(t, u, i) PROVE
    OneRow'
  <2> HIDE DEF Live, Typed, Ids
  <2>1. dir' = dir /\ raced' = raced /\ tab' = tab
    BY <1>2 DEF Detach
  <2>2. QED
    BY <2>1, <1>2, DetachEffect DEF OneRow, Alike
<1>3. ASSUME NEW t \in Tabs, NEW u \in Users, NEW i \in Ids, NEW a \in Addr, NEW
    ticked \in BOOLEAN, Edit(t, u, i, a, ticked) PROVE OneRow'
  <2> HIDE DEF Live, Typed, Ids
  <2>1. dir' = dir /\ raced' = raced /\ tab' = tab
    BY <1>3 DEF Edit
  <2>2. QED
    BY <2>1, <1>3, EditEffect DEF OneRow, Alike
<1>4. ASSUME NEW t \in Tabs, Find(t) PROVE OneRow'
  BY <1>4 DEF Find, Holding, HasOwner, Tab, TabStep, Idle
<1>5. ASSUME NEW t \in Tabs, Claim(t) PROVE OneRow'
  <2> HIDE DEF Live, Typed, Ids
  <2>1. CASE rows' = rows /\ dir' = dir /\ raced' = raced
    BY <2>1 DEF OneRow, Alike, Live
  <2>2. CASE ~ (rows' = rows /\ dir' = dir /\ raced' = raced)
    BY <2>2, <1>5, ClaimEffect DEF OneRow, Alike
  <2>3. QED
    BY <2>1, <2>2
<1>6. ASSUME NEW t \in Tabs, Create(t) PROVE OneRow'
  BY <1>6, CreatedAt DEF Create, Free, Holding, Idle
<1>7. ASSUME NEW d \in Directs, NEW a \in Addr, CheckAttached(d, a) PROVE OneRow'
  BY <1>7 DEF CheckAttached, Dir, DirStep
<1>8. ASSUME NEW d \in Directs, LookUp(d) PROVE OneRow'
  BY <1>8 DEF LookUp, Holding, HasOwner, Dir, DirStep, Out
<1>9. ASSUME NEW d \in Directs, Insert(d) PROVE OneRow'
  BY <1>9, InsertedAt DEF Insert, Free, Holding, Dir, DirStep, Out
<1>10. ASSUME NEW d \in Directs, Dial(d) PROVE OneRow'
  BY <1>10 DEF Dial, Dir, DirStep, Out
<1>11. ASSUME NEW d \in Directs, Factor(d) PROVE OneRow'
  BY <1>11 DEF Factor, Dir, DirStep, Out
<1>12. ASSUME NEW d \in Directs, Leave(d) PROVE OneRow'
  BY <1>12 DEF Leave, Dir, DirStep, Out
<1>13. ASSUME NEW d \in Directs, StartEnable(d) PROVE OneRow'
  BY <1>13 DEF StartEnable, Dir, DirStep
<1>14. ASSUME NEW d \in Directs, StartDisable(d) PROVE OneRow'
  BY <1>14 DEF StartDisable, Dir, DirStep
<1>15. ASSUME NEW d \in Directs, ReadOwner(d) PROVE OneRow'
  BY <1>15 DEF ReadOwner, Dir, DirStep, Unclaimed
<1>16. ASSUME NEW d \in Directs, WriteSecret(d) PROVE OneRow'
  BY <1>16 DEF WriteSecret
<1>17. ASSUME NEW u \in Users, RemoveAccount(u) PROVE OneRow'
  <2> HIDE DEF Live, Typed, Ids
  <2>1. dir' = dir /\ raced' = raced /\ tab' = tab
    BY <1>17 DEF RemoveAccount
  <2>2. QED
    BY <2>1, <1>17, RemoveEffect DEF OneRow, Alike
<1>18. CASE UNCHANGED vars
  BY <1>18 DEF vars
<1>19. QED
  BY <1>1, <1>2, <1>3, <1>4, <1>5, <1>6, <1>7, <1>8, <1>9, <1>10, <1>11, <1>12,
      <1>13, <1>14, <1>15, <1>16, <1>17, <1>18 DEF Next, TabNext, DirNext

LEMMA OwnStep == Typed /\ Placed /\ RowIsOwn /\ [Next]_vars => RowIsOwn'
<1> SUFFICES ASSUME Typed /\ Placed /\ RowIsOwn, [Next]_vars PROVE RowIsOwn'
  OBVIOUS
<1> USE MaxIdAssumption, NobodyAssumption DEF Typed, Live, Ids, Alike, Placed,
    RowIsOwn
<1>1. ASSUME NEW t \in Tabs, NEW u \in Users, NEW a \in Addr, Prove(t, u, a) PROVE
    RowIsOwn'
  BY <1>1 DEF Prove, Tab, TabStep
<1>2. ASSUME NEW t \in Tabs, NEW u \in Users, NEW i \in Ids, Detach(t, u, i) PROVE
    RowIsOwn'
  <2> HIDE DEF Live, Typed, Ids
  <2>1. dir' = dir /\ raced' = raced /\ tab' = tab
    BY <1>2 DEF Detach
  <2>2. QED
    BY <2>1, <1>2, DetachEffect DEF RowIsOwn, Alike, Typed
<1>3. ASSUME NEW t \in Tabs, NEW u \in Users, NEW i \in Ids, NEW a \in Addr, NEW
    ticked \in BOOLEAN, Edit(t, u, i, a, ticked) PROVE RowIsOwn'
  <2> HIDE DEF Live, Typed, Ids
  <2>1. dir' = dir /\ raced' = raced /\ tab' = tab
    BY <1>3 DEF Edit
  <2>2. QED
    BY <2>1, <1>3, EditEffect DEF RowIsOwn, Alike
<1>4. ASSUME NEW t \in Tabs, Find(t) PROVE RowIsOwn'
  BY <1>4 DEF Find, Holding, HasOwner, Tab, TabStep, Idle
<1>5. ASSUME NEW t \in Tabs, Claim(t) PROVE RowIsOwn'
  <2> HIDE DEF Live, Typed, Ids
  <2>1. CASE rows' = rows /\ dir' = dir /\ raced' = raced
    BY <2>1 DEF RowIsOwn, Alike, Live
  <2>2. CASE ~ (rows' = rows /\ dir' = dir /\ raced' = raced)
    BY <2>2, <1>5, ClaimEffect DEF RowIsOwn, Alike
  <2>3. QED
    BY <2>1, <2>2
<1>6. ASSUME NEW t \in Tabs, Create(t) PROVE RowIsOwn'
  BY <1>6, CreatedAt DEF Create, Free, Holding, Idle
<1>7. ASSUME NEW d \in Directs, NEW a \in Addr, CheckAttached(d, a) PROVE
    RowIsOwn'
  BY <1>7 DEF CheckAttached, Dir, DirStep
<1>8. ASSUME NEW d \in Directs, LookUp(d) PROVE RowIsOwn'
  BY <1>8 DEF LookUp, Holding, HasOwner, Dir, DirStep, Out
<1>9. ASSUME NEW d \in Directs, Insert(d) PROVE RowIsOwn'
  BY <1>9, InsertedAt DEF Insert, Free, Holding, Dir, DirStep, Out
<1>10. ASSUME NEW d \in Directs, Dial(d) PROVE RowIsOwn'
  BY <1>10 DEF Dial, Dir, DirStep, Out
<1>11. ASSUME NEW d \in Directs, Factor(d) PROVE RowIsOwn'
  BY <1>11 DEF Factor, Dir, DirStep, Out
<1>12. ASSUME NEW d \in Directs, Leave(d) PROVE RowIsOwn'
  BY <1>12 DEF Leave, Dir, DirStep, Out
<1>13. ASSUME NEW d \in Directs, StartEnable(d) PROVE RowIsOwn'
  BY <1>13 DEF StartEnable, Dir, DirStep
<1>14. ASSUME NEW d \in Directs, StartDisable(d) PROVE RowIsOwn'
  BY <1>14 DEF StartDisable, Dir, DirStep
<1>15. ASSUME NEW d \in Directs, ReadOwner(d) PROVE RowIsOwn'
  BY <1>15 DEF ReadOwner, Dir, DirStep, Unclaimed
<1>16. ASSUME NEW d \in Directs, WriteSecret(d) PROVE RowIsOwn'
  BY <1>16 DEF WriteSecret
<1>17. ASSUME NEW u \in Users, RemoveAccount(u) PROVE RowIsOwn'
  <2> HIDE DEF Live, Typed, Ids
  <2>1. dir' = dir /\ raced' = raced
    BY <1>17 DEF RemoveAccount
  <2>2. \A j \in Live : rows[j].owner = Nobody => j \in Live'
    BY <1>17, RemoveEffect, NobodyAssumption
  <2>3. \A j \in Live' : j \in Live /\ rows'[j] = rows[j]
    BY <1>17, RemoveEffect
  <2>4. QED
    BY <2>1, <2>2, <2>3 DEF RowIsOwn
<1>18. CASE UNCHANGED vars
  BY <1>18 DEF vars
<1>19. QED
  BY <1>1, <1>2, <1>3, <1>4, <1>5, <1>6, <1>7, <1>8, <1>9, <1>10, <1>11, <1>12,
      <1>13, <1>14, <1>15, <1>16, <1>17, <1>18 DEF Next, TabNext, DirNext

LEMMA WriteStep == Typed /\ Placed /\ WriteIsOwn /\ [Next]_vars => WriteIsOwn'
<1> SUFFICES ASSUME Typed /\ Placed /\ WriteIsOwn, [Next]_vars PROVE WriteIsOwn'
  OBVIOUS
<1> USE MaxIdAssumption, NobodyAssumption DEF Typed, Live, Ids, Alike, Placed,
    WriteIsOwn
<1>1. ASSUME NEW t \in Tabs, NEW u \in Users, NEW a \in Addr, Prove(t, u, a) PROVE
    WriteIsOwn'
  BY <1>1 DEF Prove, Tab, TabStep
<1>2. ASSUME NEW t \in Tabs, NEW u \in Users, NEW i \in Ids, Detach(t, u, i) PROVE
    WriteIsOwn'
  <2> HIDE DEF Live, Typed, Ids
  <2>1. dir' = dir /\ raced' = raced /\ tab' = tab
    BY <1>2 DEF Detach
  <2>2. QED
    BY <2>1, <1>2, DetachEffect DEF WriteIsOwn, Alike
<1>3. ASSUME NEW t \in Tabs, NEW u \in Users, NEW i \in Ids, NEW a \in Addr, NEW
    ticked \in BOOLEAN, Edit(t, u, i, a, ticked) PROVE WriteIsOwn'
  BY <1>3, EditedAt DEF Edit, Of, Free, Holding
<1>4. ASSUME NEW t \in Tabs, Find(t) PROVE WriteIsOwn'
  BY <1>4 DEF Find, Holding, HasOwner, Tab, TabStep, Idle
<1>5. ASSUME NEW t \in Tabs, Claim(t) PROVE WriteIsOwn'
  <2> HIDE DEF Live, Typed, Ids
  <2>1. CASE rows' = rows /\ dir' = dir /\ raced' = raced
    BY <2>1 DEF WriteIsOwn, Alike, Live
  <2>2. CASE ~ (rows' = rows /\ dir' = dir /\ raced' = raced)
    BY <2>2, <1>5, ClaimEffect DEF WriteIsOwn, Alike
  <2>3. QED
    BY <2>1, <2>2
<1>6. ASSUME NEW t \in Tabs, Create(t) PROVE WriteIsOwn'
  BY <1>6, CreatedAt DEF Create, Free, Holding, Idle
<1>7. ASSUME NEW d \in Directs, NEW a \in Addr, CheckAttached(d, a) PROVE
    WriteIsOwn'
  BY <1>7 DEF CheckAttached, Dir, DirStep
<1>8. ASSUME NEW d \in Directs, LookUp(d) PROVE WriteIsOwn'
  <2>1. dir' = [dir EXCEPT ![d] = dir'[d]]
          /\ dir'[d].pc \in {"out", "found", "insert"}
    <3>1. CASE dir' = [dir EXCEPT ![d] = Out]
      BY <3>1 DEF Out, Dir
    <3>2. CASE dir' = [dir EXCEPT ![d].pc = "insert"]
      BY <3>2 DEF Dir
    <3>3. CASE \E i \in Holding(dir[d].addr) :
                  dir' = [dir EXCEPT ![d].pc = "found", ![d].id = i]
      BY <3>3 DEF Dir
    <3>4. QED
      BY <3>1, <3>2, <3>3, <1>8 DEF LookUp
  <2>2. \A e \in Directs : dir'[e].pc = "write" => dir'[e] = dir[e]
    BY <2>1
  <2>3. QED
    BY <2>2, <1>8 DEF LookUp
<1>9. ASSUME NEW d \in Directs, Insert(d) PROVE WriteIsOwn'
  BY <1>9, InsertedAt DEF Insert, Free, Holding, Dir, DirStep, Out
<1>10. ASSUME NEW d \in Directs, Dial(d) PROVE WriteIsOwn'
  BY <1>10 DEF Dial, Dir, DirStep, Out
<1>11. ASSUME NEW d \in Directs, Factor(d) PROVE WriteIsOwn'
  BY <1>11 DEF Factor, Dir, DirStep, Out
<1>12. ASSUME NEW d \in Directs, Leave(d) PROVE WriteIsOwn'
  BY <1>12 DEF Leave, Dir, DirStep, Out
<1>13. ASSUME NEW d \in Directs, StartEnable(d) PROVE WriteIsOwn'
  BY <1>13 DEF StartEnable, Dir, DirStep
<1>14. ASSUME NEW d \in Directs, StartDisable(d) PROVE WriteIsOwn'
  BY <1>14 DEF StartDisable, Dir, DirStep
<1>15. ASSUME NEW d \in Directs, ReadOwner(d) PROVE WriteIsOwn'
  BY <1>15 DEF ReadOwner, Dir, DirStep, Unclaimed
<1>16. ASSUME NEW d \in Directs, WriteSecret(d) PROVE WriteIsOwn'
  BY <1>16 DEF WriteSecret
<1>17. ASSUME NEW u \in Users, RemoveAccount(u) PROVE WriteIsOwn'
  <2> HIDE DEF Live, Typed, Ids
  <2>1. dir' = dir /\ raced' = raced
    BY <1>17 DEF RemoveAccount
  <2>2. \A j \in Live : rows[j].owner = Nobody => j \in Live'
    BY <1>17, RemoveEffect, NobodyAssumption
  <2>3. \A j \in Live' : j \in Live /\ rows'[j] = rows[j]
    BY <1>17, RemoveEffect
  <2>4. QED
    BY <2>1, <2>2, <2>3 DEF WriteIsOwn
<1>18. CASE UNCHANGED vars
  BY <1>18 DEF vars
<1>19. QED
  BY <1>1, <1>2, <1>3, <1>4, <1>5, <1>6, <1>7, <1>8, <1>9, <1>10, <1>11, <1>12,
      <1>13, <1>14, <1>15, <1>16, <1>17, <1>18 DEF Next, TabNext, DirNext

LEMMA FactorStep == Typed /\ Placed /\ WriteIsOwn /\ NoFactorOnOwned /\ [Next]_vars => NoFactorOnOwned'
<1> SUFFICES ASSUME Typed /\ Placed /\ WriteIsOwn /\ NoFactorOnOwned, [Next]_vars PROVE NoFactorOnOwned'
  OBVIOUS
<1> USE MaxIdAssumption, NobodyAssumption DEF Typed, Live, Ids, Alike, Placed,
    WriteIsOwn, NoFactorOnOwned
<1>1. ASSUME NEW t \in Tabs, NEW u \in Users, NEW a \in Addr, Prove(t, u, a) PROVE
    NoFactorOnOwned'
  BY <1>1 DEF Prove, Tab, TabStep
<1>2. ASSUME NEW t \in Tabs, NEW u \in Users, NEW i \in Ids, Detach(t, u, i) PROVE
    NoFactorOnOwned'
  <2> HIDE DEF Live, Typed, Ids
  <2>1. dir' = dir /\ raced' = raced /\ tab' = tab
    BY <1>2 DEF Detach
  <2>2. QED
    BY <2>1, <1>2, DetachEffect DEF NoFactorOnOwned, Alike
<1>3. ASSUME NEW t \in Tabs, NEW u \in Users, NEW i \in Ids, NEW a \in Addr, NEW
    ticked \in BOOLEAN, Edit(t, u, i, a, ticked) PROVE NoFactorOnOwned'
  BY <1>3, EditedAt DEF Edit, Of, Free, Holding
<1>4. ASSUME NEW t \in Tabs, Find(t) PROVE NoFactorOnOwned'
  BY <1>4 DEF Find, Holding, HasOwner, Tab, TabStep, Idle
<1>5. ASSUME NEW t \in Tabs, Claim(t) PROVE NoFactorOnOwned'
  <2> HIDE DEF Live, Typed, Ids
  <2>1. CASE rows' = rows /\ dir' = dir /\ raced' = raced
    BY <2>1 DEF NoFactorOnOwned, Alike, Live
  <2>2. CASE ~ (rows' = rows /\ dir' = dir /\ raced' = raced)
    BY <2>2, <1>5, ClaimEffect DEF NoFactorOnOwned, Alike
  <2>3. QED
    BY <2>1, <2>2
<1>6. ASSUME NEW t \in Tabs, Create(t) PROVE NoFactorOnOwned'
  BY <1>6, CreatedAt DEF Create, Free, Holding, Idle
<1>7. ASSUME NEW d \in Directs, NEW a \in Addr, CheckAttached(d, a) PROVE
    NoFactorOnOwned'
  BY <1>7 DEF CheckAttached, Dir, DirStep
<1>8. ASSUME NEW d \in Directs, LookUp(d) PROVE NoFactorOnOwned'
  BY <1>8 DEF LookUp, Holding, HasOwner, Dir, DirStep, Out
<1>9. ASSUME NEW d \in Directs, Insert(d) PROVE NoFactorOnOwned'
  BY <1>9, InsertedAt DEF Insert, Free, Holding, Dir, DirStep, Out
<1>10. ASSUME NEW d \in Directs, Dial(d) PROVE NoFactorOnOwned'
  BY <1>10 DEF Dial, Dir, DirStep, Out
<1>11. ASSUME NEW d \in Directs, Factor(d) PROVE NoFactorOnOwned'
  BY <1>11 DEF Factor, Dir, DirStep, Out
<1>12. ASSUME NEW d \in Directs, Leave(d) PROVE NoFactorOnOwned'
  BY <1>12 DEF Leave, Dir, DirStep, Out
<1>13. ASSUME NEW d \in Directs, StartEnable(d) PROVE NoFactorOnOwned'
  BY <1>13 DEF StartEnable, Dir, DirStep
<1>14. ASSUME NEW d \in Directs, StartDisable(d) PROVE NoFactorOnOwned'
  BY <1>14 DEF StartDisable, Dir, DirStep
<1>15. ASSUME NEW d \in Directs, ReadOwner(d) PROVE NoFactorOnOwned'
  BY <1>15 DEF ReadOwner, Dir, DirStep, Unclaimed
<1>16. ASSUME NEW d \in Directs, WriteSecret(d) PROVE NoFactorOnOwned'
  BY <1>16 DEF WriteSecret
<1>17. ASSUME NEW u \in Users, RemoveAccount(u) PROVE NoFactorOnOwned'
  <2> HIDE DEF Live, Typed, Ids
  <2>1. dir' = dir /\ raced' = raced /\ tab' = tab
    BY <1>17 DEF RemoveAccount
  <2>2. QED
    BY <2>1, <1>17, RemoveEffect DEF NoFactorOnOwned, Alike
<1>18. CASE UNCHANGED vars
  BY <1>18 DEF vars
<1>19. QED
  BY <1>1, <1>2, <1>3, <1>4, <1>5, <1>6, <1>7, <1>8, <1>9, <1>10, <1>11, <1>12,
      <1>13, <1>14, <1>15, <1>16, <1>17, <1>18 DEF Next, TabNext, DirNext


IInv ==
    /\ Typed
    /\ Placed
    /\ OneRow
    /\ RowIsOwn
    /\ WriteIsOwn
    /\ NoFactorOnOwned

LEMMA InitIInv == Init => IInv
<1> SUFFICES ASSUME Init PROVE IInv
  OBVIOUS
<1>1. Live = {}
  BY DEF Init, Live
<1>2. Typed
  BY <1>1, MaxIdAssumption, NobodyAssumption
  DEF Init, Typed, Idle, Out, Tab, TabStep, Dir, DirStep, Ids, Live
<1>3. QED
  BY <1>1, <1>2
  DEF Init, IInv, Placed, OneRow, RowIsOwn, WriteIsOwn, NoFactorOnOwned, Idle, Out

LEMMA IInvStep == IInv /\ [Next]_vars => IInv'
  BY TypeStep, PlacedStep, OneRowStep, OwnStep, WriteStep, FactorStep DEF IInv

\* The invariant holds in every state of every behaviour.
THEOREM MailboxesInvariant == Spec => []IInv
  BY InitIInv, IInvStep, PTL DEF Spec

-----------------------------------------------------------------------------

\* The variables keep their types.
THEOREM MailboxesTypes == Spec => []TypeOK
<1>1. IInv => TypeOK
  BY TypedIsTypeOK DEF IInv
<1> QED
  BY <1>1, MailboxesInvariant, PTL

\* Attaching a mailbox takes its own login away, but for a sign-in that had
\* looked the row up before it was claimed.
THEOREM OneDoorTheorem == Spec => []OneDoorUnlessOvertaken
<1>1. IInv => OneDoorUnlessOvertaken
  BY DEF IInv, Typed, OneRow, RowIsOwn, OneDoorUnlessOvertaken, SignedIn
<1> QED
  BY <1>1, MailboxesInvariant, PTL

\* A mailbox an account has holds no second factor of its own, but where the
\* claim came between SetMailboxTOTP's two statements.
THEOREM NoFactorTheorem == Spec => []NoFactorOnOwned
<1>1. IInv => NoFactorOnOwned
  BY DEF IInv
<1> QED
  BY <1>1, MailboxesInvariant, PTL

-----------------------------------------------------------------------------
(* A secret that works stays.                                              *)

\* While a secret is being put in and no other has come in between, the row has
\* none: it had none when the session asked, or was claimed and has none since.
FreshAt(s, L, table) ==
    s.secret # Nobody /\ ~ s.late /\ s.id \in L =>
        /\ (s.pc = "set" /\ table[s.id].owner = Nobody => table[s.id].totp = Nobody)
        /\ (s.pc = "write" => table[s.id].totp = Nobody)

\* That, of every direct session.
SecretFresh == \A d \in Directs : FreshAt(dir[d], Live, rows)

\* The rows a table has kept have the secret they had, or none, and those that
\* are nobody's were nobody's before.
SecretsKept(S) ==
    /\ Live' \subseteq Live \union S
    /\ \A i \in Live' \ S : /\ rows'[i].totp \in {Nobody, rows[i].totp}
                            /\ rows'[i].owner = Nobody => rows[i].owner = Nobody

\* The sign-ins that are putting a secret in go on as they were, and none is of
\* a row in S.
SignInsKept(S) ==
    \A d \in Directs : dir'[d].pc \in {"set", "write"} =>
        /\ dir'[d].pc = dir[d].pc /\ dir'[d].id = dir[d].id /\ dir[d].id \notin S
        /\ dir'[d].secret = dir[d].secret /\ dir'[d].late = dir[d].late

LEMMA FreshKept ==
    ASSUME SecretFresh, NEW S, SecretsKept(S), SignInsKept(S)
    PROVE  SecretFresh'
<1> SUFFICES ASSUME NEW d \in Directs, dir'[d].secret # Nobody, ~ dir'[d].late,
                    dir'[d].id \in Live', dir'[d].pc \in {"set", "write"}
             PROVE  /\ (dir'[d].pc = "set" /\ rows'[dir'[d].id].owner = Nobody
                           => rows'[dir'[d].id].totp = Nobody)
                    /\ (dir'[d].pc = "write" => rows'[dir'[d].id].totp = Nobody)
  BY DEF SecretFresh, FreshAt
<1>1. /\ dir'[d].pc = dir[d].pc /\ dir'[d].id = dir[d].id /\ dir[d].id \notin S
      /\ dir'[d].secret = dir[d].secret /\ dir'[d].late = dir[d].late
  BY DEF SignInsKept
<1>2. /\ dir[d].id \in Live /\ rows'[dir[d].id].totp \in {Nobody, rows[dir[d].id].totp}
      /\ rows'[dir[d].id].owner = Nobody => rows[dir[d].id].owner = Nobody
  BY <1>1 DEF SecretsKept
<1>3. QED
  BY <1>1, <1>2 DEF SecretFresh, FreshAt

LEMMA SameSignIns ==
    ASSUME dir' = dir PROVE SignInsKept({})
  BY DEF SignInsKept

LEMMA SameRows ==
    ASSUME rows' = rows PROVE SecretsKept({})
  BY DEF SecretsKept, Live

\* Every statement but WriteSecret's keeps the secrets or clears them.
LEMMA SecretsStep ==
    ASSUME Typed, Placed, Next,
           ~ \E d \in Directs : WriteSecret(d)
    PROVE  SecretsKept({next} \ Live)
<1> USE DEF Alike
<1>1. next \notin Live
  BY MaxIdAssumption DEF Typed, Ids
<1>0. ASSUME SecretsKept({}) PROVE SecretsKept({next} \ Live)
  BY <1>0 DEF SecretsKept
<1>2. ASSUME NEW t \in Tabs, NEW u \in Users, NEW i \in Ids, Detach(t, u, i)
      PROVE  SecretsKept({})
  BY <1>2, DetachEffect DEF SecretsKept
<1>3. ASSUME NEW t \in Tabs, NEW u \in Users, NEW i \in Ids, NEW a \in Addr,
             NEW ticked \in BOOLEAN, Edit(t, u, i, a, ticked)
      PROVE  SecretsKept({})
  BY <1>3, EditEffect DEF SecretsKept
<1>4. ASSUME NEW t \in Tabs, Claim(t) PROVE SecretsKept({})
  <2>1. CASE rows' = rows
    BY <2>1, SameRows
  <2>2. CASE rows' # rows
    <3> DEFINE i == tab[t].id
    <3>1. i \in Live /\ rows[i] \in Row /\ rows' = [rows EXCEPT ![i] = Claimed(rows[i], tab[t].user)]
          /\ rows[i].owner = Nobody
      BY <1>4, <2>2 DEF Claim, Unclaimed, Typed
    <3>2. Live' = Live /\ rows'[i] = Claimed(rows[i], tab[t].user)
          /\ \A j \in Live \ {i} : rows'[j] = rows[j]
      BY <3>1 DEF Live, Typed
    <3>3. rows'[i].totp = Nobody
      BY <3>1, <3>2 DEF Claimed, Row
    <3>4. QED
      BY <3>1, <3>2, <3>3 DEF SecretsKept
  <2>3. QED
    BY <2>1, <2>2
<1>5. ASSUME NEW t \in Tabs, Create(t) PROVE SecretsKept({next} \ Live)
  <2>1. CASE rows' = rows
    BY <2>1, <1>0, SameRows
  <2>2. CASE rows' # rows
    <3>1. tab[t].user \in Users /\ tab[t].addr \in Addr
      BY <1>5 DEF Create, Placed
    <3>2. PICK ticked \in BOOLEAN : rows' = Created(tab[t].user, tab[t].addr, ticked)
      BY <1>5, <2>2 DEF Create
    <3>3. /\ rows' \in [Live \union {next} -> Row]
          /\ \A j \in Live : Alike(rows'[j], rows[j])
      <4> HIDE DEF Alike
      <4>1. QED
        BY <3>1, <3>2, CreatedAt
    <3>4. Live' = Live \union {next}
      BY <3>3 DEF Live
    <3>5. QED
      BY <1>1, <3>3, <3>4 DEF SecretsKept
  <2>3. QED
    BY <2>1, <2>2
<1>6. ASSUME NEW d \in Directs, Insert(d) PROVE SecretsKept({next} \ Live)
  <2>1. CASE rows' = rows
    BY <2>1, <1>0, SameRows
  <2>2. CASE rows' # rows
    <3>1. dir[d].addr \in Addr /\ rows' = WithRow(rows, next, SelfOwned(dir[d].addr))
      BY <1>6, <2>2 DEF Insert, Placed
    <3>2. /\ rows' \in [Live \union {next} -> Row]
          /\ \A j \in Live : rows'[j] = rows[j]
      BY <3>1, InsertedAt
    <3>3. Live' = Live \union {next}
      BY <3>2 DEF Live
    <3>4. QED
      BY <1>1, <3>2, <3>3 DEF SecretsKept
  <2>3. QED
    BY <2>1, <2>2
<1>7. ASSUME NEW u \in Users, RemoveAccount(u) PROVE SecretsKept({})
  BY <1>7, RemoveEffect DEF SecretsKept
<1>8. ASSUME NEW t \in Tabs, Find(t) \/ \E u \in Users, a \in Addr : Prove(t, u, a)
      PROVE  SecretsKept({})
  BY <1>8, SameRows DEF Find, Prove
<1>9. ASSUME NEW d \in Directs,
             \/ \E a \in Addr : CheckAttached(d, a)
             \/ LookUp(d) \/ Dial(d) \/ Factor(d) \/ Leave(d)
             \/ StartEnable(d) \/ StartDisable(d) \/ ReadOwner(d)
      PROVE  SecretsKept({})
  BY <1>9, SameRows
  DEF CheckAttached, LookUp, Dial, Factor, Leave, StartEnable, StartDisable, ReadOwner
<1>10. QED
  BY <1>0, <1>2, <1>3, <1>4, <1>5, <1>6, <1>7, <1>8, <1>9 DEF Next, TabNext, DirNext

LEMMA FreshStep == Typed /\ Placed /\ SecretFresh /\ [Next]_vars => SecretFresh'
<1> SUFFICES ASSUME Typed, Placed, SecretFresh, [Next]_vars PROVE SecretFresh'
  OBVIOUS
<1> DEFINE new == {next} \ Live
<1>1. CASE UNCHANGED vars
  BY <1>1 DEF vars, SecretFresh, FreshAt, Live
<1>2. ASSUME NEW d \in Directs, WriteSecret(d) PROVE SecretFresh'
  <2> DEFINE i == dir[d].id
  <2>1. Live' = Live
    BY <1>2 DEF WriteSecret, Live, Typed
  <2>2. \A j \in Live \ {i} : rows'[j] = rows[j]
    BY <1>2 DEF WriteSecret, Live, Typed
  <2>3. dir'[d].pc = "in"
    BY <1>2 DEF WriteSecret, Typed, Dir
  <2>4. ASSUME NEW e \in Directs \ {d}
        PROVE  /\ dir'[e].pc = dir[e].pc /\ dir'[e].id = dir[e].id
               /\ dir'[e].secret = dir[e].secret
               /\ dir[e].late => dir'[e].late
               /\ dir[e].id = i /\ dir[e].pc \in {"set", "write"} => dir'[e].late
    BY <1>2 DEF WriteSecret, Typed, Dir
  <2>5. ASSUME NEW e \in Directs, dir'[e].secret # Nobody, ~ dir'[e].late,
               dir'[e].id \in Live', dir'[e].pc \in {"set", "write"}
        PROVE  /\ (dir'[e].pc = "set" /\ rows'[dir'[e].id].owner = Nobody
                      => rows'[dir'[e].id].totp = Nobody)
               /\ (dir'[e].pc = "write" => rows'[dir'[e].id].totp = Nobody)
    <3>1. e # d
      BY <2>3, <2>5
    <3>2. dir[e].id # i /\ ~ dir[e].late /\ dir[e].id \in Live
      BY <2>1, <2>4, <2>5, <3>1
    <3>3. rows'[dir[e].id] = rows[dir[e].id]
      BY <2>2, <3>2
    <3>4. QED
      BY <2>4, <2>5, <3>1, <3>2, <3>3 DEF SecretFresh, FreshAt
  <2>6. QED
    BY <2>5 DEF SecretFresh, FreshAt
<1>3. ASSUME Next, ~ \E d \in Directs : WriteSecret(d) PROVE SecretFresh'
  <2>1. SecretsKept(new)
    BY <1>3, SecretsStep
  <2>2. \A d \in Directs : dir[d].id \notin new
    <3>1. next \in Nat /\ \A d \in Directs : dir[d].id < next
      BY MaxIdAssumption DEF Typed, Placed
    <3>2. QED
      BY <3>1
  <2> HIDE DEF new
  <2>3. ASSUME dir' = dir PROVE SecretFresh'
    BY <2>1, <2>2, <2>3, FreshKept DEF SignInsKept
  <2>4. ASSUME NEW d \in Directs,
               \A e \in Directs \ {d} : dir'[e] = dir[e],
               dir'[d].pc \notin {"set", "write"}
        PROVE  SecretFresh'
    <3>1. SignInsKept(new)
      BY <2>2, <2>4 DEF SignInsKept
    <3>2. QED
      BY <2>1, <3>1, FreshKept
  <2>5. ASSUME NEW t \in Tabs, TabNext(t) PROVE SecretFresh'
    <3>1. CASE dir' = dir
      BY <3>1, <2>3
    <3>2. CASE dir' # dir
      <4>1. Claim(t)
        BY <2>5, <3>2 DEF TabNext, Prove, Detach, Edit, Find, Create
      <4>2. dir' = [d \in Directs |->
                       [dir[d] EXCEPT !.overtaken = @ \/ dir[d].id = tab[t].id]]
        BY <3>2, <4>1 DEF Claim
      <4>3. SignInsKept(new)
        BY <2>2, <4>2 DEF SignInsKept, Typed, Dir
      <4>4. QED
        BY <2>1, <4>3, FreshKept
    <3>3. QED
      BY <3>1, <3>2
  <2>6. ASSUME NEW u \in Users, RemoveAccount(u) PROVE SecretFresh'
    BY <2>3, <2>6 DEF RemoveAccount
  <2>7. ASSUME NEW d \in Directs,
               \/ \E a \in Addr : CheckAttached(d, a)
               \/ LookUp(d) \/ Insert(d) \/ Dial(d) \/ Factor(d) \/ Leave(d)
        PROVE  SecretFresh'
    <3>1. dir \in [Directs -> Dir]
      BY DEF Typed
    <3>2. \A e \in Directs \ {d} : dir'[e] = dir[e]
      BY <2>7, <3>1 DEF CheckAttached, LookUp, Insert, Dial, Factor, Leave
    <3>3. dir'[d].pc \notin {"set", "write"}
      BY <2>7, <3>1 DEF CheckAttached, LookUp, Insert, Dial, Factor, Leave, Dir, Out
    <3>4. QED
      BY <2>4, <3>2, <3>3
  <2>8. ASSUME NEW d \in Directs, StartEnable(d) PROVE SecretFresh'
    <3>0. dir' = [dir EXCEPT ![d].pc = "set", ![d].secret = d, ![d].late = FALSE]
      BY <2>8 DEF StartEnable
    <3>1. rows' = rows /\ Live' = Live /\ ~ FactorOn(dir[d].id)
      BY <2>8 DEF StartEnable, Live
    <3>2. dir'[d].pc = "set" /\ dir'[d].id = dir[d].id
          /\ \A e \in Directs \ {d} : dir'[e] = dir[e]
      BY <3>0 DEF Typed, Dir
    <3>3. ~ (dir[d].id \in Live' /\ rows'[dir[d].id].owner = Nobody
                  /\ rows'[dir[d].id].totp # Nobody)
      BY <3>1 DEF FactorOn
    <3>4. ASSUME NEW e \in Directs \ {d} PROVE FreshAt(dir'[e], Live', rows')
      BY <3>1, <3>2, <3>4 DEF FreshAt, SecretFresh
    <3>5. FreshAt(dir'[d], Live', rows')
      BY <3>2, <3>3 DEF FreshAt
    <3>6. QED
      BY <3>4, <3>5 DEF SecretFresh, FreshAt
  <2>9. ASSUME NEW d \in Directs, StartDisable(d) PROVE SecretFresh'
    <3>0. dir' = [dir EXCEPT ![d].pc = "set", ![d].secret = Nobody]
      BY <2>9 DEF StartDisable
    <3>1. rows' = rows /\ Live' = Live
      BY <2>9 DEF StartDisable, Live
    <3>2. dir'[d].secret = Nobody /\ \A e \in Directs \ {d} : dir'[e] = dir[e]
      BY <3>0 DEF Typed, Dir
    <3>3. ASSUME NEW e \in Directs \ {d} PROVE FreshAt(dir'[e], Live', rows')
      BY <3>1, <3>2, <3>3 DEF FreshAt, SecretFresh
    <3>4. FreshAt(dir'[d], Live', rows')
      BY <3>2 DEF FreshAt
    <3>5. QED
      BY <3>3, <3>4 DEF SecretFresh, FreshAt
  <2>10. ASSUME NEW d \in Directs, ReadOwner(d) PROVE SecretFresh'
    <3>1. /\ dir[d].pc = "set"
          /\ dir' = [dir EXCEPT ![d].pc = IF Unclaimed(dir[d].id) THEN "write" ELSE "in"]
          /\ rows' = rows /\ Live' = Live
      BY <2>10 DEF ReadOwner, Live
    <3>2. /\ dir'[d].pc = IF Unclaimed(dir[d].id) THEN "write" ELSE "in"
          /\ dir'[d].id = dir[d].id /\ dir'[d].secret = dir[d].secret
          /\ dir'[d].late = dir[d].late
          /\ \A e \in Directs \ {d} : dir'[e] = dir[e]
      BY <3>1 DEF Typed, Dir
    <3>3. QED
      BY <3>1, <3>2 DEF SecretFresh, FreshAt, Unclaimed
  <2>11. QED
    BY <1>3, <2>5, <2>6, <2>7, <2>8, <2>9, <2>10 DEF Next, DirNext
<1>4. QED
  BY <1>1, <1>2, <1>3

\* What WorkingSecretStays says of one step.
SecretStays ==
    \A i \in Live \intersect Live' :
        rows[i].totp # Nobody /\ rows'[i].totp \notin {Nobody, rows[i].totp}
            => \E d \in Directs : dir[d].pc = "write" /\ dir[d].id = i /\ dir[d].late

LEMMA StaysStep ==
    ASSUME Typed, Placed, SecretFresh, [Next]_vars PROVE SecretStays
<1>1. CASE UNCHANGED vars
  BY <1>1 DEF vars, SecretStays
<1>2. ASSUME Next, ~ \E d \in Directs : WriteSecret(d) PROVE SecretStays
  <2>1. SecretsKept({next} \ Live)
    BY <1>2, SecretsStep
  <2>2. QED
    BY <2>1 DEF SecretsKept, SecretStays
<1>3. ASSUME NEW d \in Directs, WriteSecret(d) PROVE SecretStays
  <2> SUFFICES ASSUME NEW i \in Live \intersect Live', rows[i].totp # Nobody,
                      rows'[i].totp \notin {Nobody, rows[i].totp}
               PROVE  dir[d].pc = "write" /\ dir[d].id = i /\ dir[d].late
    BY DEF SecretStays
  <2>1. dir[d].pc = "write"
    BY <1>3 DEF WriteSecret
  <2>2. i = dir[d].id
    BY <1>3 DEF WriteSecret, Typed, Live
  <2>3. rows'[i].totp = dir[d].secret
    <3>1. rows[i] \in Row /\ rows' = [rows EXCEPT ![i].totp = dir[d].secret]
      BY <1>3, <2>2 DEF WriteSecret, Typed
    <3>2. rows'[i] = [rows[i] EXCEPT !.totp = dir[d].secret]
      BY <3>1 DEF Typed, Live
    <3>3. QED
      BY <3>1, <3>2 DEF Row
  <2>4. QED
    BY <2>1, <2>2, <2>3 DEF SecretFresh, FreshAt, Typed, Dir
<1>4. QED
  BY <1>1, <1>2, <1>3

\* A second factor that works is replaced only by a request that another one's
\* secret came in under.
THEOREM WorkingSecretTheorem == Spec => WorkingSecretStays
<1>1. Init => SecretFresh
  BY DEF Init, SecretFresh, FreshAt, Live
<1>2. IInv /\ SecretFresh /\ [Next]_vars => SecretFresh'
  BY FreshStep DEF IInv
<1>3. IInv /\ SecretFresh /\ [Next]_vars => [SecretStays]_vars
  BY StaysStep DEF IInv
<1>4. Spec => [][SecretStays]_vars
  BY <1>1, <1>2, <1>3, MailboxesInvariant, PTL DEF Spec
<1>5. QED
  BY <1>4 DEF WorkingSecretStays, SecretStays

-----------------------------------------------------------------------------
(* An account's one default mailbox.                                       *)

\* A set of naturals has a least member.
LEMMA LeastOfNaturals ==
    ASSUME NEW T, T \subseteq Nat, T # {}
    PROVE  \E x \in T : \A y \in T : x <= y
<1>1. PICK x \in T : \A y \in T : ~ (<<y, x>> \in OpToRel(<, Nat))
  BY WFMin, NatLessThanWellFounded, Zenon
<1>2. \A y \in T : x <= y
  <2> TAKE y \in T
  <2>1. x \in Nat /\ y \in Nat
    OBVIOUS
  <2>2. ~ (y < x)
    BY <1>1, <2>1 DEF OpToRel
  <2>3. QED
    BY <2>1, <2>2
<1>3. QED
  BY <1>2

\* A set of ids has one element when it is a singleton.
LEMMA OneCard ==
    ASSUME NEW S, S \subseteq Ids
    PROVE  Cardinality(S) = 1 <=> \E x \in S : S = {x}
<1>1. IsFiniteSet(Ids)
  BY FS_Interval, MaxIdAssumption DEF Ids
<1>2. IsFiniteSet(S)
  BY <1>1, FS_Subset
<1>3. QED
  BY <1>2, FS_Singleton

\* A table's rows of an account, those of them that are its default, and that
\* there is one such.
Mine(t, u) == {i \in DOMAIN t : t[i].owner = u}
Dflts(t, u) == {i \in DOMAIN t : t[i].owner = u /\ t[i].dflt}
One(t, u) == Mine(t, u) # {} => \E x \in Dflts(t, u) : \A y \in Dflts(t, u) : y = x

LEMMA OneIsOne ==
    ASSUME Typed, NEW u PROVE OneDefault(u) <=> One(rows, u)
<1>1. Of(u) = Mine(rows, u) /\ {i \in Of(u) : rows[i].dflt} = Dflts(rows, u)
  BY DEF Of, Mine, Dflts, Live
<1>2. Dflts(rows, u) \subseteq Ids
  BY DEF Dflts, Typed, Live
<1> HIDE DEF Mine, Dflts
<1>3. QED
  BY <1>1, <1>2, OneCard DEF OneDefault, One

LEMMA OneIsOneNext ==
    ASSUME Typed', NEW u PROVE OneDefault(u)' <=> One(rows', u)
<1>1. Of(u)' = Mine(rows', u) /\ {i \in Of(u)' : rows'[i].dflt} = Dflts(rows', u)
  BY DEF Of, Mine, Dflts, Live
<1>2. Dflts(rows', u) \subseteq Ids
  BY DEF Dflts, Typed, Live
<1>3. OneDefault(u)' <=>
         (Of(u)' # {} => Cardinality({i \in Of(u)' : rows'[i].dflt}) = 1)
  BY DEF OneDefault
<1> HIDE DEF Mine, Dflts
<1>4. QED
  BY <1>1, <1>2, <1>3, OneCard DEF One

\* The two steps that are excepted.
TakesOver(u) == \E i \in Live \intersect Live' :
                    rows[i].owner = Nobody /\ rows'[i].owner = u
Unticks(u) == \E i \in Live \intersect Live' :
                  /\ rows[i].owner = u /\ rows[i].dflt
                  /\ ~ rows'[i].dflt
                  /\ ~ \E j \in Live' : rows'[j].owner = u /\ rows'[j].dflt
Keeps(u) == One(rows, u) /\ ~ TakesOver(u) /\ ~ Unticks(u) => One(rows', u)

\* Nothing about the account's mailboxes changed.
LEMMA KeptAsItWas ==
    ASSUME NEW u,
           \A i \in Live' : rows'[i].owner = u =>
               i \in Live /\ rows[i].owner = u /\ rows'[i].dflt = rows[i].dflt,
           \A i \in Live : rows[i].owner = u => i \in Live' /\ rows'[i].owner = u
    PROVE  Keeps(u)
<1>1. Mine(rows', u) = Mine(rows, u) /\ Dflts(rows', u) = Dflts(rows, u)
  BY DEF Mine, Dflts, Live
<1>2. QED
  BY <1>1 DEF One, Keeps

\* What each statement writes in is_default.
LEMMA ClearedDefault ==
    ASSUME Typed, NEW u, NEW K, NEW j \in Live
    PROVE  WithoutDefaults(rows, u, K)[j].dflt =
               IF rows[j].owner = u /\ j \notin K THEN FALSE ELSE rows[j].dflt
<1>1. rows[j] \in Row
  BY DEF Typed
<1>2. [rows[j] EXCEPT !.dflt = FALSE].dflt = FALSE
  BY <1>1 DEF Row
<1>3. WithoutDefaults(rows, u, K)[j] =
         IF rows[j].owner = u /\ j \notin K THEN [rows[j] EXCEPT !.dflt = FALSE]
         ELSE rows[j]
  BY DEF WithoutDefaults, Live
<1>4. QED
  BY <1>2, <1>3

\* A row is the default or is not, and if it is the others of the account are not.
WritesDefault(t, i, on, u) ==
    /\ t[i].dflt = on
    /\ \A j \in Live \ {i} :
          t[j].dflt = IF on /\ rows[j].owner = u THEN FALSE ELSE rows[j].dflt

LEMMA CreatedDefault ==
    ASSUME Typed, NEW u \in Users, NEW a \in Addr, NEW ticked \in BOOLEAN
    PROVE  WritesDefault(Created(u, a, ticked), next, ticked \/ Of(u) = {}, u)
<1> DEFINE dflt == ticked \/ Of(u) = {}
           cleared == IF dflt THEN WithoutDefaults(rows, u, {}) ELSE rows
           r == [addr |-> a, owner |-> u, pw |-> TRUE, dflt |-> dflt, totp |-> Nobody]
<1>1. r.dflt = dflt
  OBVIOUS
<1>2. cleared \in [Live -> Row]
  BY ClearedAt DEF Typed
<1>3. next \notin Live
  BY MaxIdAssumption DEF Typed
<1>4. Created(u, a, ticked) = WithRow(cleared, next, r)
  BY DEF Created
<1>5. ASSUME NEW j \in Live
      PROVE  cleared[j].dflt = IF dflt /\ rows[j].owner = u THEN FALSE ELSE rows[j].dflt
  <2>1. WithoutDefaults(rows, u, {})[j].dflt =
            IF rows[j].owner = u /\ j \notin {} THEN FALSE ELSE rows[j].dflt
    BY ClearedDefault
  <2> HIDE DEF dflt
  <2>2. QED
    BY <2>1
<1> HIDE DEF cleared, r
<1>6. /\ WithRow(cleared, next, r)[next] = r
      /\ \A j \in Live : WithRow(cleared, next, r)[j] = cleared[j]
  BY <1>2, <1>3 DEF WithRow
<1>7. QED
  BY <1>1, <1>3, <1>4, <1>5, <1>6 DEF WritesDefault

LEMMA EditedDefault ==
    ASSUME Typed, NEW u \in Users, NEW i \in Live, NEW a \in Addr,
           NEW ticked \in BOOLEAN
    PROVE  WritesDefault(Edited(u, i, a, ticked), i, ticked, u)
<1> DEFINE cleared == IF ticked THEN WithoutDefaults(rows, u, {i}) ELSE rows
<1>1. cleared \in [Live -> Row]
  BY ClearedAt DEF Typed
<1>2. ASSUME NEW j \in Live \ {i}
      PROVE  cleared[j].dflt = IF ticked /\ rows[j].owner = u THEN FALSE ELSE rows[j].dflt
  BY ClearedDefault
<1>3. Edited(u, i, a, ticked) = [cleared EXCEPT ![i].addr = a, ![i].dflt = ticked]
  BY Zenon DEF Edited
<1> HIDE DEF cleared
<1>4. /\ Edited(u, i, a, ticked)[i] = [cleared[i] EXCEPT !.addr = a, !.dflt = ticked]
      /\ \A j \in Live \ {i} : Edited(u, i, a, ticked)[j] = cleared[j]
  BY <1>1, <1>3
<1>5. cleared[i] \in Row
  BY <1>1
<1>6. Edited(u, i, a, ticked)[i].dflt = ticked
  BY ZenonT(40), <1>4, <1>5 DEF Row
<1>7. QED
  BY <1>2, <1>4, <1>6 DEF WritesDefault

\* The first of a set of ids is one of them.
LEMMA FirstOf ==
    ASSUME NEW S, S \subseteq Ids, S # {} PROVE First(S) \in S
<1>1. S \subseteq Nat
  BY MaxIdAssumption DEF Ids
<1>2. \E i \in S : \A j \in S : i <= j
  BY <1>1, LeastOfNaturals
<1>3. QED
  BY <1>2, Zenon DEF First

LEMMA DetachedDefault ==
    ASSUME Typed, NEW u \in Users, NEW i \in Live
    PROVE  LET others == Of(u) \ {i}
               f == First(others)
           IN  IF rows[i].dflt /\ others # {}
               THEN /\ f \in others /\ Detached(u, i)[f].dflt
                    /\ \A j \in (Live \ {i}) \ {f} : Detached(u, i)[j].dflt = rows[j].dflt
               ELSE \A j \in Live \ {i} : Detached(u, i)[j].dflt = rows[j].dflt
<1> DEFINE others == Of(u) \ {i}
           f == First(others)
           rest == Without(rows, {i})
<1>1. rest \in [Live \ {i} -> Row] /\ \A j \in Live \ {i} : rest[j] = rows[j]
  BY WithoutAt
<1>2. CASE ~ (rows[i].dflt /\ others # {})
  <2>1. Detached(u, i) = rest
    BY <1>2 DEF Detached
  <2> HIDE DEF rest
  <2>2. \A j \in Live \ {i} : Detached(u, i)[j].dflt = rows[j].dflt
    BY <1>1, <2>1
  <2>3. QED
    BY <1>2, <2>2
<1>3. CASE rows[i].dflt /\ others # {}
  <2>1. others \subseteq Ids
    BY DEF Of, Typed
  <2>2. f \in others
    BY <1>3, <2>1, FirstOf
  <2>3. f \in Live \ {i}
    BY <2>2 DEF Of
  <2>4. Detached(u, i) = [rest EXCEPT ![f].dflt = TRUE]
    BY <1>3, Zenon DEF Detached
  <2> HIDE DEF rest, f
  <2>5. /\ Detached(u, i)[f] = [rest[f] EXCEPT !.dflt = TRUE]
        /\ \A j \in (Live \ {i}) \ {f} : Detached(u, i)[j] = rest[j]
    BY <1>1, <2>3, <2>4
  <2>6. rest[f] \in Row
    BY <1>1, <2>3
  <2>7. Detached(u, i)[f].dflt = TRUE
    BY <2>5, <2>6 DEF Row
  <2>8. \A j \in (Live \ {i}) \ {f} : Detached(u, i)[j].dflt = rows[j].dflt
    BY <1>1, <2>5
  <2>9. QED
    BY <1>3, <2>2, <2>7, <2>8 DEF f
<1>4. QED
  BY <1>2, <1>3

LEMMA DetachKeeps ==
    ASSUME Typed, NEW t \in Tabs, NEW v \in Users, NEW i \in Ids, Detach(t, v, i),
           NEW u \in Users
    PROVE  Keeps(u)
<1>1. i \in Live /\ rows[i].owner = v /\ rows' = Detached(v, i)
  BY DEF Detach, Of
<1>2. Live' = Live \ {i} /\ \A j \in Live' : Alike(rows'[j], rows[j])
  BY DetachEffect
<1>3. \A j \in Live' : rows'[j].owner = rows[j].owner
  BY <1>2 DEF Alike
<1> DEFINE others == Of(v) \ {i}
           f == First(others)
<1>4. CASE rows[i].dflt /\ others # {}
  <2>1. /\ f \in others /\ rows'[f].dflt
        /\ \A j \in Live' \ {f} : rows'[j].dflt = rows[j].dflt
    <3>1. IF rows[i].dflt /\ others # {}
          THEN /\ f \in others /\ Detached(v, i)[f].dflt
               /\ \A j \in (Live \ {i}) \ {f} : Detached(v, i)[j].dflt = rows[j].dflt
          ELSE \A j \in Live \ {i} : Detached(v, i)[j].dflt = rows[j].dflt
      BY <1>1, DetachedDefault
    <3> HIDE DEF f, others
    <3>2. QED
      BY <1>1, <1>2, <1>4, <3>1
  <2>2. f \in Live' /\ rows[f].owner = v
    BY <1>2, <2>1 DEF Of
  <2> HIDE DEF f, others
  <2>3. CASE u # v
    BY <1>1, <1>2, <1>3, <2>1, <2>2, <2>3, KeptAsItWas
  <2>4. CASE u = v
    <3> SUFFICES ASSUME One(rows, u) PROVE One(rows', u)
      BY DEF Keeps
    <3>1. i \in Mine(rows, u) /\ i \in Dflts(rows, u)
      BY <1>1, <1>4, <2>4 DEF Mine, Dflts, Live
    <3>2. \A j \in Live : rows[j].owner = u /\ rows[j].dflt => j = i
      BY <3>1 DEF One, Dflts, Live
    <3>3. f \in Dflts(rows', u)
      BY <1>3, <2>1, <2>2, <2>4 DEF Dflts, Live
    <3>4. ASSUME NEW j \in Dflts(rows', u) PROVE j = f
      BY <1>2, <1>3, <2>1, <3>2, <3>4 DEF Dflts, Live
    <3>5. QED
      BY <3>3, <3>4 DEF One
  <2>5. QED
    BY <2>3, <2>4
<1>5. CASE ~ (rows[i].dflt /\ others # {})
  <2>1. \A j \in Live' : rows'[j].dflt = rows[j].dflt
    BY <1>1, <1>2, <1>5, DetachedDefault
  <2>2. CASE u # v
    BY <1>1, <1>2, <1>3, <2>1, <2>2, KeptAsItWas
  <2>3. CASE u = v
    <3> SUFFICES ASSUME One(rows, u), Mine(rows', u) # {}
                 PROVE  \E x \in Dflts(rows', u) : \A y \in Dflts(rows', u) : y = x
      BY DEF Keeps, One
    <3>1. others # {}
      BY <1>2, <1>3, <2>3 DEF Mine, Of, Live
    <3>2. ~ rows[i].dflt
      BY <3>1, <1>5
    <3>3. Dflts(rows', u) = Dflts(rows, u)
      BY <1>2, <1>3, <2>1, <3>2 DEF Dflts, Live
    <3>4. i \in Mine(rows, u)
      BY <1>1, <2>3 DEF Mine, Live
    <3>5. QED
      BY <3>3, <3>4 DEF One
  <2>4. QED
    BY <2>2, <2>3
<1>6. QED
  BY <1>4, <1>5

LEMMA EditKeeps ==
    ASSUME Typed, NEW t \in Tabs, NEW v \in Users, NEW i \in Ids, NEW a \in Addr,
           NEW ticked \in BOOLEAN, Edit(t, v, i, a, ticked), NEW u \in Users
    PROVE  Keeps(u)
<1>1. i \in Live /\ rows[i].owner = v /\ rows' = Edited(v, i, a, ticked)
  BY DEF Edit, Of
<1>2. Live' = Live /\ \A j \in Live : rows'[j].owner = rows[j].owner
  BY EditEffect
<1>3. /\ rows'[i].dflt = ticked
      /\ \A j \in Live \ {i} : rows'[j].dflt =
             IF ticked /\ rows[j].owner = v THEN FALSE ELSE rows[j].dflt
  <2>1. WritesDefault(rows', i, ticked, v)
    BY <1>1, EditedDefault
  <2>2. QED
    BY <2>1 DEF WritesDefault
<1>4. CASE u # v
  BY <1>1, <1>2, <1>3, <1>4, KeptAsItWas
<1>5. CASE u = v /\ ticked
  <2>1. i \in Dflts(rows', u)
    BY <1>1, <1>2, <1>3, <1>5 DEF Dflts, Live
  <2>2. ASSUME NEW j \in Dflts(rows', u) PROVE j = i
    BY <1>2, <1>3, <1>5, <2>2 DEF Dflts, Live
  <2>3. QED
    BY <2>1, <2>2 DEF Keeps, One
<1>6. CASE u = v /\ ~ ticked
  <2> SUFFICES ASSUME One(rows, u), ~ Unticks(u) PROVE One(rows', u)
    BY DEF Keeps
  <2>1. i \in Mine(rows, u)
    BY <1>1, <1>6 DEF Mine, Live
  <2>2. PICK x \in Dflts(rows, u) : \A y \in Dflts(rows, u) : y = x
    BY <2>1 DEF One
  <2>3. Dflts(rows', u) = Dflts(rows, u) \ {i}
    BY <1>2, <1>3, <1>6 DEF Dflts, Live
  <2>4. x # i
    <3> SUFFICES ASSUME x = i PROVE FALSE
      OBVIOUS
    <3>1. Dflts(rows', u) = {}
      BY <2>2, <2>3
    <3>2. rows[i].dflt
      BY <2>2 DEF Dflts
    <3>3. ~ \E j \in Live' : rows'[j].owner = u /\ rows'[j].dflt
      BY <3>1 DEF Dflts, Live
    <3>4. QED
      BY <1>1, <1>2, <1>3, <1>6, <3>2, <3>3 DEF Unticks
  <2>5. QED
    BY <2>2, <2>3, <2>4 DEF One
<1>7. QED
  BY <1>4, <1>5, <1>6

LEMMA ClaimKeeps ==
    ASSUME Typed, Placed, NEW t \in Tabs, Claim(t), NEW u \in Users
    PROVE  Keeps(u)
<1>1. CASE rows' = rows
  BY <1>1 DEF Keeps, One, Mine, Dflts
<1>2. CASE rows' # rows
  <2> DEFINE i == tab[t].id
             v == tab[t].user
  <2>1. /\ i \in Live /\ rows[i] \in Row /\ rows[i].owner = Nobody
        /\ rows' = [rows EXCEPT ![i] = Claimed(rows[i], v)] /\ v \in Users
    BY <1>2 DEF Claim, Unclaimed, Typed
  <2>2. Live' = Live /\ rows'[i] = Claimed(rows[i], v)
        /\ \A j \in Live \ {i} : rows'[j] = rows[j]
    BY <2>1 DEF Live, Typed
  <2>3. rows'[i].owner = v
    <3>1. rows[i] \in Row /\ rows'[i] = Claimed(rows[i], v)
      BY <2>1, <2>2
    <3>2. QED
      BY <3>1 DEF Claimed, Row
  <2> HIDE DEF i, v
  <2>4. CASE u = v
    BY <2>1, <2>2, <2>3, <2>4 DEF Keeps, TakesOver
  <2>5. CASE u # v
    BY <2>1, <2>2, <2>3, <2>5, KeptAsItWas, NobodyAssumption
  <2>6. QED
    BY <2>4, <2>5
<1>3. QED
  BY <1>1, <1>2

LEMMA CreateKeeps ==
    ASSUME Typed, Placed, NEW t \in Tabs, Create(t), NEW u \in Users
    PROVE  Keeps(u)
<1>1. CASE rows' = rows
  BY <1>1 DEF Keeps, One, Mine, Dflts
<1>2. CASE rows' # rows
  <2> DEFINE v == tab[t].user
             a == tab[t].addr
  <2>1. v \in Users /\ a \in Addr
    BY DEF Create, Placed
  <2>2. PICK ticked \in BOOLEAN : rows' = Created(v, a, ticked)
    BY <1>2 DEF Create
  <2>3. /\ rows' \in [Live \union {next} -> Row]
        /\ rows'[next].owner = v
        /\ \A j \in Live : Alike(rows'[j], rows[j])
    BY <2>1, <2>2, CreatedAt
  <2>4. Live' = Live \union {next} /\ \A j \in Live : rows'[j].owner = rows[j].owner
    BY <2>3 DEF Live, Alike
  <2> DEFINE dflt == ticked \/ Of(v) = {}
  <2>5. /\ rows'[next].dflt = dflt
        /\ \A j \in Live : rows'[j].dflt =
               IF dflt /\ rows[j].owner = v THEN FALSE ELSE rows[j].dflt
    <3>1. WritesDefault(rows', next, dflt, v)
      BY <2>1, <2>2, CreatedDefault
    <3>2. next \notin Live
      BY MaxIdAssumption DEF Typed
    <3> HIDE DEF dflt, v
    <3>3. QED
      BY <3>1, <3>2 DEF WritesDefault
  <2>6. next \notin Live
    BY MaxIdAssumption DEF Typed
  <2> HIDE DEF v, a
  <2>7. CASE u # v
    BY <2>3, <2>4, <2>5, <2>6, <2>7, KeptAsItWas
  <2>8. CASE u = v /\ dflt
    <3> HIDE DEF dflt
    <3>1. next \in Dflts(rows', u)
      BY <2>3, <2>4, <2>5, <2>8 DEF Dflts, Live
    <3>2. ASSUME NEW j \in Dflts(rows', u) PROVE j = next
      BY <2>4, <2>5, <2>8, <3>2 DEF Dflts, Live
    <3>3. QED
      BY <3>1, <3>2 DEF Keeps, One
  <2>9. CASE u = v /\ ~ dflt
    <3>1. Of(u) # {}
      BY <2>9
    <3>2. Mine(rows, u) # {}
      BY <3>1 DEF Mine, Of, Live
    <3> HIDE DEF dflt
    <3>3. Dflts(rows', u) = Dflts(rows, u)
      BY <2>4, <2>5, <2>6, <2>9 DEF Dflts, Live
    <3>4. QED
      BY <3>2, <3>3 DEF Keeps, One
  <2>10. QED
    BY <2>7, <2>8, <2>9
<1>3. QED
  BY <1>1, <1>2

LEMMA KeepsStep ==
    ASSUME Typed, Placed, [Next]_vars, NEW u \in Users PROVE Keeps(u)
<1>0. ASSUME rows' = rows PROVE Keeps(u)
  BY <1>0 DEF Keeps, One, Mine, Dflts
<1>1. CASE UNCHANGED vars
  BY <1>0, <1>1 DEF vars
<1>2. ASSUME NEW t \in Tabs, TabNext(t) PROVE Keeps(u)
  <2>1. ASSUME NEW v \in Users, NEW i \in Ids, Detach(t, v, i) PROVE Keeps(u)
    BY <2>1, DetachKeeps
  <2>2. ASSUME NEW v \in Users, NEW i \in Ids, NEW a \in Addr,
               NEW ticked \in BOOLEAN, Edit(t, v, i, a, ticked) PROVE Keeps(u)
    BY <2>2, EditKeeps
  <2>3. CASE Claim(t)
    BY <2>3, ClaimKeeps
  <2>4. CASE Create(t)
    BY <2>4, CreateKeeps
  <2>5. CASE Find(t) \/ \E v \in Users, a \in Addr : Prove(t, v, a)
    BY <1>0, <2>5 DEF Find, Prove
  <2>6. QED
    BY <1>2, <2>1, <2>2, <2>3, <2>4, <2>5 DEF TabNext
<1>3. ASSUME NEW v \in Users, RemoveAccount(v) PROVE Keeps(u)
  <2>1. /\ Live' = Live \ Of(v)
        /\ \A j \in Live' : rows'[j] = rows[j]
    BY <1>3, RemoveEffect
  <2>2. CASE u = v
    <3>1. Mine(rows', u) = {}
      BY <2>1, <2>2 DEF Mine, Of, Live
    <3>2. QED
      BY <3>1 DEF Keeps, One
  <2>3. CASE u # v
    BY <2>1, <2>3, KeptAsItWas DEF Of
  <2>4. QED
    BY <2>2, <2>3
<1>4. ASSUME NEW d \in Directs, Insert(d) PROVE Keeps(u)
  <2>1. CASE rows' = rows
    BY <2>1, <1>0
  <2>2. CASE rows' # rows
    <3>1. dir[d].addr \in Addr /\ rows' = WithRow(rows, next, SelfOwned(dir[d].addr))
      BY <1>4, <2>2 DEF Insert, Placed
    <3>2. /\ rows' \in [Live \union {next} -> Row] /\ rows'[next].owner = Nobody
          /\ \A j \in Live : rows'[j] = rows[j]
      BY <3>1, InsertedAt
    <3>3. Live' = Live \union {next}
      BY <3>2 DEF Live
    <3>4. QED
      BY <3>2, <3>3, KeptAsItWas, NobodyAssumption
  <2>3. QED
    BY <2>1, <2>2
<1>5. ASSUME NEW d \in Directs, WriteSecret(d) PROVE Keeps(u)
  <2> DEFINE i == dir[d].id
  <2>1. CASE i \notin Live
    BY <1>0, <1>5, <2>1 DEF WriteSecret
  <2>2. CASE i \in Live
    <3>1. rows[i] \in Row /\ rows' = [rows EXCEPT ![i].totp = dir[d].secret]
      BY <1>5, <2>2 DEF WriteSecret, Typed
    <3>2. Live' = Live /\ rows'[i] = [rows[i] EXCEPT !.totp = dir[d].secret]
          /\ \A j \in Live \ {i} : rows'[j] = rows[j]
      BY <2>2, <3>1 DEF Typed, Live
    <3>3. rows'[i].owner = rows[i].owner /\ rows'[i].dflt = rows[i].dflt
      BY <3>1, <3>2 DEF Row
    <3>4. /\ Live' = Live
          /\ \A j \in Live : rows'[j].owner = rows[j].owner /\ rows'[j].dflt = rows[j].dflt
      BY <3>2, <3>3
    <3>5. QED
      BY <3>4, KeptAsItWas
  <2>3. QED
    BY <2>1, <2>2
<1>6. ASSUME NEW d \in Directs,
             \/ \E a \in Addr : CheckAttached(d, a)
             \/ LookUp(d) \/ Dial(d) \/ Factor(d) \/ Leave(d)
             \/ StartEnable(d) \/ StartDisable(d) \/ ReadOwner(d)
      PROVE  Keeps(u)
  BY <1>0, <1>6
  DEF CheckAttached, LookUp, Dial, Factor, Leave, StartEnable, StartDisable, ReadOwner
<1>7. QED
  BY <1>1, <1>2, <1>3, <1>4, <1>5, <1>6 DEF Next, DirNext

\* What DefaultKept says of one step.
DefaultStays ==
    \A u \in Users :
        LET tookOver == \E i \in Live \intersect Live' :
                            rows[i].owner = Nobody /\ rows'[i].owner = u
            unticked == \E i \in Of(u) \intersect Live' :
                            rows[i].dflt /\ ~ rows'[i].dflt
                                /\ ~ \E j \in Of(u)' : rows'[j].dflt
        IN  OneDefault(u) /\ ~ tookOver /\ ~ unticked => OneDefault(u)'

LEMMA DefaultStep ==
    ASSUME Typed, Placed, [Next]_vars PROVE DefaultStays
<1> SUFFICES ASSUME NEW u \in Users,
                    OneDefault(u),
                    ~ \E i \in Live \intersect Live' :
                          rows[i].owner = Nobody /\ rows'[i].owner = u,
                    ~ \E i \in Of(u) \intersect Live' :
                          rows[i].dflt /\ ~ rows'[i].dflt
                              /\ ~ \E j \in Of(u)' : rows'[j].dflt
             PROVE  OneDefault(u)'
  BY DEF DefaultStays
<1>1. Typed'
  BY TypeStep
<1>2. One(rows, u)
  BY OneIsOne
<1>3. ~ TakesOver(u)
  BY DEF TakesOver
<1>4. ~ Unticks(u)
  BY DEF Unticks, Of
<1>5. Keeps(u)
  BY KeepsStep
<1>6. QED
  BY <1>1, <1>2, <1>3, <1>4, <1>5, OneIsOneNext DEF Keeps

\* One default mailbox stays one, but for the two steps excepted.
THEOREM DefaultTheorem == Spec => DefaultKept
<1>1. IInv /\ [Next]_vars => [DefaultStays]_vars
  BY DefaultStep DEF IInv
<1>2. Spec => [][DefaultStays]_vars
  BY <1>1, MailboxesInvariant, PTL DEF Spec
<1>3. QED
  BY <1>2 DEF DefaultKept, DefaultStays

-----------------------------------------------------------------------------
(* Who has an address changes as Ownership says.                           *)

\* What a table answers, by its own arguments: OwnerOf is OwnerIn of rows.
OwnerIn(t, a) ==
    IF {j \in DOMAIN t : t[j].addr = a} = {} THEN Nobody
    ELSE LET i == CHOOSE j \in {k \in DOMAIN t : t[k].addr = a} : TRUE
         IN  IF t[i].owner = Nobody THEN Self ELSE t[i].owner

Owners(t) == [a \in Addr |-> OwnerIn(t, a)]

Unique(t) == \A i, j \in DOMAIN t : t[i].addr = t[j].addr => i = j

\* The answer for an address somebody's row is for.
Said(o) == IF o = Nobody THEN Self ELSE o

LEMMA OwnerThere ==
    ASSUME NEW t, Unique(t), NEW i \in DOMAIN t
    PROVE  OwnerIn(t, t[i].addr) = Said(t[i].owner)
<1>1. i \in {k \in DOMAIN t : t[k].addr = t[i].addr}
  OBVIOUS
<1>2. \A j \in {k \in DOMAIN t : t[k].addr = t[i].addr} : j = i
  BY DEF Unique
<1>3. (CHOOSE j \in {k \in DOMAIN t : t[k].addr = t[i].addr} : TRUE) = i
  BY <1>1, <1>2
<1>4. QED
  BY <1>1, <1>3 DEF OwnerIn, Said

LEMMA OwnerNone ==
    ASSUME NEW t, NEW a, \A j \in DOMAIN t : t[j].addr # a
    PROVE  OwnerIn(t, a) = Nobody
  BY DEF OwnerIn

\* The rows for an address are the same ones, with the same owner.
SameFor(s, t, a) ==
    /\ \A i \in DOMAIN s : s[i].addr = a =>
           i \in DOMAIN t /\ t[i].addr = a /\ t[i].owner = s[i].owner
    /\ \A i \in DOMAIN t : t[i].addr = a => i \in DOMAIN s /\ s[i].addr = a

LEMMA OwnerSame ==
    ASSUME NEW s, NEW t, Unique(s), Unique(t), NEW a, SameFor(s, t, a)
    PROVE  OwnerIn(t, a) = OwnerIn(s, a)
<1>1. CASE \E i \in DOMAIN s : s[i].addr = a
  <2>1. PICK i \in DOMAIN s : s[i].addr = a
    BY <1>1
  <2>2. i \in DOMAIN t /\ t[i].addr = a /\ t[i].owner = s[i].owner
    BY <2>1 DEF SameFor
  <2>3. OwnerIn(s, s[i].addr) = Said(s[i].owner)
    BY OwnerThere
  <2>4. OwnerIn(t, t[i].addr) = Said(t[i].owner)
    BY <2>2, OwnerThere
  <2>5. QED
    BY <2>1, <2>2, <2>3, <2>4
<1>2. CASE ~ \E i \in DOMAIN s : s[i].addr = a
  <2>1. OwnerIn(s, a) = Nobody
    BY <1>2, OwnerNone
  <2>2. \A j \in DOMAIN t : t[j].addr # a
    BY <1>2 DEF SameFor
  <2>3. QED
    BY <2>1, <2>2, OwnerNone
<1>3. QED
  BY <1>1, <1>2

\* One address's answer changed, or none did.
LEMMA OneChanged ==
    ASSUME NEW s, NEW t, Unique(s), Unique(t), NEW a \in Addr,
           \A b \in Addr \ {a} : SameFor(s, t, b)
    PROVE  Owners(t) = [Owners(s) EXCEPT ![a] = OwnerIn(t, a)]
<1>1. \A b \in Addr \ {a} : OwnerIn(t, b) = OwnerIn(s, b)
  BY OwnerSame
<1> HIDE DEF Unique, SameFor
<1>2. QED
  BY <1>1 DEF Owners

\* Ownership's steps, from one answer to the next.
Changes(o, p) ==
    \/ \E a \in Addr : o[a] = Nobody /\ p = [o EXCEPT ![a] = Self]
    \/ \E u \in Users, a \in Addr :
          o[a] \in {Nobody, Self} /\ p = [o EXCEPT ![a] = u]
    \/ \E u \in Users, a \in Addr : o[a] = u /\ p = [o EXCEPT ![a] = Nobody]
    \/ \E u \in Users, a, b \in Addr :
          /\ o[a] = u /\ o[b] = Nobody
          /\ p = [o EXCEPT ![a] = Nobody, ![b] = u]
    \/ \E u \in Users : p = [a \in Addr |-> IF o[a] = u THEN Nobody ELSE o[a]]

LEMMA ClaimTakes ==
    ASSUME Typed, Unique(rows), Unique(rows'), NEW t \in Tabs, Claim(t), rows' # rows
    PROVE  Changes(Owners(rows), Owners(rows'))
<1> DEFINE i == tab[t].id
           v == tab[t].user
<1>1. /\ i \in Live /\ rows[i] \in Row /\ rows[i].owner = Nobody
      /\ rows' = [rows EXCEPT ![i] = Claimed(rows[i], v)] /\ v \in Users
  BY DEF Claim, Unclaimed, Typed
<1>2. Live' = Live /\ rows'[i] = Claimed(rows[i], v)
      /\ \A j \in Live \ {i} : rows'[j] = rows[j]
  BY <1>1 DEF Live, Typed
<1>3. rows'[i].owner = v /\ rows'[i].addr = rows[i].addr /\ rows[i].addr \in Addr
  <2>1. rows[i] \in Row /\ rows'[i] = Claimed(rows[i], v)
    BY <1>1, <1>2
  <2>2. QED
    BY <2>1 DEF Claimed, Row
<1>4. i \in Live /\ rows[i].owner = Nobody /\ v \in Users
  BY <1>1
<1> HIDE DEF i, v
<1> DEFINE a == rows[i].addr
<1>5. \A b \in Addr \ {a} : SameFor(rows, rows', b)
  BY <1>2, <1>3, <1>4 DEF SameFor, Live
<1>6. Owners(rows') = [Owners(rows) EXCEPT ![a] = OwnerIn(rows', a)]
  BY <1>3, <1>5, OneChanged
<1>7. OwnerIn(rows, a) = Self
  BY <1>4, OwnerThere DEF Said, Live
<1>8. OwnerIn(rows', a) = v
  <2>1. i \in DOMAIN rows'
    BY <1>2, <1>4 DEF Live
  <2>2. OwnerIn(rows', rows'[i].addr) = Said(rows'[i].owner)
    BY <2>1, OwnerThere
  <2>3. QED
    BY <1>3, <1>4, <2>2, NobodyAssumption DEF Said
<1>9. Owners(rows)[a] = Self
  BY <1>3, <1>7 DEF Owners
<1>10. a \in Addr
  BY <1>3
<1> HIDE DEF a
<1>11. QED
  BY <1>4, <1>6, <1>8, <1>9, <1>10 DEF Changes

\* A new row for an address nobody has, an account's or its own.
LEMMA NewChanges ==
    ASSUME Unique(rows), Unique(rows'), NEW a \in Addr, NEW i, i \notin Live,
           \A j \in Live : rows[j].addr # a,
           Live' = Live \union {i}, rows'[i].addr = a,
           \A j \in Live : rows'[j].addr = rows[j].addr /\ rows'[j].owner = rows[j].owner
    PROVE  /\ Owners(rows') = [Owners(rows) EXCEPT ![a] = Said(rows'[i].owner)]
           /\ Owners(rows)[a] = Nobody
<1>1. \A b \in Addr \ {a} : SameFor(rows, rows', b)
  BY DEF SameFor, Live
<1>2. Owners(rows') = [Owners(rows) EXCEPT ![a] = OwnerIn(rows', a)]
  BY <1>1, OneChanged
<1>3. OwnerIn(rows', a) = Said(rows'[i].owner)
  <2>1. i \in DOMAIN rows'
    BY DEF Live
  <2>2. OwnerIn(rows', rows'[i].addr) = Said(rows'[i].owner)
    BY <2>1, OwnerThere
  <2>3. QED
    BY <2>2
<1>4. OwnerIn(rows, a) = Nobody
  BY OwnerNone DEF Live
<1>5. QED
  BY <1>2, <1>3, <1>4 DEF Owners

LEMMA CreateTakes ==
    ASSUME Typed, Placed, Unique(rows), Unique(rows'), NEW t \in Tabs, Create(t),
           rows' # rows
    PROVE  Changes(Owners(rows), Owners(rows'))
<1> DEFINE v == tab[t].user
           a == tab[t].addr
<1>1. v \in Users /\ a \in Addr
  BY DEF Create, Placed
<1>2. PICK ticked \in BOOLEAN : rows' = Created(v, a, ticked)
  BY DEF Create
<1>3. \A j \in Live : rows[j].addr # a
  BY DEF Create, Free, Holding
<1>4. /\ rows' \in [Live \union {next} -> Row]
      /\ rows'[next].addr = a /\ rows'[next].owner = v
      /\ \A j \in Live : Alike(rows'[j], rows[j])
  <2> HIDE DEF v, a
  <2>1. QED
    BY <1>1, <1>2, CreatedAt
<1>5. Live' = Live \union {next} /\ next \notin Live
  BY <1>4, MaxIdAssumption DEF Live, Typed
<1>6. \A j \in Live : rows'[j].addr = rows[j].addr /\ rows'[j].owner = rows[j].owner
  BY <1>4 DEF Alike
<1> HIDE DEF v, a
<1>7. /\ Owners(rows') = [Owners(rows) EXCEPT ![a] = Said(rows'[next].owner)]
      /\ Owners(rows)[a] = Nobody
  BY <1>1, <1>3, <1>4, <1>5, <1>6, NewChanges
<1>8. Said(rows'[next].owner) = v
  BY <1>1, <1>4, NobodyAssumption DEF Said
<1>9. QED
  BY <1>1, <1>7, <1>8 DEF Changes

LEMMA InsertSignsIn ==
    ASSUME Typed, Placed, Unique(rows), Unique(rows'), NEW d \in Directs, Insert(d),
           rows' # rows
    PROVE  Changes(Owners(rows), Owners(rows'))
<1> DEFINE a == dir[d].addr
<1>1. a \in Addr /\ rows' = WithRow(rows, next, SelfOwned(a))
  BY DEF Insert, Placed
<1>2. \A j \in Live : rows[j].addr # a
  BY DEF Insert, Free, Holding
<1>3. /\ rows' \in [Live \union {next} -> Row]
      /\ rows'[next].addr = a /\ rows'[next].owner = Nobody
      /\ \A j \in Live : rows'[j] = rows[j]
  BY <1>1, InsertedAt
<1>4. Live' = Live \union {next} /\ next \notin Live
  BY <1>3, MaxIdAssumption DEF Live, Typed
<1> HIDE DEF a
<1>5. /\ Owners(rows') = [Owners(rows) EXCEPT ![a] = Said(rows'[next].owner)]
      /\ Owners(rows)[a] = Nobody
  BY <1>1, <1>2, <1>3, <1>4, NewChanges
<1>6. Said(rows'[next].owner) = Self
  BY <1>3 DEF Said
<1>7. QED
  BY <1>1, <1>5, <1>6 DEF Changes

LEMMA DetachReleases ==
    ASSUME Typed, Unique(rows), Unique(rows'),
           NEW t \in Tabs, NEW u \in Users, NEW i \in Ids, Detach(t, u, i)
    PROVE  Changes(Owners(rows), Owners(rows'))
<1> DEFINE a == rows[i].addr
<1>1. /\ i \in Live /\ rows[i].owner = u /\ Live' = Live \ {i}
      /\ \A j \in Live' : Alike(rows'[j], rows[j])
  BY DetachEffect
<1>2. \A j \in Live' : rows'[j].addr = rows[j].addr /\ rows'[j].owner = rows[j].owner
  BY <1>1 DEF Alike
<1>3. a \in Addr
  BY <1>1 DEF Typed, Row
<1>4. \A b \in Addr \ {a} : SameFor(rows, rows', b)
  BY <1>1, <1>2 DEF SameFor, Live
<1>5. Owners(rows') = [Owners(rows) EXCEPT ![a] = OwnerIn(rows', a)]
  BY <1>3, <1>4, OneChanged
<1>6. OwnerIn(rows, a) = u
  <2>1. OwnerIn(rows, a) = Said(u)
    BY <1>1, OwnerThere DEF Live
  <2>2. QED
    BY <2>1, NobodyAssumption DEF Said
<1>7. OwnerIn(rows', a) = Nobody
  <2>1. \A j \in DOMAIN rows' : rows'[j].addr # a
    BY <1>1, <1>2 DEF Unique, Live
  <2>2. QED
    BY <2>1, OwnerNone
<1>8. Owners(rows)[a] = u
  BY <1>3, <1>6 DEF Owners
<1> HIDE DEF a
<1>9. QED
  BY <1>3, <1>5, <1>7, <1>8 DEF Changes

LEMMA EditRenames ==
    ASSUME Typed, Unique(rows), Unique(rows'),
           NEW t \in Tabs, NEW u \in Users, NEW i \in Ids, NEW b \in Addr,
           NEW ticked \in BOOLEAN, Edit(t, u, i, b, ticked)
    PROVE  \/ Owners(rows') = Owners(rows)
           \/ Changes(Owners(rows), Owners(rows'))
<1> DEFINE a == rows[i].addr
<1>1. /\ i \in Live /\ rows[i].owner = u /\ Live' = Live
      /\ b = a \/ \A j \in Live : rows[j].addr # b
      /\ rows'[i].addr = b
      /\ \A j \in Live : /\ rows'[j].owner = rows[j].owner
                         /\ j # i => rows'[j].addr = rows[j].addr
  BY EditEffect
<1>2. a \in Addr
  BY <1>1 DEF Typed, Row
<1>3. \A c \in Addr \ {a, b} : SameFor(rows, rows', c)
  BY <1>1 DEF SameFor, Live
<1>4. CASE b = a
  <2>1. \A c \in Addr : SameFor(rows, rows', c)
    BY <1>1, <1>4 DEF SameFor, Live
  <2>2. \A c \in Addr : OwnerIn(rows', c) = OwnerIn(rows, c)
    BY <2>1, OwnerSame
  <2>3. QED
    BY <2>2 DEF Owners
<1>5. CASE b # a
  <2>1. \A c \in Addr \ {a, b} : OwnerIn(rows', c) = OwnerIn(rows, c)
    BY <1>3, OwnerSame
  <2>2. OwnerIn(rows, a) = u
    <3>1. OwnerIn(rows, a) = Said(u)
      BY <1>1, OwnerThere DEF Live
    <3>2. QED
      BY <3>1, NobodyAssumption DEF Said
  <2>3. OwnerIn(rows', b) = u
    <3>1. i \in DOMAIN rows'
      BY <1>1 DEF Live
    <3>2. OwnerIn(rows', rows'[i].addr) = Said(rows'[i].owner)
      BY <3>1, OwnerThere
    <3>3. QED
      BY <1>1, <3>2, NobodyAssumption DEF Said
  <2>4. OwnerIn(rows, b) = Nobody
    BY <1>1, <1>5, OwnerNone DEF Live
  <2>5. OwnerIn(rows', a) = Nobody
    <3>1. \A j \in DOMAIN rows' : rows'[j].addr # a
      BY <1>1, <1>5 DEF Unique, Live
    <3>2. QED
      BY <3>1, OwnerNone
  <2>6. Owners(rows)[a] = u /\ Owners(rows)[b] = Nobody
    BY <1>2, <2>2, <2>4 DEF Owners
  <2> HIDE DEF a
  <2>7. Owners(rows') = [Owners(rows) EXCEPT ![a] = Nobody, ![b] = u]
    BY <1>2, <1>5, <2>1, <2>3, <2>5 DEF Owners
  <2>8. QED
    BY <1>2, <2>6, <2>7 DEF Changes
<1>6. QED
  BY <1>4, <1>5

LEMMA RemoveRemoves ==
    ASSUME Typed, Unique(rows), Unique(rows'), NEW u \in Users, RemoveAccount(u)
    PROVE  Changes(Owners(rows), Owners(rows'))
<1>1. /\ Live' = Live \ Of(u)
      /\ \A j \in Live' : rows'[j] = rows[j]
      /\ \A j \in Live : rows[j].owner # u => j \in Live'
  BY RemoveEffect
<1>2. u # Nobody /\ u # Self
  BY NobodyAssumption, SelfAssumption
<1>3. ASSUME NEW a \in Addr
      PROVE  OwnerIn(rows', a) = IF OwnerIn(rows, a) = u THEN Nobody ELSE OwnerIn(rows, a)
  <2>1. CASE \E i \in Live : rows[i].addr = a /\ rows[i].owner = u
    <3>1. PICK i \in Live : rows[i].addr = a /\ rows[i].owner = u
      BY <2>1
    <3>2. OwnerIn(rows, a) = u
      <4>1. OwnerIn(rows, a) = Said(u)
        BY <3>1, OwnerThere DEF Live
      <4>2. QED
        BY <1>2, <4>1 DEF Said
    <3>3. \A j \in DOMAIN rows' : rows'[j].addr # a
      BY <1>1, <3>1 DEF Unique, Live, Of
    <3>4. QED
      BY <3>2, <3>3, OwnerNone
  <2>2. CASE ~ \E i \in Live : rows[i].addr = a /\ rows[i].owner = u
    <3>1. SameFor(rows, rows', a)
      BY <1>1, <2>2 DEF SameFor, Live
    <3>2. OwnerIn(rows', a) = OwnerIn(rows, a)
      BY <3>1, OwnerSame
    <3>3. OwnerIn(rows, a) # u
      <4>1. CASE \E i \in Live : rows[i].addr = a
        <5>1. PICK i \in Live : rows[i].addr = a
          BY <4>1
        <5>2. OwnerIn(rows, a) = Said(rows[i].owner)
          BY <5>1, OwnerThere DEF Live
        <5>3. QED
          BY <1>2, <2>2, <5>1, <5>2 DEF Said
      <4>2. CASE ~ \E i \in Live : rows[i].addr = a
        BY <1>2, <4>2, OwnerNone DEF Live
      <4>3. QED
        BY <4>1, <4>2
    <3>4. QED
      BY <3>2, <3>3
  <2>3. QED
    BY <2>1, <2>2
<1>4. Owners(rows') = [a \in Addr |-> IF Owners(rows)[a] = u THEN Nobody ELSE Owners(rows)[a]]
  BY <1>3 DEF Owners
<1>5. QED
  BY <1>4 DEF Changes

\* Each step is one of Ownership's, or nobody's answer changes.
LEMMA OwnersStep ==
    ASSUME Typed, Placed, Unique(rows), Unique(rows'), [Next]_vars
    PROVE  \/ Owners(rows') = Owners(rows)
           \/ Changes(Owners(rows), Owners(rows'))
<1> DEFINE Goal == \/ Owners(rows') = Owners(rows)
                   \/ Changes(Owners(rows), Owners(rows'))
<1> SUFFICES Goal
  OBVIOUS
<1>0. ASSUME rows' = rows PROVE Goal
  BY <1>0
<1>1. ASSUME NEW t \in Tabs, TabNext(t) PROVE Goal
  <2>1. ASSUME NEW u \in Users, NEW i \in Ids, Detach(t, u, i) PROVE Goal
    BY <2>1, DetachReleases
  <2>2. ASSUME NEW u \in Users, NEW i \in Ids, NEW a \in Addr,
               NEW ticked \in BOOLEAN, Edit(t, u, i, a, ticked) PROVE Goal
    BY <2>2, EditRenames
  <2>3. CASE Claim(t)
    BY <2>3, <1>0, ClaimTakes
  <2>4. CASE Create(t)
    BY <2>4, <1>0, CreateTakes
  <2>5. CASE Find(t) \/ \E u \in Users, a \in Addr : Prove(t, u, a)
    BY <1>0, <2>5 DEF Find, Prove
  <2> HIDE DEF Goal
  <2>6. QED
    BY <1>1, <2>1, <2>2, <2>3, <2>4, <2>5 DEF TabNext
<1>2. ASSUME NEW u \in Users, RemoveAccount(u) PROVE Goal
  BY <1>2, RemoveRemoves
<1>3. ASSUME NEW d \in Directs, Insert(d) PROVE Goal
  BY <1>3, <1>0, InsertSignsIn
<1>4. ASSUME NEW d \in Directs, WriteSecret(d) PROVE Goal
  <2> DEFINE i == dir[d].id
  <2>1. CASE i \notin Live
    BY <1>0, <1>4, <2>1 DEF WriteSecret
  <2>2. CASE i \in Live
    <3>1. rows[i] \in Row /\ rows' = [rows EXCEPT ![i].totp = dir[d].secret]
      BY <1>4, <2>2 DEF WriteSecret, Typed
    <3>2. Live' = Live /\ rows'[i] = [rows[i] EXCEPT !.totp = dir[d].secret]
          /\ \A j \in Live \ {i} : rows'[j] = rows[j]
      BY <2>2, <3>1 DEF Typed, Live
    <3>3. rows'[i].owner = rows[i].owner /\ rows'[i].addr = rows[i].addr
      BY <3>1, <3>2 DEF Row
    <3>4. /\ Live' = Live
          /\ \A j \in Live : rows'[j].owner = rows[j].owner /\ rows'[j].addr = rows[j].addr
      BY <3>2, <3>3
    <3>5. \A a \in Addr : SameFor(rows, rows', a)
      BY <3>4 DEF SameFor, Live
    <3>6. \A a \in Addr : OwnerIn(rows', a) = OwnerIn(rows, a)
      BY <3>5, OwnerSame
    <3>7. QED
      BY <3>6 DEF Owners
  <2>3. QED
    BY <2>1, <2>2
<1>5. ASSUME NEW d \in Directs,
             \/ \E a \in Addr : CheckAttached(d, a)
             \/ LookUp(d) \/ Dial(d) \/ Factor(d) \/ Leave(d)
             \/ StartEnable(d) \/ StartDisable(d) \/ ReadOwner(d)
      PROVE  Goal
  BY <1>0, <1>5
  DEF CheckAttached, LookUp, Dial, Factor, Leave, StartEnable, StartDisable, ReadOwner
<1>6. CASE UNCHANGED vars
  BY <1>0, <1>6 DEF vars
<1> HIDE DEF Goal
<1>7. QED
  BY <1>1, <1>2, <1>3, <1>4, <1>5, <1>6 DEF Next, DirNext

\* The refinement mapping.
LEMMA OwnersAre ==
    /\ [a \in Addr |-> OwnerOf(a)] = Owners(rows)
    /\ [a \in Addr |-> OwnerOf(a)]' = Owners(rows')
<1>1. ASSUME NEW a PROVE OwnerOf(a) = OwnerIn(rows, a)
  BY DEF OwnerOf, OwnerIn, Holding, Live
<1>2. ASSUME NEW a PROVE OwnerOf(a)' = OwnerIn(rows', a)
  BY DEF OwnerOf, OwnerIn, Holding, Live
<1>3. QED
  BY <1>1, <1>2 DEF Owners

LEMMA PromiseStep ==
    ASSUME IInv, IInv', [Next]_vars
    PROVE  [Promise!Next]_([a \in Addr |-> OwnerOf(a)])
<1>1. Typed /\ Placed /\ Unique(rows) /\ Unique(rows')
  BY DEF IInv, OneRow, Unique, Live
<1>2. \/ Owners(rows') = Owners(rows)
      \/ Changes(Owners(rows), Owners(rows'))
  BY <1>1, OwnersStep
<1> DEFINE o == [a \in Addr |-> OwnerOf(a)]
<1>3. o = Owners(rows) /\ o' = Owners(rows')
  BY OwnersAre
<1>4. o' = o \/ (o' # o /\ Changes(o, o'))
  BY <1>2, <1>3
<1>5. ASSUME o' # o, Changes(o, o') PROVE Promise!Next
  BY <1>5 DEF Changes, Promise!Next, Promise!SignIn, Promise!Take, Promise!Release,
              Promise!Rename, Promise!Remove
<1>6. QED
  BY <1>4, <1>5

\* Every behaviour of the table is one of Ownership's.
THEOREM OwnershipTheorem == Spec => OwnershipKept
<1>1. Init => Promise!Init
  <2> SUFFICES ASSUME Init PROVE Promise!Init
    OBVIOUS
  <2>1. ASSUME NEW a PROVE OwnerIn(rows, a) = Nobody
    BY OwnerNone DEF Init
  <2>2. Owners(rows) = [a \in Addr |-> Nobody]
    BY <2>1 DEF Owners
  <2>3. QED
    BY <2>2, OwnersAre DEF Promise!Init
<1>2. IInv /\ IInv' /\ [Next]_vars => [Promise!Next]_([a \in Addr |-> OwnerOf(a)])
  BY PromiseStep
<1>3. QED
  BY <1>1, <1>2, MailboxesInvariant, PTL DEF Spec, OwnershipKept, Promise!Spec
=============================================================================
