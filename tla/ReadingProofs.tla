---------------------------- MODULE ReadingProofs ----------------------------
(***************************************************************************)
(* Proofs about Reading, for every set of folders, messages and tabs.      *)
(***************************************************************************)
EXTENDS Reading, FiniteSetTheorems, WellFoundedInduction, TLAPS

\* As much of the type as the proof needs.
Shaped ==
    /\ box = [f \in Folders |-> box[f]]
    /\ job = [t \in Tabs |-> job[t]]
    /\ \A t \in Tabs : "at" \in DOMAIN job[t]

\* A move is done in three commands only where the server has no MOVE.
InThree ==
    /\ cap \in {"MOVE", "UIDPLUS", "neither"}
    /\ cap = "MOVE" => \A t \in Tabs : job[t].at \notin {"copied", "marked"}

LEMMA JoinedAt ==
    ASSUME NEW f, NEW g
    PROVE  DOMAIN Grown(f, g) = DOMAIN f \union DOMAIN g
  BY DEF Grown

LEMMA ExpungedAt ==
    ASSUME Shaped, NEW f, NEW S
    PROVE  LET e == Expunged(box, f, S)
           IN  /\ e = [h \in Folders |-> e[h]]
               /\ \A h \in Folders : h # f => e[h] = box[h]
               /\ \A h \in Folders : Present(h) \ S \subseteq DOMAIN e[h]
<1> DEFINE e == Expunged(box, f, S)
           r == Restrict(box[f], DOMAIN box[f] \ S)
<1>1. e = [h \in Folders |-> IF h = f THEN r ELSE box[h]]
  BY Zenon DEF Expunged, Shaped
<1>2. DOMAIN r = DOMAIN box[f] \ S
  BY DEF Restrict
<1> HIDE DEF e, r
<1>3. QED
  BY <1>1, <1>2 DEF Present, e

LEMMA DeliveredAt ==
    ASSUME NEW b, b = [h \in Folders |-> b[h]], NEW d, NEW c
    PROVE  LET e == [b EXCEPT ![d] = Grown(@, c)]
           IN  /\ e = [h \in Folders |-> e[h]]
               /\ \A h \in Folders : DOMAIN b[h] \subseteq DOMAIN e[h]
<1> DEFINE e == [b EXCEPT ![d] = Grown(@, c)]
           n == Grown(b[d], c)
<1>1. e = [h \in Folders |-> IF h = d THEN n ELSE b[h]]
  BY Zenon
<1>2. DOMAIN b[d] \subseteq DOMAIN n
  BY JoinedAt
<1> HIDE DEF e, n
<1>3. QED
  BY <1>1, <1>2 DEF e

LEMMA ShapedStep == Shaped /\ [Next]_vars => Shaped'
<1> SUFFICES ASSUME Shaped, [Next]_vars PROVE Shaped'
  OBVIOUS
<1> USE DEF Shaped, Idle, Server, Past, Goes, Now, Done, Answered, Asks, At
<1>1. ASSUME NEW t \in Tabs, Redraw(t) PROVE Shaped'
  BY <1>1 DEF Redraw
<1>2. ASSUME NEW t \in Tabs, Look(t) PROVE Shaped'
  <2>1. CASE view.open = 0
    BY <2>1, <1>2 DEF Look
  <2>2. CASE view.open # 0
    BY <2>2, <1>2 DEF Look
  <2>3. QED
    BY <2>1, <2>2
<1>3. ASSUME NEW t \in Tabs, Fetch(t) PROVE Shaped'
  BY <1>3 DEF Fetch
<1>4. ASSUME NEW t \in Tabs, Forget(t) PROVE Shaped'
  BY <1>4 DEF Forget
<1>5. ASSUME NEW t \in Tabs, ReaderStep(t) PROVE Shaped'
  BY <1>5 DEF ReaderStep
<1>6. ASSUME NEW t \in Tabs, Stepped(t) PROVE Shaped'
  BY <1>6 DEF Stepped
<1>7. ASSUME NEW t \in Tabs, ReaderClose(t) PROVE Shaped'
  BY <1>7 DEF ReaderClose
<1>8. ASSUME NEW t \in Tabs, TurnList(t) PROVE Shaped'
  BY <1>8 DEF TurnList
<1>9. ASSUME NEW t \in Tabs, SelectAll(t) PROVE Shaped'
  BY <1>9 DEF SelectAll
<1>10. ASSUME NEW t \in Tabs, Ticked(t) PROVE Shaped'
  BY <1>10 DEF Ticked
<1>11. ASSUME NEW t \in Tabs, DeleteInTrash(t) PROVE Shaped'
  BY <1>11 DEF DeleteInTrash
<1>12. ASSUME NEW t \in Tabs, Move(t) PROVE Shaped'
  <2> DEFINE S == Here(job[t])
             gone == Expunged(box, job[t].folder, S)
  <2>1. /\ gone = [h \in Folders |-> gone[h]]
        /\ \A h \in Folders : h # job[t].folder => gone[h] = box[h]
        /\ \A h \in Folders : Present(h) \ S \subseteq DOMAIN gone[h]
    BY ExpungedAt
  <2>2. PICK d, c : box' = [gone EXCEPT ![d] = Grown(@, c)]
    BY <1>12 DEF Move
  <2> HIDE DEF gone
  <2>3. /\ box' = [h \in Folders |-> box'[h]]
        /\ \A h \in Folders : DOMAIN gone[h] \subseteq DOMAIN box'[h]
    BY <2>1, <2>2, DeliveredAt
  <2>4. QED
    BY <2>3, <1>12 DEF Move
<1>13. ASSUME NEW t \in Tabs, Copy(t) PROVE Shaped'
  <2>1. box' = [box EXCEPT ![job[t].dest] = Grown(@, Copied(job[t]))]
    BY <1>13 DEF Copy, Deliver
  <2>2. box' = [h \in Folders |-> box'[h]]
    BY <2>1, DeliveredAt
  <2>3. QED
    BY <2>2, <1>13 DEF Copy
<1>14. ASSUME NEW t \in Tabs, Mark(t) PROVE Shaped'
  BY <1>14 DEF Mark
<1>15. ASSUME NEW t \in Tabs, Expunge(t) PROVE Shaped'
  <2>1. box' = Expunged(box, job[t].folder, ToExpunge(job[t]))
    BY <1>15 DEF Expunge
  <2>2. box' = [h \in Folders |-> box'[h]]
    BY <2>1, ExpungedAt
  <2>3. QED
    BY <2>2, <1>15 DEF Expunge
<1>16. ASSUME NEW t \in Tabs, Settle(t) PROVE Shaped'
  BY <1>16 DEF Settle
<1>17. ASSUME NEW t \in Tabs, Fail(t) PROVE Shaped'
  BY <1>17 DEF Fail
<1>18. ASSUME NEW t \in Tabs, Presses(t) PROVE Shaped'
  BY <1>18 DEF Presses, Press
<1>19. ASSUME NEW t \in Tabs, NEW u \in Named, OpenMessage(t, u) PROVE Shaped'
  BY <1>19 DEF OpenMessage
<1>20. ASSUME NEW t \in Tabs, NEW u \in Named, Select(t, u) PROVE Shaped'
  BY <1>20 DEF Select
<1>21. ASSUME NEW t \in Tabs, NEW f \in Folders, OpenFolder(t, f) PROVE Shaped'
  BY <1>21 DEF OpenFolder
<1>22. CASE SignOut
  BY <1>22 DEF SignOut
<1>23. ASSUME NEW f \in Folders, OthersExpunge(f) PROVE Shaped'
  <2>1. PICK S : box' = Expunged(box, f, S)
    BY <1>23 DEF OthersExpunge
  <2>2. box' = [h \in Folders |-> box'[h]]
    BY <2>1, ExpungedAt
  <2>3. QED
    BY <2>2, <1>23 DEF OthersExpunge
<1>24. ASSUME NEW f \in Folders, NEW u \in Present(f), OthersMark(f, u) PROVE
    Shaped'
  BY <1>24 DEF OthersMark, Mishap
<1>25. ASSUME NEW f \in Folders, NEW u \in Present(f), NEW g \in Folders,
    OthersMove(f, u, g) PROVE Shaped'
  <2> DEFINE gone == Expunged(box, f, {u})
  <2>1. gone = [h \in Folders |-> gone[h]]
    BY ExpungedAt
  <2>2. PICK c : box' = [gone EXCEPT ![g] = Grown(@, c)]
    BY <1>25 DEF OthersMove
  <2> HIDE DEF gone
  <2>3. box' = [h \in Folders |-> box'[h]]
    BY <2>1, <2>2, DeliveredAt
  <2>4. QED
    BY <2>3, <1>25 DEF OthersMove
<1>26. CASE UNCHANGED vars
  BY <1>26 DEF vars
<1>27. QED
  BY <1>1, <1>2, <1>3, <1>4, <1>5, <1>6, <1>7, <1>8, <1>9, <1>10, <1>11, <1>12,
      <1>13, <1>14, <1>15, <1>16, <1>17, <1>18, <1>19, <1>20, <1>21, <1>22, <1>23,
      <1>24, <1>25, <1>26 DEF Next, Request, Others

LEMMA InThreeStep == Shaped /\ InThree /\ [Next]_vars => InThree'
<1> SUFFICES ASSUME Shaped /\ InThree, [Next]_vars PROVE InThree'
  OBVIOUS
<1> USE DEF Shaped, InThree, Idle, Server, Past, Goes, Now, Done, Answered, Asks,
    At
<1>1. ASSUME NEW t \in Tabs, Redraw(t) PROVE InThree'
  BY <1>1 DEF Redraw
<1>2. ASSUME NEW t \in Tabs, Look(t) PROVE InThree'
  <2>1. CASE view.open = 0
    BY <2>1, <1>2 DEF Look
  <2>2. CASE view.open # 0
    BY <2>2, <1>2 DEF Look
  <2>3. QED
    BY <2>1, <2>2
<1>3. ASSUME NEW t \in Tabs, Fetch(t) PROVE InThree'
  BY <1>3 DEF Fetch
<1>4. ASSUME NEW t \in Tabs, Forget(t) PROVE InThree'
  BY <1>4 DEF Forget
<1>5. ASSUME NEW t \in Tabs, ReaderStep(t) PROVE InThree'
  BY <1>5 DEF ReaderStep
<1>6. ASSUME NEW t \in Tabs, Stepped(t) PROVE InThree'
  BY <1>6 DEF Stepped
<1>7. ASSUME NEW t \in Tabs, ReaderClose(t) PROVE InThree'
  BY <1>7 DEF ReaderClose
<1>8. ASSUME NEW t \in Tabs, TurnList(t) PROVE InThree'
  BY <1>8 DEF TurnList
<1>9. ASSUME NEW t \in Tabs, SelectAll(t) PROVE InThree'
  BY <1>9 DEF SelectAll
<1>10. ASSUME NEW t \in Tabs, Ticked(t) PROVE InThree'
  BY <1>10 DEF Ticked
<1>11. ASSUME NEW t \in Tabs, DeleteInTrash(t) PROVE InThree'
  BY <1>11 DEF DeleteInTrash
<1>12. ASSUME NEW t \in Tabs, Move(t) PROVE InThree'
  BY <1>12 DEF Move, Expunged
<1>13. ASSUME NEW t \in Tabs, Copy(t) PROVE InThree'
  BY <1>13 DEF Copy, Deliver
<1>14. ASSUME NEW t \in Tabs, Mark(t) PROVE InThree'
  BY <1>14 DEF Mark
<1>15. ASSUME NEW t \in Tabs, Expunge(t) PROVE InThree'
  BY <1>15 DEF Expunge, Expunged, ToExpunge, AllMarked
<1>16. ASSUME NEW t \in Tabs, Settle(t) PROVE InThree'
  BY <1>16 DEF Settle
<1>17. ASSUME NEW t \in Tabs, Fail(t) PROVE InThree'
  BY <1>17 DEF Fail
<1>18. ASSUME NEW t \in Tabs, Presses(t) PROVE InThree'
  BY <1>18 DEF Presses, Press
<1>19. ASSUME NEW t \in Tabs, NEW u \in Named, OpenMessage(t, u) PROVE InThree'
  BY <1>19 DEF OpenMessage
<1>20. ASSUME NEW t \in Tabs, NEW u \in Named, Select(t, u) PROVE InThree'
  BY <1>20 DEF Select
<1>21. ASSUME NEW t \in Tabs, NEW f \in Folders, OpenFolder(t, f) PROVE InThree'
  BY <1>21 DEF OpenFolder
<1>22. CASE SignOut
  BY <1>22 DEF SignOut
<1>23. ASSUME NEW f \in Folders, OthersExpunge(f) PROVE InThree'
  BY <1>23 DEF OthersExpunge, Mishap
<1>24. ASSUME NEW f \in Folders, NEW u \in Present(f), OthersMark(f, u) PROVE
    InThree'
  BY <1>24 DEF OthersMark, Mishap
<1>25. ASSUME NEW f \in Folders, NEW u \in Present(f), NEW g \in Folders,
    OthersMove(f, u, g) PROVE InThree'
  BY <1>25 DEF OthersMove, Mishap
<1>26. CASE UNCHANGED vars
  BY <1>26 DEF vars
<1>27. QED
  BY <1>1, <1>2, <1>3, <1>4, <1>5, <1>6, <1>7, <1>8, <1>9, <1>10, <1>11, <1>12,
      <1>13, <1>14, <1>15, <1>16, <1>17, <1>18, <1>19, <1>20, <1>21, <1>22, <1>23,
      <1>24, <1>25, <1>26 DEF Next, Request, Others

LEMMA OwnStep == Shaped /\ InThree /\ [Next]_vars => OwnOnly
<1> SUFFICES ASSUME Shaped /\ InThree, [Next]_vars PROVE OwnOnly
  OBVIOUS
<1> USE DEF Shaped, OwnOnly, Present, Server, Past, Goes, Now, Done, Answered,
    Asks, At
<1>1. ASSUME NEW t \in Tabs, Redraw(t) PROVE OwnOnly
  BY <1>1 DEF Redraw
<1>2. ASSUME NEW t \in Tabs, Look(t) PROVE OwnOnly
  BY <1>2 DEF Look
<1>3. ASSUME NEW t \in Tabs, Fetch(t) PROVE OwnOnly
  BY <1>3 DEF Fetch
<1>4. ASSUME NEW t \in Tabs, Forget(t) PROVE OwnOnly
  BY <1>4 DEF Forget
<1>5. ASSUME NEW t \in Tabs, ReaderStep(t) PROVE OwnOnly
  BY <1>5 DEF ReaderStep
<1>6. ASSUME NEW t \in Tabs, Stepped(t) PROVE OwnOnly
  BY <1>6 DEF Stepped
<1>7. ASSUME NEW t \in Tabs, ReaderClose(t) PROVE OwnOnly
  BY <1>7 DEF ReaderClose
<1>8. ASSUME NEW t \in Tabs, TurnList(t) PROVE OwnOnly
  BY <1>8 DEF TurnList
<1>9. ASSUME NEW t \in Tabs, SelectAll(t) PROVE OwnOnly
  BY <1>9 DEF SelectAll
<1>10. ASSUME NEW t \in Tabs, Ticked(t) PROVE OwnOnly
  BY <1>10 DEF Ticked
<1>11. ASSUME NEW t \in Tabs, DeleteInTrash(t) PROVE OwnOnly
  BY <1>11 DEF DeleteInTrash
<1>12. ASSUME NEW t \in Tabs, Move(t) PROVE OwnOnly
  <2> DEFINE S == Here(job[t])
             gone == Expunged(box, job[t].folder, S)
  <2>1. /\ gone = [h \in Folders |-> gone[h]]
        /\ \A h \in Folders : h # job[t].folder => gone[h] = box[h]
        /\ \A h \in Folders : Present(h) \ S \subseteq DOMAIN gone[h]
    BY ExpungedAt
  <2>2. PICK d, c : box' = [gone EXCEPT ![d] = Grown(@, c)]
    BY <1>12 DEF Move
  <2> HIDE DEF gone
  <2>3. /\ box' = [h \in Folders |-> box'[h]]
        /\ \A h \in Folders : DOMAIN gone[h] \subseteq DOMAIN box'[h]
    BY <2>1, <2>2, DeliveredAt
  <2>4. S \subseteq job[t].uids
    BY DEF Here
  <2>5. \A s \in Tabs : s # t => job'[s] = job[s]
    BY <1>12 DEF Move
  <2> HIDE DEF S
  <2>6. QED
    BY <2>1, <2>3, <2>4, <2>5
<1>13. ASSUME NEW t \in Tabs, Copy(t) PROVE OwnOnly
  <2>1. box' = [box EXCEPT ![job[t].dest] = Grown(@, Copied(job[t]))]
    BY <1>13 DEF Copy, Deliver
  <2>2. \A h \in Folders : Present(h) \subseteq DOMAIN box'[h]
    BY <2>1, DeliveredAt
  <2>3. QED
    BY <2>2
<1>14. ASSUME NEW t \in Tabs, Mark(t) PROVE OwnOnly
  BY <1>14 DEF Mark
<1>15. ASSUME NEW t \in Tabs, Expunge(t) PROVE OwnOnly
  <2>1. box' = Expunged(box, job[t].folder, ToExpunge(job[t]))
    BY <1>15 DEF Expunge
  <2>2. \A s \in Tabs : s # t => job'[s] = job[s]
    BY <1>15 DEF Expunge
  <2> SUFFICES ASSUME NEW s \in Tabs, NEW f \in Folders, job'[s] # job[s],
                      cap # "neither"
               PROVE  \/ Present(f) \subseteq Present(f)'
                      \/ f = job[s].folder /\ Present(f) \ Present(f)' \subseteq job[s].uids
    BY DEF OwnOnly
  <2>3. s = t
    BY <2>2
  <2>4. cap' = cap
    BY <1>15 DEF Expunge
  <2>5. CASE f # job[t].folder
    BY <2>1, <2>5, ExpungedAt
  <2>6. CASE f = job[t].folder /\ cap = "UIDPLUS"
    <3>1. ToExpunge(job[t]) \subseteq job[t].uids
      BY <2>6 DEF ToExpunge
    <3>2. Present(f) \ ToExpunge(job[t]) \subseteq Present(f)'
      BY <2>1, ExpungedAt
    <3>3. QED
      BY <2>3, <2>6, <3>1, <3>2
  <2>7. CASE cap = "MOVE"
    BY <2>7, <1>15 DEF Expunge, InThree
  <2>8. QED
    BY <2>5, <2>6, <2>7 DEF InThree
<1>16. ASSUME NEW t \in Tabs, Settle(t) PROVE OwnOnly
  BY <1>16 DEF Settle
<1>17. ASSUME NEW t \in Tabs, Fail(t) PROVE OwnOnly
  BY <1>17 DEF Fail
<1>18. ASSUME NEW t \in Tabs, Presses(t) PROVE OwnOnly
  BY <1>18 DEF Presses, Press
<1>19. ASSUME NEW t \in Tabs, NEW u \in Named, OpenMessage(t, u) PROVE OwnOnly
  BY <1>19 DEF OpenMessage
<1>20. ASSUME NEW t \in Tabs, NEW u \in Named, Select(t, u) PROVE OwnOnly
  BY <1>20 DEF Select
<1>21. ASSUME NEW t \in Tabs, NEW f \in Folders, OpenFolder(t, f) PROVE OwnOnly
  BY <1>21 DEF OpenFolder
<1>22. CASE SignOut
  BY <1>22 DEF SignOut
<1>23. ASSUME NEW f \in Folders, OthersExpunge(f) PROVE OwnOnly
  BY <1>23 DEF OthersExpunge, Mishap
<1>24. ASSUME NEW f \in Folders, NEW u \in Present(f), OthersMark(f, u) PROVE
    OwnOnly
  BY <1>24 DEF OthersMark, Mishap
<1>25. ASSUME NEW f \in Folders, NEW u \in Present(f), NEW g \in Folders,
    OthersMove(f, u, g) PROVE OwnOnly
  BY <1>25 DEF OthersMove, Mishap
<1>26. CASE UNCHANGED vars
  BY <1>26 DEF vars
<1>27. QED
  BY <1>1, <1>2, <1>3, <1>4, <1>5, <1>6, <1>7, <1>8, <1>9, <1>10, <1>11, <1>12,
      <1>13, <1>14, <1>15, <1>16, <1>17, <1>18, <1>19, <1>20, <1>21, <1>22, <1>23,
      <1>24, <1>25, <1>26 DEF Next, Request, Others

IInv == Shaped /\ InThree

LEMMA InitIInv == Init => IInv
  BY DEF Init, IInv, Shaped, InThree, Idle

LEMMA IInvStep == IInv /\ [Next]_vars => IInv'
  BY ShapedStep, InThreeStep DEF IInv

\* The invariant holds in every state of every behaviour.
THEOREM ReadingInvariant == Spec => []IInv
  BY InitIInv, IInvStep, PTL DEF Spec

-----------------------------------------------------------------------------

\* With MOVE or UIDPLUS, what a request takes out of a folder is what it was
\* pressed for: other clients' marked messages stand (MoveMessages).
THEOREM OthersTheorem == Spec => OthersStand
<1>1. IInv /\ [Next]_vars => [OwnOnly]_vars
  BY OwnStep DEF IInv
<1> QED
  BY <1>1, ReadingInvariant, PTL DEF Spec, OthersStand

-----------------------------------------------------------------------------
(* Numbers: places in an order, and the least and greatest.                *)

\* A set of naturals has a least member,
LEMMA LeastOfNaturals ==
    ASSUME NEW T, T \subseteq Nat, T # {}
    PROVE  \E x \in T : \A y \in T : x <= y
<1>1. PICK x \in T : \A y \in T : ~ (<<y, x>> \in OpToRel(<, Nat))
  BY WFMin, NatLessThanWellFounded, Zenon
<1>2. \A y \in T : x <= y
  <2> TAKE y \in T
  <2>1. x \in Nat /\ y \in Nat
    OBVIOUS
  <2>2. ~ (y < x)
    BY <1>1, <2>1 DEF OpToRel
  <2>3. QED
    BY <2>1, <2>2
<1>3. QED
  BY <1>2

\* and one below a bound a greatest.
LEMMA GreatestUpTo ==
    ASSUME NEW n \in Nat, NEW T, T \subseteq 1 .. n, T # {}
    PROVE  \E x \in T : \A y \in T : y <= x
<1> DEFINE U == {k \in Nat : n - k \in T}
<1>1. U # {}
  <2>1. PICK t \in T : TRUE
    OBVIOUS
  <2>2. n - t \in Nat /\ n - (n - t) = t
    BY <2>1
  <2>3. QED
    BY <2>1, <2>2
<1>2. PICK k \in U : \A j \in U : k <= j
  BY <1>1, LeastOfNaturals
<1>3. ASSUME NEW y \in T PROVE y <= n - k
  <2>1. y \in Nat /\ n - y \in Nat /\ n - (n - y) = y
    OBVIOUS
  <2>2. k <= n - y
    BY <2>1, <1>2
  <2>3. QED
    BY <2>1, <2>2
<1>4. QED
  BY <1>2, <1>3

\* As many of a set's numbers come before one as its place in it says, so every
\* place has its number.
LEMMA PlacesTaken ==
    ASSUME NEW S \in SUBSET Nat, IsFiniteSet(S)
    PROVE  /\ Cardinality(S) \in Nat
           /\ \A u \in S : Earlier(S, u) \in 0 .. (Cardinality(S) - 1)
           /\ \A u, v \in S : Earlier(S, u) = Earlier(S, v) => u = v
           /\ \A k \in 0 .. (Cardinality(S) - 1) : \E u \in S : Earlier(S, u) = k
<1> DEFINE B(u) == {w \in S : w < u}
           n == Cardinality(S)
           r == [u \in S |-> Earlier(S, u)]
<1>1. n \in Nat
  BY FS_CardinalityType
<1>2. \A u \in S : B(u) \in SUBSET (S \ {u})
  OBVIOUS
<1>3. \A u \in S : IsFiniteSet(S \ {u}) /\ Cardinality(S \ {u}) = n - 1
  BY FS_RemoveElement
<1>4. \A u \in S : IsFiniteSet(B(u)) /\ Cardinality(B(u)) <= n - 1
  <2> SUFFICES ASSUME NEW u \in S PROVE IsFiniteSet(B(u)) /\ Cardinality(B(u)) <= n - 1
    OBVIOUS
  <2>1. B(u) \in SUBSET (S \ {u}) /\ IsFiniteSet(S \ {u}) /\ Cardinality(S \ {u}) = n - 1
    BY <1>2, <1>3
  <2> HIDE DEF B, n
  <2>2. IsFiniteSet(B(u)) /\ Cardinality(B(u)) <= Cardinality(S \ {u})
    BY <2>1, FS_Subset
  <2>3. QED
    BY <2>1, <2>2
<1>5. \A u \in S : Cardinality(B(u)) \in Nat
  BY <1>4, FS_CardinalityType
<1>6. \A u \in S : Earlier(S, u) = Cardinality(B(u))
  BY DEF Earlier
<1>7. \A u \in S : Earlier(S, u) \in 0 .. (n - 1)
  <2> HIDE DEF B, n
  <2>1. QED
    BY <1>1, <1>4, <1>5, <1>6
<1>8. ASSUME NEW u \in S, NEW v \in S, u < v PROVE Earlier(S, u) < Earlier(S, v)
  <2>0. \A w \in S : w < u => w < v /\ w # u
    BY <1>8
  <2>1. B(u) \cup {u} \in SUBSET B(v) /\ u \notin B(u)
    BY <1>8, <2>0
  <2> HIDE DEF B
  <2>2. IsFiniteSet(B(u) \cup {u}) /\ Cardinality(B(u) \cup {u}) = Cardinality(B(u)) + 1
    BY <1>4, <2>1, FS_AddElement
  <2>3. Cardinality(B(u) \cup {u}) <= Cardinality(B(v))
    BY <1>4, <2>1, FS_Subset
  <2>4. QED
    BY <1>5, <1>6, <2>2, <2>3
<1>9. \A u, v \in S : Earlier(S, u) = Earlier(S, v) => u = v
  <2> SUFFICES ASSUME NEW u \in S, NEW v \in S, u # v PROVE Earlier(S, u) # Earlier(S, v)
    OBVIOUS
  <2>1. u < v \/ v < u
    OBVIOUS
  <2>2. Earlier(S, u) \in Nat /\ Earlier(S, v) \in Nat
    BY <1>5, <1>6
  <2>3. QED
    BY <1>8, <2>1, <2>2
<1>10. r \in Injection(S, 0 .. (n - 1))
  <2> HIDE DEF B, n
  <2>1. r \in [S -> 0 .. (n - 1)]
    BY <1>7
  <2>2. IsInjective(r)
    BY <1>9 DEF IsInjective
  <2>3. QED
    BY <2>1, <2>2 DEF Injection
<1>11. IsFiniteSet(0 .. (n - 1)) /\ Cardinality(0 .. (n - 1)) = n
  <2> HIDE DEF n
  <2>1. 0 \in Int /\ n - 1 \in Int
    BY <1>1
  <2>2. IsFiniteSet(0 .. (n - 1)) /\ Cardinality(0 .. (n - 1)) = IF 0 > n - 1 THEN 0 ELSE n - 1 - 0 + 1
    BY <2>1, FS_Interval
  <2>3. QED
    BY <1>1, <2>2
<1>12. r \in Surjection(S, 0 .. (n - 1))
  BY <1>10, <1>11, FS_Injection
<1>13. \A k \in 0 .. (n - 1) : \E u \in S : Earlier(S, u) = k
  BY <1>12 DEF Surjection
<1>14. QED
  BY <1>1, <1>7, <1>9, <1>13

BoxOK(b) ==
    /\ b = [f \in Folders |-> b[f]]
    /\ \A f \in Folders :
         /\ DOMAIN b[f] \subseteq Uid
         /\ \A u \in DOMAIN b[f] : b[f][u] \in Messages

LEMMA FolderFinite ==
    ASSUME NEW S \in SUBSET Uid
    PROVE  IsFiniteSet(S) /\ S \in SUBSET Nat /\ Cardinality(S) \in Nat
<1>1. S \in SUBSET Nat /\ \A s \in S : s <= MaxUid
  BY ReadingAssumption DEF Uid
<1>2. IsFiniteSet(S)
  BY <1>1, FS_BoundedSetOfNaturals, ReadingAssumption
<1>3. QED
  BY <1>1, <1>2, FS_CardinalityType

\* A folder after an EXPUNGE,
LEMMA ExpungedIs ==
    ASSUME NEW b, BoxOK(b), NEW f \in Folders, NEW S, NEW e, e = Expunged(b, f, S)
    PROVE  /\ BoxOK(e)
           /\ \A h \in Folders : h # f => e[h] = b[h]
           /\ DOMAIN e[f] = DOMAIN b[f] \ S
           /\ \A u \in DOMAIN e[f] : e[f][u] = b[f][u]
<1> DEFINE r == Restrict(b[f], DOMAIN b[f] \ S)
<1>1. e = [h \in Folders |-> IF h = f THEN r ELSE b[h]]
  BY Zenon DEF Expunged, BoxOK
<1>2. DOMAIN r = DOMAIN b[f] \ S /\ \A u \in DOMAIN r : r[u] = b[f][u]
  BY DEF Restrict
<1> HIDE DEF r
<1>3. e = [h \in Folders |-> e[h]] /\ e[f] = r /\ \A h \in Folders : h # f => e[h] = b[h]
  BY <1>1
<1>4. QED
  BY <1>2, <1>3 DEF BoxOK

\* and after messages have arrived.
Fits(c) == DOMAIN c \subseteq Uid /\ \A v \in DOMAIN c : c[v] \in Messages
Joined(b, d, c, e) ==
    /\ \A h \in Folders : h # d => e[h] = b[h]
    /\ DOMAIN e[d] = DOMAIN b[d] \union DOMAIN c
    /\ \A u \in DOMAIN b[d] : e[d][u] = b[d][u]
    /\ \A u \in DOMAIN c \ DOMAIN b[d] : e[d][u] = c[u]
LEMMA GrownIs ==
    ASSUME NEW b, BoxOK(b), NEW d \in Folders, NEW c, Fits(c),
           NEW e, e = [b EXCEPT ![d] = Grown(@, c)]
    PROVE  BoxOK(e) /\ Joined(b, d, c, e)
<1> DEFINE g == Grown(b[d], c)
<1>1. e = [h \in Folders |-> IF h = d THEN g ELSE b[h]]
  BY Zenon DEF BoxOK
<1>2. /\ DOMAIN g = DOMAIN b[d] \union DOMAIN c
      /\ \A u \in DOMAIN b[d] : g[u] = b[d][u]
      /\ \A u \in DOMAIN c \ DOMAIN b[d] : g[u] = c[u]
  BY DEF Grown
<1> HIDE DEF g
<1>3. e = [h \in Folders |-> e[h]] /\ e[d] = g /\ \A h \in Folders : h # d => e[h] = b[h]
  BY <1>1
<1>4. \A u \in DOMAIN g : u \in Uid /\ g[u] \in Messages
  BY <1>2 DEF BoxOK, Fits
<1>5. QED
  BY <1>2, <1>3, <1>4 DEF BoxOK, Joined

\* What a COPY or MOVE brings: the messages asked for that are there, each at
\* one of the destination's next UIDs.
LEMMA CopiedIs ==
    ASSUME BoxOK(box), next \in [Folders -> 1 .. (MaxUid + 1)],
           NEW j, j.folder \in Folders, j.dest \in Folders, Room(j),
           NEW n, n = Cardinality(Here(j))
    PROVE  /\ n \in Nat /\ next[j.dest] + n \in 1 .. (MaxUid + 1)
           /\ DOMAIN Copied(j) = next[j.dest] .. (next[j.dest] + n - 1)
           /\ DOMAIN Copied(j) \subseteq Uid
           /\ \A v \in DOMAIN Copied(j) : Copied(j)[v] \in Messages
           /\ \A u \in Here(j) : \E v \in DOMAIN Copied(j) : Copied(j)[v] = box[j.folder][u]
<1> DEFINE S == Here(j)
           first == next[j.dest]
           Place(v) == CHOOSE u \in S : first + Earlier(S, u) = v
<1>1. S \in SUBSET Uid /\ \A u \in S : box[j.folder][u] \in Messages
  BY DEF Here, Present, BoxOK
<1>2. IsFiniteSet(S) /\ S \in SUBSET Nat /\ n \in Nat
  BY <1>1, FolderFinite
<1>3. first \in Nat /\ first >= 1 /\ MaxUid \in Nat
  BY ReadingAssumption
<1>4. first + n <= MaxUid + 1
  BY DEF Room
<1>5. Copied(j) = [v \in first .. (first + n - 1) |-> box[j.folder][Place(v)]]
  BY DEF Copied
<1>6. /\ \A u \in S : Earlier(S, u) \in 0 .. (n - 1)
      /\ \A u, v \in S : Earlier(S, u) = Earlier(S, v) => u = v
      /\ \A k \in 0 .. (n - 1) : \E u \in S : Earlier(S, u) = k
  BY <1>2, PlacesTaken
<1> HIDE DEF S, first
<1>7. ASSUME NEW v \in first .. (first + n - 1) PROVE Place(v) \in S
  <2>1. v - first \in 0 .. (n - 1)
    BY <1>2, <1>3
  <2>2. PICK u \in S : Earlier(S, u) = v - first
    BY <1>6, <2>1
  <2>3. first + Earlier(S, u) = v
    BY <1>3, <2>2
  <2>4. QED
    BY <2>3
<1>8. ASSUME NEW u \in S
      PROVE  /\ first + Earlier(S, u) \in first .. (first + n - 1)
             /\ Place(first + Earlier(S, u)) = u
  <2>1. first + Earlier(S, u) \in first .. (first + n - 1)
    BY <1>2, <1>3, <1>6
  <2>2. \A w \in S : first + Earlier(S, w) = first + Earlier(S, u) => w = u
    <3> SUFFICES ASSUME NEW w \in S, first + Earlier(S, w) = first + Earlier(S, u) PROVE w = u
      OBVIOUS
    <3>1. Earlier(S, w) \in Nat /\ Earlier(S, u) \in Nat
      BY <1>2, <1>6
    <3>2. Earlier(S, w) = Earlier(S, u)
      BY <1>3, <3>1
    <3>3. QED
      BY <1>6, <3>2
  <2>3. QED
    BY <2>1, <2>2
<1> HIDE DEF Place
<1>9. first .. (first + n - 1) \subseteq Uid
  BY <1>2, <1>3, <1>4 DEF Uid
<1>10. \A v \in DOMAIN Copied(j) : Copied(j)[v] \in Messages
  BY <1>1, <1>5, <1>7 DEF S
<1>11. \A u \in S : \E v \in DOMAIN Copied(j) : Copied(j)[v] = box[j.folder][u]
  BY <1>5, <1>8
<1>12. first + n \in 1 .. (MaxUid + 1)
  BY <1>2, <1>3, <1>4
<1>13. DOMAIN Copied(j) = first .. (first + n - 1)
  BY <1>5
<1>14. QED
  BY <1>2, <1>9, <1>10, <1>11, <1>12, <1>13 DEF S, first

-----------------------------------------------------------------------------
(* Filing: the invariant behind NothingLost.                                *)

\* UIDs are given in order, and a UID is marked only when there is one.
Numbered ==
    \A f \in Folders :
       /\ \A u \in Present(f) : u < next[f]
       /\ \A u : <<f, u>> \in marked => u < next[f]

\* What a move has copied, and is about to mark, was there to be copied.
HandedOut ==
    ~ astray => \A t \in Tabs : job[t].at = "copied" => \A u \in job[t].uids : u < next[job[t].folder]

\* A message that nobody deleted for good is somewhere unmarked where no move
\* is about to mark it.
SafeAt(m, f, u) ==
    /\ u \in Present(f) /\ box[f][u] = m /\ <<f, u>> \notin marked
    /\ \A t \in Tabs : job[t].at = "copied" /\ job[t].folder = f => u \notin job[t].uids
AllSafe ==
    ~ astray => \A m \in Messages \ condemned : \E f \in Folders, u \in Uid : SafeAt(m, f, u)

-----------------------------------------------------------------------------
(* What each step does to the folders, and the types.                      *)

\* The types, the position's apart.
Typed ==
    /\ BoxOK(box)
    /\ next \in [Folders -> 1 .. (MaxUid + 1)]
    /\ marked \subseteq Folders \X Uid
    /\ cap \in {"MOVE", "UIDPLUS", "neither"}
    /\ job \in [Tabs -> Job]
    /\ condemned \subseteq Messages
    /\ mishaps \in 0 .. MaxMishaps
    /\ trouble \in BOOLEAN /\ astray \in BOOLEAN
ViewOK(v) == v \in View /\ Cardinality(v.ticked) <= MaxSelected

LEMMA NoneTicked == Cardinality({}) = 0 /\ {} \in SUBSET Uid
  BY FS_EmptySet

LEMMA NewViewOK == ViewOK(NewView)
<1>1. NewView \in View
  BY ReadingAssumption, NoneTicked DEF NewView, View
<1>2. NewView.ticked = {}
  BY DEF NewView
<1>3. QED
  BY <1>1, <1>2, NoneTicked, ReadingAssumption DEF ViewOK

LEMMA ViewParts ==
    ASSUME NEW v, ViewOK(v)
    PROVE  /\ v.folder \in Folders /\ v.open \in Uid \union {0} /\ v.ticked \in SUBSET Uid
           /\ Cardinality(v.ticked) \in Nat
  BY FolderFinite DEF ViewOK, View

LEMMA OpenedOK ==
    ASSUME NEW v, ViewOK(v), NEW u \in Uid \union {0}, NEW w, w = [v EXCEPT !.open = u]
    PROVE  ViewOK(w) /\ w.folder = v.folder /\ w.open = u /\ w.ticked = v.ticked
<1>1. w \in View
  BY DEF ViewOK, View
<1>2. w.folder = v.folder /\ w.open = u /\ w.ticked = v.ticked
  BY DEF ViewOK, View
<1>3. QED
  BY <1>1, <1>2 DEF ViewOK

LEMMA TickedOK ==
    ASSUME NEW v, ViewOK(v), NEW S \in SUBSET Uid, Cardinality(S) <= MaxSelected,
           NEW w, w = [v EXCEPT !.ticked = S]
    PROVE  ViewOK(w) /\ w.folder = v.folder /\ w.open = v.open /\ w.ticked = S
<1>1. w \in View
  BY DEF ViewOK, View
<1>2. w.folder = v.folder /\ w.open = v.open /\ w.ticked = S
  BY DEF ViewOK, View
<1>3. QED
  BY <1>1, <1>2 DEF ViewOK

LEMMA FolderOK ==
    ASSUME NEW v, ViewOK(v), NEW f \in Folders, NEW w, w = setFolder(v, f)
    PROVE  ViewOK(w) /\ (w = v \/ (w.folder = f /\ w.open = 0 /\ w.ticked = {}))
<1>1. CASE f = v.folder
  <2>1. w = v
    BY <1>1 DEF setFolder
  <2>2. ViewOK(w)
    BY <2>1
  <2>3. QED
    BY <2>1, <2>2
<1>2. CASE f # v.folder
  <2>1. w = [NewView EXCEPT !.folder = f]
    BY <1>2 DEF setFolder
  <2>2. w \in View
    BY <2>1, NewViewOK DEF ViewOK, View
  <2>3. w.folder = f /\ w.open = 0 /\ w.ticked = {}
    BY <2>1 DEF NewView
  <2>4. QED
    BY <2>2, <2>3, NoneTicked, ReadingAssumption DEF ViewOK
<1>3. QED
  BY <1>1, <1>2

LEMMA SelectedOK ==
    ASSUME NEW v, ViewOK(v), NEW u \in Uid, NEW on, NEW w, w = selectUID(v, u, on)
    PROVE  ViewOK(w) /\ w.folder = v.folder /\ w.open = v.open /\ w.ticked \subseteq v.ticked \union {u}
<1>0. v.ticked \in SUBSET Uid /\ Cardinality(v.ticked) <= MaxSelected /\ MaxSelected \in Nat
  BY ReadingAssumption DEF ViewOK, View
<1>1. CASE ~ on
  <2>1. w = [v EXCEPT !.ticked = v.ticked \ {u}]
    BY <1>1 DEF selectUID
  <2>2. v.ticked \ {u} \in SUBSET v.ticked /\ v.ticked \ {u} \in SUBSET Uid
    BY <1>0
  <2>3. Cardinality(v.ticked \ {u}) <= Cardinality(v.ticked)
    BY <1>0, <2>2, FolderFinite, FS_Subset
  <2>4. Cardinality(v.ticked \ {u}) \in Nat /\ Cardinality(v.ticked) \in Nat
    BY <1>0, <2>2, FolderFinite
  <2>5. Cardinality(v.ticked \ {u}) <= MaxSelected
    BY <1>0, <2>3, <2>4
  <2>6. QED
    BY <2>1, <2>2, <2>5, TickedOK
<1>2. CASE on /\ Cardinality(v.ticked \union {u}) > MaxSelected
  BY <1>2 DEF selectUID
<1>3. CASE on /\ ~ Cardinality(v.ticked \union {u}) > MaxSelected
  <2>1. w = [v EXCEPT !.ticked = v.ticked \union {u}]
    BY <1>3 DEF selectUID
  <2>2. v.ticked \union {u} \in SUBSET Uid
    BY <1>0
  <2>3. Cardinality(v.ticked \union {u}) \in Nat
    BY <2>2, FolderFinite
  <2>4. Cardinality(v.ticked \union {u}) <= MaxSelected
    BY <1>0, <1>3, <2>3
  <2>5. QED
    BY <2>1, <2>2, <2>4, TickedOK
<1>4. QED
  BY <1>1, <1>2, <1>3

LEMMA SettledOK ==
    ASSUME NEW v, ViewOK(v), NEW j \in Job, NEW w, w = Settled(v, j)
    PROVE  /\ ViewOK(w) /\ w.folder = v.folder
           /\ w.ticked = IF j.ticks THEN {} ELSE v.ticked
           /\ w.open = IF j.closes /\ v.open # 0 /\ v.open \in j.uids THEN j.then ELSE v.open
<1> DEFINE T == IF j.ticks THEN {} ELSE v.ticked
           o == IF j.closes /\ v.open # 0 /\ v.open \in j.uids THEN j.then ELSE v.open
           x == [v EXCEPT !.ticked = T]
<1>1. T \in SUBSET Uid /\ Cardinality(T) <= MaxSelected
  BY NoneTicked, ReadingAssumption, ViewParts DEF ViewOK
<1>2. j.then \in Uid \union {0}
  BY DEF Job
<1>3. o \in Uid \union {0}
  BY <1>2, ViewParts
<1>4. w = [x EXCEPT !.open = o]
  BY Zenon DEF Settled, ViewOK, View
<1> HIDE DEF T, o
<1>5. ViewOK(x) /\ x.folder = v.folder /\ x.open = v.open /\ x.ticked = T
  BY <1>1, TickedOK
<1> HIDE DEF x
<1>6. ViewOK(w) /\ w.folder = v.folder /\ w.open = o /\ w.ticked = T
  BY <1>3, <1>4, <1>5, OpenedOK
<1>7. QED
  BY <1>6 DEF T, o

\* The row to go on to is one that stays, or none.
LEMMA NextOpen ==
    ASSUME NEW rows \in SUBSET Uid, NEW open, open \in Uid \union {0}, NEW gone
    PROVE  /\ successorAfter(rows, open, gone) \in {0} \union (rows \ gone)
           /\ Above(rows, open) \in {0} \union rows
           /\ Below(rows, open) \in {0} \union rows
<1> MaxUid \in Nat /\ Uid = 1 .. MaxUid
  BY ReadingAssumption DEF Uid
<1>1. ASSUME NEW T \in SUBSET rows, T # {}
      PROVE  /\ (CHOOSE x \in T : \A y \in T : x <= y) \in T
             /\ (CHOOSE x \in T : \A y \in T : y <= x) \in T
  <2>1. T \subseteq Nat /\ T \subseteq 1 .. MaxUid
    OBVIOUS
  <2>2. \E x \in T : \A y \in T : x <= y
    BY <1>1, <2>1, LeastOfNaturals
  <2>3. \E x \in T : \A y \in T : y <= x
    BY <1>1, <2>1, GreatestUpTo
  <2>4. QED
    BY <2>2, <2>3, Zenon
<1> DEFINE up == {u \in rows \ gone : u > open}
           down == {u \in rows \ gone : u < open}
           over == {u \in rows : u > open}
           under == {u \in rows : u < open}
<1>2. up \in SUBSET rows /\ down \in SUBSET rows /\ over \in SUBSET rows /\ under \in SUBSET rows
  OBVIOUS
<1>3. up \in SUBSET (rows \ gone) /\ down \in SUBSET (rows \ gone)
  OBVIOUS
<1>4. successorAfter(rows, open, gone) =
        IF open \notin rows THEN 0
        ELSE IF up # {} THEN CHOOSE x \in up : \A y \in up : x <= y
        ELSE IF down # {} THEN CHOOSE x \in down : \A y \in down : y <= x
        ELSE 0
  BY Zenon DEF successorAfter
<1>5. /\ Above(rows, open) = IF open \notin rows \/ over = {} THEN 0
                             ELSE CHOOSE x \in over : \A y \in over : x <= y
      /\ Below(rows, open) = IF open \notin rows \/ under = {} THEN 0
                             ELSE CHOOSE x \in under : \A y \in under : y <= x
  BY Zenon DEF Above, Below
<1> HIDE DEF up, down, over, under
<1> DEFINE l(T) == CHOOSE x \in T : \A y \in T : x <= y
           g(T) == CHOOSE x \in T : \A y \in T : y <= x
<1>6. \A T \in SUBSET rows : T # {} => l(T) \in T /\ g(T) \in T
  BY <1>1
<1>7. \/ successorAfter(rows, open, gone) = 0
      \/ up # {} /\ successorAfter(rows, open, gone) = l(up)
      \/ down # {} /\ successorAfter(rows, open, gone) = g(down)
  <2>1. CASE open \notin rows
    BY <1>4, <2>1
  <2>2. CASE open \in rows /\ up # {}
    BY <1>4, <2>2, Zenon
  <2>3. CASE open \in rows /\ up = {} /\ down # {}
    BY <1>4, <2>3, Zenon
  <2>4. CASE open \in rows /\ up = {} /\ down = {}
    BY <1>4, <2>4
  <2>5. QED
    BY <2>1, <2>2, <2>3, <2>4
<1>8. /\ Above(rows, open) = 0 \/ (over # {} /\ Above(rows, open) = l(over))
      /\ Below(rows, open) = 0 \/ (under # {} /\ Below(rows, open) = g(under))
  BY <1>5, Zenon
<1> HIDE DEF l, g
<1>9. QED
  BY <1>2, <1>3, <1>6, <1>7, <1>8

LEMMA IdleOK == Idle \in Job
  BY ReadingAssumption, NoneTicked DEF Idle, Job, Stage

LEMMA JobParts ==
    ASSUME NEW j \in Job
    PROVE  /\ j.at \in Stage /\ j.does \in {"flag", "mark", "move"}
           /\ j.dest \in Folders /\ j.folder \in Folders /\ j.uids \in SUBSET Uid
           /\ j.open \in Uid \union {0} /\ j.then \in Uid \union {0}
           /\ j.closes \in BOOLEAN /\ j.ticks \in BOOLEAN
  BY DEF Job

LEMMA JobAt ==
    ASSUME NEW j \in Job, NEW s \in Stage
    PROVE  [j EXCEPT !.at = s] \in Job
  BY DEF Job

LEMMA JobFetch ==
    ASSUME NEW j \in Job, NEW f \in Folders, NEW u \in Uid \union {0}
    PROVE  [j EXCEPT !.at = "fetch", !.folder = f, !.open = u] \in Job
  BY ZenonT(40) DEF Job, Stage

LEMMA JobStep ==
    ASSUME NEW j \in Job, NEW s \in Stage, NEW u \in Uid \union {0}
    PROVE  [j EXCEPT !.at = s, !.then = u] \in Job
  BY ZenonT(40) DEF Job

LEMMA JobThen ==
    ASSUME NEW j \in Job, NEW u \in Uid \union {0}
    PROVE  [j EXCEPT !.then = u] \in Job
  BY ZenonT(40) DEF Job

LEMMA JobTicks ==
    ASSUME NEW j \in Job, NEW s \in Stage, NEW U \in SUBSET Uid
    PROVE  [j EXCEPT !.at = s, !.uids = U] \in Job
  BY ZenonT(40) DEF Job

LEMMA JobCopied ==
    ASSUME NEW j \in Job, NEW f \in Folders
    PROVE  [j EXCEPT !.at = "copied", !.dest = f] \in Job
  BY ZenonT(40) DEF Job, Stage

LEMMA JobAnswered ==
    ASSUME NEW j \in Job, NEW U \in SUBSET Uid,
           NEW u \in Uid \union {0}, NEW c, c \in BOOLEAN, NEW k, k \in BOOLEAN
    PROVE  [j EXCEPT !.at = "settle", !.then = u, !.uids = U, !.closes = c, !.ticks = k] \in Job
  BY ZenonT(60) DEF Job, Stage

\* A step that leaves the folders alone, and copies nothing.
Quiet ==
    /\ UNCHANGED <<box, next, marked, condemned, astray>>
    /\ \A s \in Tabs : job'[s].at = "copied" => job'[s] = job[s]

\* A request's next stage touches no other request.
LEMMA GoesOK ==
    ASSUME job \in [Tabs -> Job], NEW t \in Tabs, NEW j \in Job, Goes(t, j)
    PROVE  /\ job' \in [Tabs -> Job] /\ job'[t] = j
           /\ \A s \in Tabs : s # t => job'[s] = job[s]
<1>1. job' = [job EXCEPT ![t] = j]
  BY DEF Goes
<1>2. QED
  BY <1>1

\* Every request but the eight commands that change mail is such a step.
LEMMA QuietRequests ==
    ASSUME Typed, ViewOK(view), NEW t \in Tabs,
           \/ Redraw(t) \/ Look(t) \/ Fetch(t) \/ Forget(t)
           \/ ReaderStep(t) \/ Stepped(t) \/ ReaderClose(t)
           \/ TurnList(t) \/ SelectAll(t) \/ Ticked(t) \/ Settle(t)
           \/ \E u \in Named : OpenMessage(t, u) \/ Select(t, u)
           \/ \E f \in Folders : OpenFolder(t, f)
    PROVE  Typed' /\ ViewOK(view') /\ Quiet
<1> DEFINE Same == UNCHANGED <<box, next, marked, cap, condemned, mishaps, trouble, astray>>
<1>1. /\ job \in [Tabs -> Job] /\ job[t] \in Job /\ Idle \in Job /\ NewView.ticked = {}
      /\ Idle.at = "idle"
  BY IdleOK DEF Typed, Idle, NewView
<1>2. /\ view.folder \in Folders /\ view.open \in Uid \union {0} /\ view.ticked \in SUBSET Uid
      /\ Cardinality(view.ticked) \in Nat /\ next[view.folder] \in 1 .. (MaxUid + 1)
      /\ Present(view.folder) \in SUBSET Uid
  BY ViewParts DEF Typed, BoxOK, Present
<1>3. Named \in SUBSET Uid
  BY <1>2, ReadingAssumption DEF Named, Uid
<1>4. /\ job[t].then \in Uid \union {0} /\ job[t].uids \in SUBSET Uid
      /\ job[t].open \in Uid \union {0} /\ job[t].folder \in Folders
  BY <1>1, JobParts
<1>5. ASSUME Same, job' \in [Tabs -> Job], ViewOK(view'),
             \A s \in Tabs : s # t => job'[s] = job[s], job'[t].at # "copied" \/ job'[t] = job[t]
      PROVE Typed' /\ ViewOK(view') /\ Quiet
  <2>1. Typed'
    BY <1>5 DEF Typed, BoxOK
  <2>2. Quiet
    BY <1>5 DEF Quiet
  <2>3. QED
    BY <1>5, <2>1, <2>2
<1>6. ASSUME Same, ViewOK(view'), NEW j \in Job, j.at # "copied", Goes(t, j)
      PROVE Typed' /\ ViewOK(view') /\ Quiet
  BY <1>1, <1>5, <1>6, GoesOK
<1>7. ASSUME Same, ViewOK(view'), UNCHANGED job
      PROVE Typed' /\ ViewOK(view') /\ Quiet
  <2>1. job' \in [Tabs -> Job] /\ \A s \in Tabs : job'[s] = job[s]
    BY <1>1, <1>7
  <2>2. QED
    BY <1>5, <1>7, <2>1
<1>8. \A s \in Stage : [Idle EXCEPT !.at = s] \in Job /\ [Idle EXCEPT !.at = s].at = s
  BY <1>1, JobAt DEF Job
<1> {"look", "forget", "fetch", "ticking", "stepping"} \subseteq Stage
  BY DEF Stage
<1> USE DEF Server, Past
<1>11. CASE Redraw(t)
  BY <1>6, <1>8, <1>11 DEF Redraw
<1>12. CASE Look(t)
  <2>1. CASE view.open = 0
    BY <1>1, <1>6, <1>12, <2>1 DEF Look, Done
  <2>2. CASE view.open # 0
    <3> DEFINE j == [job[t] EXCEPT !.at = "fetch", !.folder = view.folder, !.open = view.open]
    <3>1. j \in Job /\ j.at = "fetch"
      BY <1>1, <1>2, JobFetch DEF Job
    <3>2. Same /\ Goes(t, j) /\ UNCHANGED view
      BY <1>12, <2>2 DEF Look
    <3> HIDE DEF j, Same
    <3>3. QED
      BY <1>6, <3>1, <3>2
  <2>3. QED
    BY <2>1, <2>2
<1>13. CASE Fetch(t)
  BY <1>1, <1>6, <1>8, <1>13 DEF Fetch, Done
<1>14. CASE Forget(t)
  BY <1>1, <1>6, <1>14, OpenedOK DEF Forget, Done
<1>15. CASE ReaderStep(t)
  <2>1. PICK step \in {Above(Present(view.folder), view.open), Below(Present(view.folder), view.open)} :
         Goes(t, [Idle EXCEPT !.at = IF step = 0 THEN "look" ELSE "stepping", !.then = step])
    BY <1>15 DEF ReaderStep
  <2> DEFINE s == IF step = 0 THEN "look" ELSE "stepping"
             j == [Idle EXCEPT !.at = s, !.then = step]
  <2>2. s \in Stage /\ s # "copied"
    OBVIOUS
  <2>3. step \in Uid \union {0}
    BY <1>2, <2>1, NextOpen
  <2> HIDE DEF s
  <2>4. j \in Job /\ j.at = s
    BY <1>1, <2>2, <2>3, JobStep DEF Job
  <2>5. Same /\ UNCHANGED view
    BY <1>15 DEF ReaderStep
  <2>6. Goes(t, j)
    BY <2>1 DEF s
  <2> HIDE DEF j, Same
  <2>7. QED
    BY <1>6, <2>2, <2>4, <2>5, <2>6
<1>16. CASE Stepped(t)
  BY <1>4, <1>6, <1>8, <1>16, OpenedOK DEF Stepped
<1>17. CASE ReaderClose(t)
  BY <1>7, <1>17, OpenedOK DEF ReaderClose
<1>18. CASE TurnList(t)
  <2> DEFINE v == [view EXCEPT !.open = 0]
  <2>1. view' = [v EXCEPT !.ticked = {}]
    BY <1>18 DEF TurnList
  <2>2. ViewOK(v)
    BY OpenedOK
  <2> HIDE DEF v
  <2>3. Cardinality({}) <= MaxSelected
    BY NoneTicked, ReadingAssumption
  <2>4. ViewOK(view')
    BY <2>1, <2>2, <2>3, NoneTicked, TickedOK
  <2>5. QED
    BY <1>7, <1>18, <2>4 DEF TurnList
<1>19. CASE SelectAll(t)
  <2> DEFINE j == [Idle EXCEPT !.at = "ticking", !.uids = Present(view.folder)]
  <2>1. j \in Job /\ j.at = "ticking"
    BY <1>1, <1>2, JobTicks DEF Job
  <2>2. Same /\ UNCHANGED view /\ Goes(t, j)
    BY <1>19 DEF SelectAll
  <2> HIDE DEF j, Same
  <2>3. QED
    BY <1>6, <2>1, <2>2
<1>20. CASE Ticked(t)
  <2> DEFINE rows == job[t].uids
             all == rows # {} /\ rows \subseteq view.ticked
  <2>1. PICK S \in SUBSET rows :
             /\ Cardinality(S) = IF all THEN 0
                                 ELSE IF Cardinality(rows) > MaxSelected THEN MaxSelected
                                 ELSE Cardinality(rows)
             /\ view' = [view EXCEPT !.ticked = S]
    BY <1>20, Zenon DEF Ticked
  <2>2. Cardinality(rows) \in Nat
    BY <1>4, FolderFinite
  <2> HIDE DEF all
  <2>3. Cardinality(S) <= MaxSelected
    BY <2>1, <2>2, ReadingAssumption
  <2>4. S \in SUBSET Uid
    BY <1>4
  <2>5. ViewOK(view')
    BY <2>1, <2>3, <2>4, TickedOK
  <2>6. Same /\ Goes(t, Idle)
    BY <1>20 DEF Ticked, Done
  <2>7. QED
    BY <1>1, <1>6, <2>5, <2>6
<1>21. CASE Settle(t)
  BY <1>1, <1>6, <1>8, <1>21, SettledOK DEF Settle
<1>22. ASSUME NEW u \in Named, OpenMessage(t, u) PROVE Typed' /\ ViewOK(view') /\ Quiet
  BY <1>3, <1>6, <1>8, <1>22, OpenedOK DEF OpenMessage
<1>23. ASSUME NEW u \in Named, Select(t, u) PROVE Typed' /\ ViewOK(view') /\ Quiet
  <2>1. u \in Uid
    BY <1>3
  <2>2. ViewOK(view')
    BY <2>1, <1>23, SelectedOK DEF Select
  <2>3. QED
    BY <1>7, <1>23, <2>2 DEF Select
<1>24. ASSUME NEW f \in Folders, OpenFolder(t, f) PROVE Typed' /\ ViewOK(view') /\ Quiet
  BY <1>7, <1>24, FolderOK DEF OpenFolder
<1> HIDE DEF Server, Past
<1>25. QED
  BY <1>11, <1>12, <1>13, <1>14, <1>15, <1>16, <1>17, <1>18, <1>19, <1>20, <1>21, <1>22, <1>23, <1>24

LEMMA QuietPress ==
    ASSUME Typed, ViewOK(view), NEW t \in Tabs, Presses(t)
    PROVE  Typed' /\ ViewOK(view') /\ Quiet /\ UNCHANGED view
<1>1. /\ view.folder \in Folders /\ view.open \in Uid \union {0} /\ view.ticked \in SUBSET Uid
      /\ next[view.folder] \in 1 .. (MaxUid + 1)
      /\ Present(view.folder) \in SUBSET Uid
  BY ViewParts DEF Typed, BoxOK, Present
<1>2. Named \in SUBSET Uid
  BY <1>1, ReadingAssumption DEF Named, Uid
<1>3. PICK scope \in {"open", "list"}, verb \in Verbs :
      \E posted \in IF scope = "list" THEN SUBSET Named ELSE {{}},
         dest \in Dests(verb) :
        Press(t, scope, posted, verb, dest)
  BY Zenon DEF Presses
<1>4. PICK posted \in IF scope = "list" THEN SUBSET Named ELSE {{}}, dest \in Dests(verb) :
        Press(t, scope, posted, verb, dest)
  BY <1>3, Zenon
<1>5. posted \in SUBSET Uid
  BY <1>2
<1>6. dest \in Folders
  <2>1. CASE verb = "move"
    BY <2>1 DEF Dests
  <2>2. CASE verb = "file"
    BY <2>2, ReadingAssumption DEF Dests
  <2>3. CASE verb # "move" /\ verb # "file"
    <3>1. Dests(verb) = {Trash}
      BY <2>3, Zenon DEF Dests
    <3>2. QED
      BY <3>1, ReadingAssumption
  <2>4. QED
    BY <2>1, <2>2, <2>3
<1> DEFINE uids == selectedUIDs(scope, posted, view)
           does == Does(verb, view.folder, dest)
           s == IF does = "flag" THEN "settle" ELSE "act"
           d == IF does = "move" THEN dest ELSE Inbox
           f == IF does = "flag" THEN Inbox ELSE view.folder
           U == IF verb = "keep" THEN {} ELSE uids
           u == IF messageLeavesFolder(verb) /\ view.open \in uids
                THEN successorAfter(Present(view.folder), view.open, uids) ELSE 0
           c == verb # "keep"
           k == scope # "open"
           j == [Idle EXCEPT !.at = s, !.does = does, !.dest = d, !.folder = f, !.uids = U,
                             !.then = u, !.closes = c, !.ticks = k]
<1>7. Goes(t, j) /\ UNCHANGED <<box, next, marked, cap, view, condemned, mishaps, trouble, astray>>
  BY <1>4, Zenon DEF Press, Server, Past
<1>8. uids \in SUBSET Uid
  <2>1. {view.open} \ {0} \in SUBSET Uid
    BY <1>1
  <2>2. QED
    BY <1>1, <1>5, <2>1 DEF selectedUIDs
<1>9. does \in {"flag", "mark", "move"}
  BY DEF Does
<1>10. s \in Stage /\ s # "copied"
  BY DEF Stage
<1>11. d \in Folders /\ f \in Folders
  BY <1>1, <1>6, ReadingAssumption
<1>12. U \in SUBSET Uid
  BY <1>8
<1>13. u \in Uid \union {0}
  BY <1>1, NextOpen
<1>14. c \in BOOLEAN /\ k \in BOOLEAN
  OBVIOUS
<1> HIDE DEF uids, does, s, d, f, U, u, c, k
<1>15. Idle \in Job /\ job \in [Tabs -> Job]
  BY IdleOK DEF Typed
<1>16. j \in Job
  BY <1>9, <1>10, <1>11, <1>12, <1>13, <1>14, <1>15, ZenonT(60) DEF Job
<1>17. j.at = s
  BY <1>15 DEF Job
<1> HIDE DEF j
<1>18. job' \in [Tabs -> Job] /\ job'[t].at # "copied" /\ \A r \in Tabs : r # t => job'[r] = job[r]
  BY <1>7, <1>10, <1>15, <1>16, <1>17, GoesOK
<1>19. Typed'
  BY <1>7, <1>18 DEF Typed, BoxOK
<1>20. Quiet
  BY <1>7, <1>18 DEF Quiet
<1>21. QED
  BY <1>7, <1>19, <1>20

LEMMA MishapOK ==
    ASSUME Typed, MayGoAmiss, Mishap
    PROVE  mishaps' \in 0 .. MaxMishaps
<1>1. mishaps \in Nat /\ mishaps < MaxMishaps /\ mishaps' = mishaps + 1 /\ MaxMishaps \in Nat
  BY ReadingAssumption DEF Typed, MayGoAmiss, Mishap
<1>2. QED
  BY <1>1

LEMMA QuietFail ==
    ASSUME Typed, ViewOK(view), NEW t \in Tabs, Fail(t)
    PROVE  Typed' /\ ViewOK(view') /\ Quiet
<1>1. job \in [Tabs -> Job] /\ job[t] \in Job /\ Idle \in Job /\ Idle.at = "idle"
  BY IdleOK DEF Typed, Idle
<1>2. /\ UNCHANGED <<box, next, marked, cap, view, condemned, astray>>
      /\ trouble' = TRUE /\ MayGoAmiss /\ Mishap
  BY DEF Fail, Server
<1>3. \E j \in Job : Goes(t, j) /\ j.at # "copied"
  <2>1. CASE Done(t)
    BY <1>1, <2>1 DEF Done
  <2>2. CASE job[t].at \in {"act", "settle"} /\ Goes(t, [job[t] EXCEPT !.then = 0])
    <3>1. [job[t] EXCEPT !.then = 0] \in Job
      BY <1>1, JobThen
    <3>2. [job[t] EXCEPT !.then = 0].at = job[t].at
      BY <1>1 DEF Job
    <3>3. QED
      BY <2>2, <3>1, <3>2
  <2>3. QED
    BY <2>1, <2>2 DEF Fail
<1>4. job' \in [Tabs -> Job] /\ job'[t].at # "copied" /\ \A r \in Tabs : r # t => job'[r] = job[r]
  BY <1>1, <1>3, GoesOK
<1>5. mishaps' \in 0 .. MaxMishaps
  BY <1>2, MishapOK
<1>6. Typed'
  BY <1>2, <1>4, <1>5 DEF Typed, BoxOK
<1>7. Quiet
  BY <1>2, <1>4 DEF Quiet
<1>8. QED
  BY <1>2, <1>6, <1>7

LEMMA QuietSignOut ==
    ASSUME Typed, ViewOK(view), SignOut
    PROVE  Typed' /\ ViewOK(view') /\ Quiet
<1>1. UNCHANGED <<box, next, marked, cap, job, condemned, mishaps, trouble, astray>>
  BY DEF SignOut, Server, Past
<1>2. ViewOK(view')
  BY NewViewOK DEF SignOut
<1>3. Typed'
  BY <1>1 DEF Typed, BoxOK
<1>4. Quiet
  BY <1>1 DEF Quiet
<1>5. QED
  BY <1>2, <1>3, <1>4

-----------------------------------------------------------------------------
(* The commands that change mail, each by what it does to the folders.       *)

LEMMA AnsweredOK ==
    ASSUME job \in [Tabs -> Job], NEW t \in Tabs, Answered(t)
    PROVE  /\ job' \in [Tabs -> Job] /\ job'[t].at = "settle"
           /\ job'[t].closes = job[t].closes /\ job'[t].then = job[t].then
           /\ \A s \in Tabs : s # t => job'[s] = job[s]
<1> DEFINE j == job[t]
           U == IF j.closes THEN j.uids ELSE {}
           k == [Idle EXCEPT !.at = "settle", !.then = j.then, !.uids = U,
                             !.closes = j.closes, !.ticks = j.ticks]
<1>1. j \in Job /\ Idle \in Job
  BY IdleOK
<1>2. U \in SUBSET Uid /\ j.then \in Uid \union {0} /\ j.closes \in BOOLEAN /\ j.ticks \in BOOLEAN
  BY <1>1, JobParts
<1>3. k \in Job
  BY <1>1, <1>2, JobAnswered
<1>4. k.at = "settle" /\ k.closes = j.closes /\ k.then = j.then
  BY <1>1 DEF Job
<1>5. Goes(t, k)
  BY DEF Answered
<1> HIDE DEF k
<1>6. QED
  BY <1>3, <1>4, <1>5, GoesOK

\* What every step leaves of the folders: a UID keeps its message, leaves, or is
\* one the folder had yet to hand out; and only what leaves is in G.
Changes(G) ==
    /\ BoxOK(box')
    /\ next' \in [Folders -> 1 .. (MaxUid + 1)]
    /\ \A f \in Folders : next[f] <= next'[f]
    /\ \A f \in Folders : \A u \in DOMAIN box'[f] :
         (u \in Present(f) /\ box'[f][u] = box[f][u]) \/ (next[f] <= u /\ u < next'[f])
    /\ \A f \in Folders : \A u \in Present(f) :
         <<f, u>> \in G \/ (u \in DOMAIN box'[f] /\ box'[f][u] = box[f][u])

\* What was taken is now under one of the destination's new UIDs.
Lands(j) ==
    \A u \in Here(j) : \E v \in DOMAIN box'[j.dest] :
       v >= next[j.dest] /\ box'[j.dest][v] = box[j.folder][u]

\* Mail that arrives in a folder displaces nothing there.
LEMMA Arrived ==
    ASSUME BoxOK(box), next \in [Folders -> 1 .. (MaxUid + 1)], Numbered,
           NEW j, j.folder \in Folders, j.dest \in Folders, Room(j),
           NEW b, BoxOK(b),
           \A f \in Folders : \A u \in DOMAIN b[f] : u \in Present(f) /\ b[f][u] = box[f][u],
           NEW n, n = Cardinality(Here(j)),
           next' = [next EXCEPT ![j.dest] = @ + n],
           box' = [b EXCEPT ![j.dest] = Grown(@, Copied(j))],
           NEW G,
           \A f \in Folders : \A u \in Present(f) : <<f, u>> \in G \/ u \in DOMAIN b[f]
    PROVE  Changes(G) /\ Lands(j)
<1> DEFINE d == j.dest
           c == Copied(j)
<1>1. /\ n \in Nat /\ next[d] + n \in 1 .. (MaxUid + 1)
      /\ DOMAIN c = next[d] .. (next[d] + n - 1)
      /\ DOMAIN c \subseteq Uid
      /\ \A v \in DOMAIN c : c[v] \in Messages
      /\ \A u \in Here(j) : \E v \in DOMAIN c : c[v] = box[j.folder][u]
  BY CopiedIs
<1>2. d \in Folders /\ box' = [b EXCEPT ![d] = Grown(@, c)] /\ next' = [next EXCEPT ![d] = @ + n]
  OBVIOUS
<1> HIDE DEF d, c
<1>3. /\ BoxOK(box')
      /\ \A h \in Folders : h # d => box'[h] = b[h]
      /\ DOMAIN box'[d] = DOMAIN b[d] \union DOMAIN c
      /\ \A u \in DOMAIN b[d] : box'[d][u] = b[d][u]
      /\ \A u \in DOMAIN c \ DOMAIN b[d] : box'[d][u] = c[u]
  <2>1. Fits(c)
    BY <1>1 DEF Fits
  <2>2. BoxOK(box') /\ Joined(b, d, c, box')
    BY <1>2, <2>1, GrownIs, Zenon
  <2>3. QED
    BY <2>2 DEF Joined
<1>4. next' = [f \in Folders |-> IF f = d THEN next[d] + n ELSE next[f]]
  BY <1>2
<1>5. next' \in [Folders -> 1 .. (MaxUid + 1)]
  BY <1>1, <1>4
<1>6. \A f \in Folders : next[f] \in Nat
  BY ReadingAssumption
<1>7. \A f \in Folders : next[f] <= next'[f]
  BY <1>1, <1>4, <1>6
<1>8. \A u \in DOMAIN c : next[d] <= u /\ u < next'[d]
  BY <1>1, <1>2, <1>4, <1>6
<1>9. \A u \in DOMAIN c : u \notin DOMAIN b[d]
  <2> SUFFICES ASSUME NEW u \in DOMAIN c, u \in DOMAIN b[d] PROVE FALSE
    OBVIOUS
  <2>1. u \in Present(d) /\ u < next[d] /\ next[d] <= u /\ u \in Uid
    BY <1>1, <1>2, <1>8 DEF Numbered
  <2>2. u \in Nat
    BY <2>1, ReadingAssumption DEF Uid
  <2>3. QED
    BY <1>2, <1>6, <2>1, <2>2
<1>10. ASSUME NEW f \in Folders, NEW u \in DOMAIN box'[f]
       PROVE (u \in Present(f) /\ box'[f][u] = box[f][u]) \/ (next[f] <= u /\ u < next'[f])
  <2>1. CASE u \in DOMAIN b[f]
    BY <1>3, <2>1
  <2>2. CASE u \notin DOMAIN b[f]
    BY <1>3, <1>8, <1>10, <2>2
  <2>3. QED
    BY <2>1, <2>2
<1>11. ASSUME NEW f \in Folders, NEW u \in DOMAIN b[f]
       PROVE u \in DOMAIN box'[f] /\ box'[f][u] = box[f][u]
  BY <1>3
<1>12. Changes(G)
  BY <1>3, <1>5, <1>7, <1>10, <1>11 DEF Changes
<1>13. ASSUME NEW u \in Here(j)
       PROVE \E v \in DOMAIN box'[d] : v >= next[d] /\ box'[d][v] = box[j.folder][u]
  <2>1. PICK v \in DOMAIN c : c[v] = box[j.folder][u]
    BY <1>1
  <2>2. v \in DOMAIN box'[d] /\ box'[d][v] = box[j.folder][u]
    BY <1>3, <1>9, <2>1
  <2>3. v >= next[d]
    <3>1. v \in Nat
      BY <1>1, <1>2, <1>6
    <3>2. QED
      BY <1>2, <1>6, <1>8, <3>1
  <2>4. QED
    BY <2>2, <2>3
<1>14. QED
  BY <1>12, <1>13 DEF d, Lands

LEMMA Left ==
    ASSUME BoxOK(box), next \in [Folders -> 1 .. (MaxUid + 1)],
           NEW f \in Folders, NEW S, box' = Expunged(box, f, S), UNCHANGED next
    PROVE  Changes({f} \X S)
<1>1. /\ BoxOK(box')
      /\ \A h \in Folders : h # f => box'[h] = box[h]
      /\ DOMAIN box'[f] = DOMAIN box[f] \ S
      /\ \A u \in DOMAIN box'[f] : box'[f][u] = box[f][u]
  BY ExpungedIs
<1>2. \A h \in Folders : next[h] \in Nat /\ next'[h] = next[h]
  BY ReadingAssumption
<1>3. QED
  BY <1>1, <1>2 DEF Changes, Present

LEMMA NoneLeft ==
    ASSUME BoxOK(box), next \in [Folders -> 1 .. (MaxUid + 1)], UNCHANGED <<box, next>>
    PROVE  Changes({})
<1>1. \A h \in Folders : next[h] \in Nat /\ next'[h] = next[h] /\ box'[h] = box[h]
  BY ReadingAssumption
<1>2. BoxOK(box')
  BY DEF BoxOK
<1>3. QED
  BY <1>1, <1>2 DEF Changes, Present

\* Only what is there is marked by a command.
MarksPresent == \A f, u : <<f, u>> \in marked' => <<f, u>> \in marked \/ (f \in Folders /\ u \in Present(f))

LEMMA Unmarks ==
    ASSUME NEW f, NEW S, marked' = Unmarked(f, S)
    PROVE  marked' \subseteq marked /\ MarksPresent
  BY DEF Unmarked, MarksPresent

\* What each command comes to.
Commands(t) == DeleteInTrash(t) \/ Move(t) \/ Copy(t) \/ Mark(t) \/ Expunge(t)

\* A command changes only its own request, and only marks what is there.
LEMMA CommandTyped ==
    ASSUME Typed, ViewOK(view), Numbered, NEW t \in Tabs, Commands(t)
    PROVE  /\ Typed' /\ UNCHANGED view /\ (\E G : Changes(G)) /\ MarksPresent
           /\ \A s \in Tabs : s # t => job'[s] = job[s]
           /\ condemned \subseteq condemned' /\ (astray => astray')
<1> DEFINE j == job[t]
           Result == /\ Typed' /\ UNCHANGED view /\ (\E G : Changes(G)) /\ MarksPresent
                     /\ \A s \in Tabs : s # t => job'[s] = job[s]
                     /\ condemned \subseteq condemned' /\ (astray => astray')
<1>1. /\ job \in [Tabs -> Job] /\ j \in Job /\ j.folder \in Folders /\ j.dest \in Folders
      /\ j.uids \in SUBSET Uid /\ BoxOK(box) /\ next \in [Folders -> 1 .. (MaxUid + 1)]
      /\ marked \subseteq Folders \X Uid
  BY JobParts DEF Typed
<1>2. /\ Here(j) \in SUBSET Uid /\ Here(j) \in SUBSET Present(j.folder)
      /\ \A u \in Here(j) : box[j.folder][u] \in Messages
  BY <1>1 DEF Here, Present, BoxOK
<1>3. \A f, S : marked' = Unmarked(f, S) => marked' \subseteq Folders \X Uid /\ MarksPresent
  BY <1>1, Unmarks
<1>4. marked' = marked \union ({j.folder} \X Here(j)) => marked' \subseteq Folders \X Uid /\ MarksPresent
  BY <1>1, <1>2 DEF MarksPresent
<1>5. ASSUME Answered(t) PROVE job' \in [Tabs -> Job] /\ \A s \in Tabs : s # t => job'[s] = job[s]
  BY <1>1, <1>5, AnsweredOK
<1> HIDE DEF j
<1>10. CASE DeleteInTrash(t)
  <2>1. /\ UNCHANGED <<box, next, cap, view, mishaps, trouble, astray>>
        /\ marked' = marked \union ({j.folder} \X Here(j))
        /\ condemned' = condemned \union {box[j.folder][u] : u \in Here(j)}
        /\ Answered(t)
    BY <1>10 DEF DeleteInTrash, j
  <2>2. \E G : Changes(G)
    BY <1>1, <2>1, NoneLeft
  <2>3. condemned' \subseteq Messages /\ condemned \subseteq condemned'
    BY <1>2, <2>1 DEF Typed
  <2>4. Typed'
    BY <1>1, <1>4, <1>5, <2>1, <2>3 DEF Typed, BoxOK
  <2>5. QED
    BY <1>4, <1>5, <2>1, <2>2, <2>3, <2>4
<1>11. CASE Move(t)
  <2> DEFINE gone == Expunged(box, j.folder, Here(j))
             n == Cardinality(Here(j))
  <2>1. /\ UNCHANGED <<cap, view, condemned, mishaps, trouble, astray>>
        /\ Room(j)
        /\ next' = [next EXCEPT ![j.dest] = @ + n]
        /\ box' = [gone EXCEPT ![j.dest] = Grown(@, Copied(j))]
        /\ marked' = Unmarked(j.folder, Here(j))
        /\ Answered(t)
    BY <1>11 DEF Move, Past, j
  <2>2. /\ BoxOK(gone)
        /\ \A f \in Folders : f # j.folder => gone[f] = box[f]
        /\ DOMAIN gone[j.folder] = DOMAIN box[j.folder] \ Here(j)
        /\ \A u \in DOMAIN gone[j.folder] : gone[j.folder][u] = box[j.folder][u]
    BY <1>1, ExpungedIs
  <2> HIDE DEF gone, n
  <2>3. \A f \in Folders : \A u \in DOMAIN gone[f] : u \in Present(f) /\ gone[f][u] = box[f][u]
    BY <2>2 DEF Present
  <2>4. \A f \in Folders : \A u \in Present(f) :
           <<f, u>> \in {j.folder} \X Here(j) \/ u \in DOMAIN gone[f]
    BY <2>2 DEF Present
  <2>5. Changes({j.folder} \X Here(j))
    <3>1. n = Cardinality(Here(j))
      BY DEF n
    <3>2. QED
      BY <1>1, <2>1, <2>2, <2>3, <2>4, <3>1, Arrived
  <2>6. Typed'
    BY <1>1, <1>3, <1>5, <2>1, <2>5 DEF Typed, Changes, BoxOK
  <2>7. QED
    BY <1>3, <1>5, <2>1, <2>5, <2>6
<1>12. CASE Copy(t)
  <2> DEFINE n == Cardinality(Here(j))
  <2>1. /\ UNCHANGED <<marked, cap, view, condemned, mishaps, trouble>>
        /\ Room(j)
        /\ next' = [next EXCEPT ![j.dest] = @ + n]
        /\ box' = [box EXCEPT ![j.dest] = Grown(@, Copied(j))]
        /\ astray' = (astray \/ Ahead(j))
        /\ Goes(t, [j EXCEPT !.at = "copied", !.dest = Inbox])
    BY <1>12 DEF Copy, Deliver, j
  <2>2. [j EXCEPT !.at = "copied", !.dest = Inbox] \in Job
    BY <1>1, JobCopied, ReadingAssumption
  <2>3. job' \in [Tabs -> Job] /\ \A s \in Tabs : s # t => job'[s] = job[s]
    BY <1>1, <2>1, <2>2, GoesOK
  <2> HIDE DEF n
  <2>4. Changes({})
    <3>1. n = Cardinality(Here(j))
      BY DEF n
    <3>2. \A f \in Folders : \A u \in DOMAIN box[f] : u \in Present(f) /\ box[f][u] = box[f][u]
      BY DEF Present
    <3>3. \A f \in Folders : \A u \in Present(f) : <<f, u>> \in {} \/ u \in DOMAIN box[f]
      BY DEF Present
    <3>4. QED
      BY <1>1, <2>1, <3>1, <3>2, <3>3, Arrived
  <2>5. astray' \in BOOLEAN
    BY <2>1 DEF Ahead
  <2>6. Typed'
    BY <1>1, <2>1, <2>3, <2>4, <2>5 DEF Typed, Changes, BoxOK
  <2>7. MarksPresent
    BY <2>1 DEF MarksPresent
  <2>8. QED
    BY <2>1, <2>3, <2>4, <2>6, <2>7
<1>13. CASE Mark(t)
  <2>1. /\ UNCHANGED <<box, next, cap, view, condemned, mishaps, trouble, astray>>
        /\ marked' = marked \union ({j.folder} \X Here(j))
        /\ Goes(t, [j EXCEPT !.at = "marked"])
    BY <1>13 DEF Mark, Now, Past, j
  <2>2. [j EXCEPT !.at = "marked"] \in Job
    BY <1>1, JobAt DEF Stage
  <2>3. job' \in [Tabs -> Job] /\ \A s \in Tabs : s # t => job'[s] = job[s]
    BY <1>1, <2>1, <2>2, GoesOK
  <2>4. Changes({})
    BY <1>1, <2>1, NoneLeft
  <2>5. Typed'
    BY <1>1, <1>4, <2>1, <2>3 DEF Typed, BoxOK
  <2>6. QED
    BY <1>4, <2>1, <2>3, <2>4, <2>5
<1>14. CASE Expunge(t)
  <2> DEFINE S == ToExpunge(j)
  <2>1. /\ UNCHANGED <<next, cap, view, condemned, mishaps, astray>>
        /\ box' = Expunged(box, j.folder, S)
        /\ marked' = Unmarked(j.folder, S)
        /\ trouble' = (trouble \/ ~(S \subseteq j.uids))
        /\ Answered(t)
    BY <1>14 DEF Expunge, j
  <2> HIDE DEF S
  <2>2. Changes({j.folder} \X S)
    BY <1>1, <2>1, Left
  <2>3. trouble' \in BOOLEAN
    BY <2>1
  <2>4. Typed'
    BY <1>1, <1>3, <1>5, <2>1, <2>2, <2>3 DEF Typed, Changes, BoxOK
  <2>5. QED
    BY <1>3, <1>5, <2>1, <2>2, <2>4
<1>15. QED
  BY <1>10, <1>11, <1>12, <1>13, <1>14 DEF Commands

\* Other clients touch no request of this one, nor its position.
LEMMA OthersTyped ==
    ASSUME Typed, Numbered, Others
    PROVE  /\ Typed' /\ UNCHANGED <<view, job, astray>> /\ (\E G : Changes(G)) /\ MarksPresent
           /\ condemned \subseteq condemned'
<1> DEFINE Result == /\ Typed' /\ UNCHANGED <<view, job, astray>> /\ (\E G : Changes(G)) /\ MarksPresent
                     /\ condemned \subseteq condemned'
<1>1. /\ BoxOK(box) /\ next \in [Folders -> 1 .. (MaxUid + 1)]
      /\ marked \subseteq Folders \X Uid /\ condemned \subseteq Messages
  BY DEF Typed
<1>2. \A f \in Folders : \A u \in Present(f) : u \in Uid /\ box[f][u] \in Messages
  BY <1>1 DEF Present, BoxOK
<1>3. \A f, S : marked' = Unmarked(f, S) => marked' \subseteq Folders \X Uid /\ MarksPresent
  BY <1>1, Unmarks
<1>4. MayGoAmiss
  BY DEF Others
<1>5. ASSUME NEW f \in Folders, OthersExpunge(f) PROVE Result
  <2> DEFINE S == {u \in Present(f) : <<f, u>> \in marked}
  <2>1. /\ box' = Expunged(box, f, S) /\ marked' = Unmarked(f, S) /\ trouble' = TRUE
        /\ UNCHANGED <<next, cap, view, job, condemned, astray>> /\ Mishap
    BY <1>5 DEF OthersExpunge
  <2> HIDE DEF S
  <2>2. Changes({f} \X S)
    BY <1>1, <2>1, Left
  <2>3. mishaps' \in 0 .. MaxMishaps
    BY <1>4, <2>1, MishapOK
  <2>4. Typed'
    BY <1>1, <1>3, <2>1, <2>2, <2>3 DEF Typed, Changes
  <2>5. QED
    BY <1>3, <2>1, <2>2, <2>4
<1>6. ASSUME NEW f \in Folders, NEW u \in Present(f), OthersMark(f, u) PROVE Result
  <2>1. /\ marked' = marked \union {<<f, u>>} /\ condemned' = condemned \union {box[f][u]}
        /\ UNCHANGED <<box, next, cap, view, job, trouble, astray>> /\ Mishap
    BY <1>6 DEF OthersMark
  <2>2. Changes({})
    BY <1>1, <2>1, NoneLeft
  <2>3. mishaps' \in 0 .. MaxMishaps
    BY <1>4, <2>1, MishapOK
  <2>4. Typed'
    BY <1>1, <1>2, <2>1, <2>3 DEF Typed, BoxOK
  <2>5. MarksPresent
    BY <1>6, <2>1 DEF MarksPresent
  <2>6. QED
    BY <2>1, <2>2, <2>4, <2>5
<1>7. ASSUME NEW f \in Folders, NEW u \in Present(f), NEW g \in Folders, OthersMove(f, u, g) PROVE Result
  <2> DEFINE j == [folder |-> f, uids |-> {u}, dest |-> g]
             gone == Expunged(box, f, {u})
  <2>1. /\ Room(j) /\ next' = [next EXCEPT ![g] = @ + 1]
        /\ box' = [gone EXCEPT ![g] = Grown(@, Copied(j))]
        /\ marked' = Unmarked(f, {u}) /\ trouble' = TRUE
        /\ UNCHANGED <<cap, view, job, condemned, astray>> /\ Mishap
    BY <1>7 DEF OthersMove
  <2>2. /\ BoxOK(gone)
        /\ \A h \in Folders : h # f => gone[h] = box[h]
        /\ DOMAIN gone[f] = DOMAIN box[f] \ {u}
        /\ \A w \in DOMAIN gone[f] : gone[f][w] = box[f][w]
    BY <1>1, ExpungedIs
  <2>3. Here(j) = {u} /\ 1 = Cardinality(Here(j)) /\ j.folder = f /\ j.dest = g
    <3>1. Here(j) = {u} /\ j.folder = f /\ j.dest = g
      BY DEF Here
    <3>2. QED
      BY <3>1, FS_Singleton
  <2> HIDE DEF gone, j
  <2>4. \A h \in Folders : \A w \in DOMAIN gone[h] : w \in Present(h) /\ gone[h][w] = box[h][w]
    BY <2>2 DEF Present
  <2>5. \A h \in Folders : \A w \in Present(h) : <<h, w>> \in {<<f, u>>} \/ w \in DOMAIN gone[h]
    BY <2>2 DEF Present
  <2>6. Changes({<<f, u>>})
    BY <1>1, <2>1, <2>2, <2>3, <2>4, <2>5, Arrived
  <2>7. mishaps' \in 0 .. MaxMishaps
    BY <1>4, <2>1, MishapOK
  <2>8. Typed'
    BY <1>1, <1>3, <2>1, <2>6, <2>7 DEF Typed, Changes
  <2>9. QED
    BY <1>3, <2>1, <2>6, <2>8
<1>8. QED
  BY <1>5, <1>6, <1>7 DEF Others

\* UIDs go on being given in order.
LEMMA NumberedStep ==
    ASSUME Typed, Numbered, NEW G, Changes(G), MarksPresent
    PROVE  Numbered'
<1>1. \A f \in Folders : next[f] \in Nat /\ next'[f] \in Nat /\ next[f] <= next'[f]
  BY ReadingAssumption DEF Typed, Changes
<1>2. ASSUME NEW f \in Folders, NEW u, u \in Present(f) \/ <<f, u>> \in marked PROVE u < next'[f]
  <2>1. u < next[f] /\ u \in Uid
    BY <1>2 DEF Numbered, Typed, BoxOK, Present
  <2>2. u \in Nat
    BY <2>1, ReadingAssumption DEF Uid
  <2>3. QED
    BY <1>1, <2>1, <2>2
<1>3. \A f \in Folders : \A u \in DOMAIN box'[f] : u < next'[f]
  BY <1>2 DEF Changes
<1>4. \A f \in Folders : \A u : <<f, u>> \in marked' => u < next'[f]
  BY <1>2 DEF MarksPresent
<1>5. QED
  BY <1>3, <1>4 DEF Numbered, Present

\* A quiet step keeps the filing invariant.
LEMMA QuietSafe ==
    ASSUME Typed, Numbered, HandedOut, AllSafe, Quiet
    PROVE  Numbered' /\ HandedOut' /\ AllSafe'
<1>1. Numbered'
  BY DEF Numbered, Quiet, Present
<1>2. HandedOut'
  BY DEF HandedOut, Quiet
<1>3. \A m, f, u : SafeAt(m, f, u) => SafeAt(m, f, u)'
  BY DEF Quiet, SafeAt, Present
<1>4. AllSafe'
  BY <1>3 DEF AllSafe, Quiet
<1>5. QED
  BY <1>1, <1>2, <1>4

\* What the copies in flight name was handed out before.
LEMMA CommandHandedOut ==
    ASSUME Typed, ViewOK(view), Numbered, HandedOut, NEW t \in Tabs, Commands(t)
    PROVE  HandedOut'
<1> SUFFICES ASSUME ~ astray', NEW s \in Tabs, job'[s].at = "copied", NEW u \in job'[s].uids
             PROVE  u < next'[job'[s].folder]
  BY DEF HandedOut
<1>1. PICK G : Changes(G)
  BY CommandTyped
<1>2. /\ Typed' /\ (\A r \in Tabs : r # t => job'[r] = job[r]) /\ ~ astray
  BY CommandTyped
<1>3. job \in [Tabs -> Job] /\ job[t] \in Job /\ job'[s] \in Job
  BY <1>2 DEF Typed
<1>4. job'[s].folder \in Folders /\ u \in Uid
  BY <1>3, JobParts
<1>5. u < next[job'[s].folder]
  <2>1. CASE s # t
    BY <1>2, <2>1 DEF HandedOut
  <2>2. CASE s = t /\ Copy(t)
    <3>1. job' = [job EXCEPT ![t] = [job[t] EXCEPT !.at = "copied", !.dest = Inbox]]
      BY <2>2 DEF Copy, Goes
    <3>2. job'[t].folder = job[t].folder /\ job'[t].uids = job[t].uids
      BY <1>3, <3>1 DEF Job
    <3>3. ~ Ahead(job[t])
      BY <2>2 DEF Copy
    <3>4. next[job[t].folder] \in Nat /\ u \in Nat
      BY <1>3, <1>4, JobParts, ReadingAssumption DEF Typed, Uid
    <3>5. QED
      BY <2>2, <3>2, <3>3, <3>4 DEF Ahead
  <2>3. CASE s = t /\ Mark(t)
    <3>1. job'[t].at = "marked"
      BY <1>3, <2>3 DEF Mark, Now, Goes, Job
    <3>2. QED
      BY <2>3, <3>1
  <2>4. CASE s = t /\ Answered(t)
    BY <1>3, <2>4, AnsweredOK
  <2>5. QED
    BY <2>1, <2>2, <2>3, <2>4 DEF Commands, DeleteInTrash, Move, Expunge
<1>6. next[job'[s].folder] \in Nat /\ next'[job'[s].folder] \in Nat /\ u \in Nat
  BY <1>2, <1>4, ReadingAssumption DEF Typed, Uid
<1>7. QED
  BY <1>1, <1>4, <1>5, <1>6 DEF Changes

\* A message stays where it is safe, or is safe where a move has taken it.
LEMMA CommandSafe ==
    ASSUME Typed, ViewOK(view), Numbered, HandedOut, AllSafe, NEW t \in Tabs, Commands(t)
    PROVE  AllSafe'
<1>1. /\ Typed' /\ (\A s \in Tabs : s # t => job'[s] = job[s]) /\ MarksPresent
      /\ condemned \subseteq condemned' /\ (astray => astray')
  BY CommandTyped
<1> SUFFICES ASSUME ~ astray', NEW m \in Messages, m \notin condemned'
             PROVE  \E f \in Folders, u \in Uid : SafeAt(m, f, u)'
  BY <1>1 DEF AllSafe
<1>2. PICK f \in Folders, u \in Uid : SafeAt(m, f, u)
  BY <1>1 DEF AllSafe
<1> DEFINE j == job[t]
<1>3. /\ job \in [Tabs -> Job] /\ j \in Job /\ j.folder \in Folders /\ j.dest \in Folders
      /\ j.uids \in SUBSET Uid /\ BoxOK(box) /\ next \in [Folders -> 1 .. (MaxUid + 1)]
  BY JobParts DEF Typed
<1>4. u \in Present(f) /\ box[f][u] = m /\ <<f, u>> \notin marked
  BY <1>2 DEF SafeAt
<1>5. \A g \in Folders : next[g] \in Nat
  BY <1>3, ReadingAssumption
<1>6. \A g \in Folders : \A v : v \in Nat /\ v >= next[g] => v \notin Present(g) /\ <<g, v>> \notin marked
  BY <1>5 DEF Numbered
<1>7. \A g \in Folders : \A v \in DOMAIN box'[g] : v \in Uid /\ v \in Nat
  BY <1>1, ReadingAssumption DEF Typed, BoxOK, Uid
<1>8. ASSUME NEW G, Changes(G), <<f, u>> \notin G
      PROVE  u \in Present(f)' /\ box'[f][u] = m
  BY <1>4, <1>8 DEF Changes, Present
<1>9. ASSUME u \in Present(f)', box'[f][u] = m, <<f, u>> \notin marked',
             job'[t].at = "copied" /\ job'[t].folder = f => u \notin job'[t].uids
      PROVE  SafeAt(m, f, u)'
  BY <1>1, <1>2, <1>9 DEF SafeAt
<1>10. ASSUME LineFree, NEW g \in Folders, NEW v \in DOMAIN box'[g], box'[g][v] = m, v >= next[g],
              marked' \subseteq marked,
              job'[t].at = "copied" /\ job'[t].folder = g => v \notin job'[t].uids
       PROVE  \E h \in Folders, w \in Uid : SafeAt(m, h, w)'
  <2>1. v \in Uid /\ <<g, v>> \notin marked'
    BY <1>6, <1>7, <1>10
  <2>2. SafeAt(m, g, v)'
    BY <1>1, <1>10, <2>1 DEF SafeAt, LineFree, Present
  <2>3. QED
    BY <2>1, <2>2
<1>11. Answered(t) => job'[t].at = "settle"
  BY <1>3, AnsweredOK
<1> HIDE DEF j
<1>20. CASE DeleteInTrash(t)
  <2>1. /\ UNCHANGED <<box, next>>
        /\ marked' = marked \union ({j.folder} \X Here(j))
        /\ condemned' = condemned \union {box[j.folder][w] : w \in Here(j)}
        /\ Answered(t)
    BY <1>20 DEF DeleteInTrash, j
  <2>2. <<f, u>> \notin marked'
    BY <1>4, <2>1
  <2>3. u \in Present(f)' /\ box'[f][u] = m
    BY <1>4, <2>1 DEF Present
  <2>4. SafeAt(m, f, u)'
    BY <1>9, <1>11, <2>1, <2>2, <2>3
  <2>5. QED
    BY <2>4
<1>21. CASE Move(t)
  <2> DEFINE gone == Expunged(box, j.folder, Here(j))
             n == Cardinality(Here(j))
             G == {j.folder} \X Here(j)
  <2>1. /\ Room(j) /\ LineFree
        /\ next' = [next EXCEPT ![j.dest] = @ + n]
        /\ box' = [gone EXCEPT ![j.dest] = Grown(@, Copied(j))]
        /\ marked' = Unmarked(j.folder, Here(j))
        /\ Answered(t)
    BY <1>21 DEF Move, j
  <2>2. /\ BoxOK(gone)
        /\ \A g \in Folders : g # j.folder => gone[g] = box[g]
        /\ DOMAIN gone[j.folder] = DOMAIN box[j.folder] \ Here(j)
        /\ \A w \in DOMAIN gone[j.folder] : gone[j.folder][w] = box[j.folder][w]
    BY <1>3, ExpungedIs DEF j
  <2>0. n = Cardinality(Here(j))
    OBVIOUS
  <2> HIDE DEF gone, n
  <2>3. \A g \in Folders : \A w \in DOMAIN gone[g] : w \in Present(g) /\ gone[g][w] = box[g][w]
    BY <2>2 DEF Present
  <2>4. \A g \in Folders : \A w \in Present(g) : <<g, w>> \in G \/ w \in DOMAIN gone[g]
    BY <2>2 DEF Present
  <2> HIDE DEF G
  <2>5. Changes(G) /\ Lands(j)
    BY <1>3, <2>0, <2>1, <2>2, <2>3, <2>4, Arrived DEF j
  <2>6. marked' \subseteq marked
    BY <2>1, Unmarks
  <2>7. CASE <<f, u>> \notin G
    <3>1. SafeAt(m, f, u)'
      BY <1>4, <1>8, <1>9, <1>11, <2>1, <2>5, <2>6, <2>7
    <3>2. QED
      BY <3>1
  <2>8. CASE <<f, u>> \in G
    <3>1. f = j.folder /\ u \in Here(j)
      BY <2>8 DEF G
    <3>2. PICK v \in DOMAIN box'[j.dest] : v >= next[j.dest] /\ box'[j.dest][v] = m
      BY <1>4, <2>5, <3>1 DEF Lands
    <3>3. QED
      BY <1>3, <1>10, <1>11, <2>1, <2>6, <3>2 DEF j
  <2>9. QED
    BY <2>7, <2>8
<1>22. CASE Copy(t)
  <2> DEFINE n == Cardinality(Here(j))
  <2>1. /\ UNCHANGED marked
        /\ Room(j) /\ LineFree
        /\ next' = [next EXCEPT ![j.dest] = @ + n]
        /\ box' = [box EXCEPT ![j.dest] = Grown(@, Copied(j))]
        /\ astray' = (astray \/ Ahead(j))
        /\ Goes(t, [j EXCEPT !.at = "copied", !.dest = Inbox])
    BY <1>22 DEF Copy, Deliver, j
  <2>0. n = Cardinality(Here(j))
    OBVIOUS
  <2> HIDE DEF n
  <2>2. job'[t].folder = j.folder /\ job'[t].uids = j.uids
    <3>1. job' = [job EXCEPT ![t] = [job[t] EXCEPT !.at = "copied", !.dest = Inbox]]
      BY <2>1 DEF Goes, j
    <3>2. QED
      BY <1>3, <3>1 DEF Job, j
  <2>3. \A g \in Folders : \A w \in DOMAIN box[g] : w \in Present(g) /\ box[g][w] = box[g][w]
    BY DEF Present
  <2>4. \A g \in Folders : \A w \in Present(g) : <<g, w>> \in {} \/ w \in DOMAIN box[g]
    BY DEF Present
  <2>5. Changes({}) /\ Lands(j)
    BY <1>3, <2>0, <2>1, <2>3, <2>4, Arrived DEF j
  <2>6. CASE ~ (f = j.folder /\ u \in j.uids)
    <3>1. SafeAt(m, f, u)'
      BY <1>4, <1>8, <1>9, <2>1, <2>2, <2>5, <2>6
    <3>2. QED
      BY <3>1
  <2>7. CASE f = j.folder /\ u \in j.uids
    <3>1. u \in Here(j)
      BY <1>4, <2>7 DEF Here
    <3>2. PICK v \in DOMAIN box'[j.dest] : v >= next[j.dest] /\ box'[j.dest][v] = m
      BY <1>4, <2>5, <2>7, <3>1 DEF Lands
    <3>3. \A w \in j.uids : w \in Nat /\ w < next[j.folder]
      <4>1. \A w \in j.uids : w \in Nat
        BY <1>3, ReadingAssumption DEF j, Uid
      <4>2. ~ Ahead(j)
        BY <2>1
      <4>3. QED
        BY <1>3, <1>5, <4>1, <4>2 DEF Ahead, j
    <3>4. v \in Nat /\ (j.dest = j.folder => v \notin j.uids)
      BY <1>3, <1>5, <1>7, <3>2, <3>3 DEF j
    <3>5. QED
      BY <1>3, <1>10, <2>1, <2>2, <3>2, <3>4 DEF j
  <2>8. QED
    BY <2>6, <2>7
<1>23. CASE Mark(t)
  <2>1. /\ UNCHANGED <<box, next>>
        /\ j.at = "copied"
        /\ marked' = marked \union ({j.folder} \X Here(j))
        /\ job' = [job EXCEPT ![t] = [job[t] EXCEPT !.at = "marked"]]
    BY <1>23 DEF Mark, Now, Past, At, Goes, j
  <2>2. ~ (f = j.folder /\ u \in j.uids)
    BY <1>2, <2>1 DEF SafeAt, j
  <2>3. <<f, u>> \notin marked'
    BY <1>4, <2>1, <2>2 DEF Here
  <2>4. job'[t].at = "marked"
    BY <1>3, <2>1 DEF Job
  <2>5. u \in Present(f)' /\ box'[f][u] = m
    BY <1>4, <2>1 DEF Present
  <2>6. SafeAt(m, f, u)'
    BY <1>9, <2>3, <2>4, <2>5
  <2>7. QED
    BY <2>6
<1>24. CASE Expunge(t)
  <2> DEFINE S == ToExpunge(j)
  <2>1. /\ UNCHANGED next
        /\ box' = Expunged(box, j.folder, S)
        /\ marked' = Unmarked(j.folder, S)
        /\ Answered(t)
    BY <1>24 DEF Expunge, j
  <2>2. \A w \in S : <<j.folder, w>> \in marked
    BY DEF ToExpunge, AllMarked
  <2> HIDE DEF S
  <2>3. Changes({j.folder} \X S)
    BY <1>3, <2>1, Left DEF j
  <2>4. <<f, u>> \notin {j.folder} \X S
    BY <1>4, <2>2
  <2>5. marked' \subseteq marked
    BY <2>1, Unmarks
  <2>6. SafeAt(m, f, u)'
    BY <1>4, <1>8, <1>9, <1>11, <2>1, <2>3, <2>4, <2>5
  <2>7. QED
    BY <2>6
<1>25. QED
  BY <1>20, <1>21, <1>22, <1>23, <1>24 DEF Commands

\* Other clients lose nothing they did not delete.
LEMMA OthersSafe ==
    ASSUME Typed, Numbered, HandedOut, AllSafe, Others
    PROVE  HandedOut' /\ AllSafe'
<1>1. /\ Typed' /\ UNCHANGED <<view, job, astray>> /\ (\E G : Changes(G)) /\ MarksPresent
      /\ condemned \subseteq condemned'
  BY OthersTyped
<1>2. job \in [Tabs -> Job] /\ BoxOK(box) /\ next \in [Folders -> 1 .. (MaxUid + 1)]
  BY DEF Typed
<1>3. \A g \in Folders : next[g] \in Nat /\ next'[g] \in Nat /\ next[g] <= next'[g]
  BY <1>1, ReadingAssumption DEF Typed, Changes
<1>4. \A s \in Tabs : job[s].folder \in Folders /\ \A w \in job[s].uids : w \in Nat
  BY <1>2, JobParts, ReadingAssumption DEF Uid
<1>5. HandedOut'
  <2> SUFFICES ASSUME ~ astray, NEW s \in Tabs, job[s].at = "copied", NEW w \in job[s].uids
               PROVE  w < next'[job[s].folder]
    BY <1>1 DEF HandedOut
  <2>1. w < next[job[s].folder] /\ w \in Nat /\ job[s].folder \in Folders
    BY <1>4 DEF HandedOut
  <2>2. QED
    BY <1>3, <2>1
<1>6. AllSafe'
  <2> SUFFICES ASSUME ~ astray, NEW m \in Messages, m \notin condemned'
               PROVE  \E f \in Folders, u \in Uid : SafeAt(m, f, u)'
    BY <1>1 DEF AllSafe
  <2>1. PICK f \in Folders, u \in Uid : SafeAt(m, f, u)
    BY <1>1 DEF AllSafe
  <2>2. u \in Present(f) /\ box[f][u] = m /\ <<f, u>> \notin marked
    BY <2>1 DEF SafeAt
  <2>3. ASSUME NEW G, Changes(G), <<f, u>> \notin G, <<f, u>> \notin marked'
        PROVE  SafeAt(m, f, u)'
    BY <1>1, <2>1, <2>2, <2>3 DEF Changes, SafeAt, Present
  <2>4. ASSUME NEW g \in Folders, OthersExpunge(g) PROVE SafeAt(m, f, u)'
    <3> DEFINE S == {w \in Present(g) : <<g, w>> \in marked}
    <3>1. box' = Expunged(box, g, S) /\ marked' = Unmarked(g, S) /\ UNCHANGED next
      BY <2>4 DEF OthersExpunge
    <3>2. <<f, u>> \notin {g} \X S
      BY <2>2
    <3> HIDE DEF S
    <3>3. Changes({g} \X S) /\ marked' \subseteq marked
      BY <1>2, <3>1, Left, Unmarks
    <3>4. QED
      BY <2>2, <2>3, <3>2, <3>3
  <2>5. ASSUME NEW g \in Folders, NEW w \in Present(g), OthersMark(g, w) PROVE SafeAt(m, f, u)'
    <3>1. /\ marked' = marked \union {<<g, w>>} /\ condemned' = condemned \union {box[g][w]}
          /\ UNCHANGED <<box, next>>
      BY <2>5 DEF OthersMark
    <3>2. <<f, u>> \notin marked'
      BY <2>2, <3>1
    <3>3. Changes({})
      BY <1>2, <3>1, NoneLeft
    <3>4. QED
      BY <2>3, <3>2, <3>3
  <2>6. ASSUME NEW g \in Folders, NEW w \in Present(g), NEW d \in Folders, OthersMove(g, w, d)
        PROVE  \E h \in Folders, x \in Uid : SafeAt(m, h, x)'
    <3> DEFINE j == [folder |-> g, uids |-> {w}, dest |-> d]
               gone == Expunged(box, g, {w})
    <3>1. /\ Room(j) /\ next' = [next EXCEPT ![d] = @ + 1]
          /\ box' = [gone EXCEPT ![d] = Grown(@, Copied(j))]
          /\ marked' = Unmarked(g, {w})
      BY <2>6 DEF OthersMove
    <3>2. /\ BoxOK(gone)
          /\ \A h \in Folders : h # g => gone[h] = box[h]
          /\ DOMAIN gone[g] = DOMAIN box[g] \ {w}
          /\ \A x \in DOMAIN gone[g] : gone[g][x] = box[g][x]
      BY <1>2, ExpungedIs
    <3>3. Here(j) = {w} /\ 1 = Cardinality(Here(j)) /\ j.folder = g /\ j.dest = d
      <4>1. Here(j) = {w} /\ j.folder = g /\ j.dest = d
        BY DEF Here
      <4>2. QED
        BY <4>1, FS_Singleton
    <3> HIDE DEF gone, j
    <3>4. \A h \in Folders : \A x \in DOMAIN gone[h] : x \in Present(h) /\ gone[h][x] = box[h][x]
      BY <3>2 DEF Present
    <3> DEFINE G == {<<g, w>>}
    <3>5. \A h \in Folders : \A x \in Present(h) : <<h, x>> \in G \/ x \in DOMAIN gone[h]
      BY <3>2 DEF Present
    <3> HIDE DEF G
    <3>6. Changes(G) /\ Lands(j)
      <4>1. PICK n : n = 1
        OBVIOUS
      <4>2. n = Cardinality(Here(j)) /\ j.folder \in Folders /\ j.dest \in Folders
        BY <3>3, <4>1
      <4>3. /\ next' = [next EXCEPT ![j.dest] = @ + n]
            /\ box' = [gone EXCEPT ![j.dest] = Grown(@, Copied(j))]
        BY <3>1, <3>3, <4>1
      <4>4. QED
        BY <1>2, <3>1, <3>2, <3>4, <3>5, <4>2, <4>3, Arrived
    <3>7. marked' \subseteq marked
      BY <3>1, Unmarks
    <3>8. CASE <<f, u>> # <<g, w>>
      <4>1. SafeAt(m, f, u)'
        BY <2>2, <2>3, <3>6, <3>7, <3>8 DEF G
      <4>2. QED
        BY <4>1
    <3>9. CASE f = g /\ u = w
      <4>1. PICK v \in DOMAIN box'[d] : v >= next[d] /\ box'[d][v] = m
        BY <2>2, <3>3, <3>6, <3>9 DEF Lands
      <4>2. v \in Uid /\ v \in Nat
        BY <1>1, <4>1, ReadingAssumption DEF Typed, BoxOK, Uid
      <4>3. <<d, v>> \notin marked
        BY <1>3, <4>1, <4>2 DEF Numbered
      <4>4. \A s \in Tabs : job[s].at = "copied" /\ job[s].folder = d => v \notin job[s].uids
        BY <1>3, <1>4, <4>1, <4>2 DEF HandedOut
      <4>5. SafeAt(m, d, v)'
        BY <1>1, <3>7, <4>1, <4>3, <4>4 DEF SafeAt, Present
      <4>6. QED
        BY <4>2, <4>5
    <3>10. QED
      BY <3>8, <3>9
  <2>7. QED
    BY <2>4, <2>5, <2>6 DEF Others
<1>7. QED
  BY <1>5, <1>6

\* A set in some order: every member has its place.
LEMMA InSomeOrder ==
    ASSUME NEW S, IsFiniteSet(S), NEW q, q = SetToSeq(S)
    PROVE  /\ DOMAIN q = 1 .. Cardinality(S) /\ Cardinality(S) \in Nat
           /\ \A k \in DOMAIN q : q[k] \in S
           /\ \A x \in S : \E k \in DOMAIN q : q[k] = x
<1> DEFINE n == Cardinality(S)
<1>1. n \in Nat /\ ExistsBijection(1 .. n, S)
  BY FS_CardinalityType
<1>2. PICK b : b \in Bijection(1 .. n, S)
  BY <1>1 DEF ExistsBijection
<1>3. b \in [1 .. n -> S] /\ IsInjective(b)
  BY <1>2 DEF Bijection, Injection
<1>4. q = CHOOSE f \in [1 .. n -> S] : IsInjective(f)
  BY DEF SetToSeq
<1>5. q \in [1 .. n -> S] /\ IsInjective(q)
  BY <1>3, <1>4
<1>6. IsFiniteSet(1 .. n) /\ Cardinality(1 .. n) = n
  <2> HIDE DEF n
  <2>1. IsFiniteSet(1 .. n) /\ Cardinality(1 .. n) = IF 1 > n THEN 0 ELSE n - 1 + 1
    BY <1>1, FS_Interval
  <2>2. QED
    BY <1>1, <2>1
<1>7. q \in Injection(1 .. n, S)
  BY <1>5 DEF Injection
<1>8. q \in Surjection(1 .. n, S)
  BY <1>6, <1>7, FS_Injection
<1>9. QED
  BY <1>1, <1>5, <1>8 DEF Surjection

\* What the three properties rest on.
FilingInv == Typed /\ ViewOK(view) /\ Numbered /\ HandedOut /\ AllSafe

LEMMA InitFiling == Init => FilingInv
<1> SUFFICES ASSUME Init PROVE FilingInv
  OBVIOUS
<1> DEFINE n == Cardinality(Messages)
           q == SetToSeq(Messages)
<1>1. /\ DOMAIN q = 1 .. n /\ n \in Nat
      /\ \A k \in DOMAIN q : q[k] \in Messages
      /\ \A x \in Messages : \E k \in DOMAIN q : q[k] = x
  BY InSomeOrder, MessagesAssumption
<1>2. /\ next = [f \in Folders |-> IF f = Inbox THEN n + 1 ELSE 1]
      /\ box = [f \in Folders |-> IF f = Inbox THEN q ELSE << >>]
      /\ marked = {} /\ cap \in {"MOVE", "UIDPLUS", "neither"} /\ view = NewView
      /\ job = [t \in Tabs |-> Idle] /\ condemned = {} /\ mishaps = 0 /\ trouble = FALSE
      /\ astray = FALSE
  BY DEF Init
<1> HIDE DEF q, n
<1>3. n <= MaxUid /\ MaxUid \in Nat \ {0} /\ Inbox \in Folders /\ MaxMishaps \in Nat
  BY MessagesAssumption, ReadingAssumption DEF n
<1>4. 1 .. n \subseteq Uid
  BY <1>1, <1>3 DEF Uid
<1>5. DOMAIN << >> = {}
  OBVIOUS
<1>6. box = [f \in Folders |-> box[f]] /\ box[Inbox] = q /\ \A f \in Folders : f # Inbox => box[f] = << >>
  BY <1>2, <1>3
<1>7. BoxOK(box)
  <2>1. ASSUME NEW f \in Folders
        PROVE  DOMAIN box[f] \subseteq Uid /\ \A u \in DOMAIN box[f] : box[f][u] \in Messages
    <3>1. CASE f = Inbox
      BY <1>1, <1>4, <1>6, <3>1
    <3>2. CASE f # Inbox
      <4>1. DOMAIN box[f] = {}
        BY <1>5, <1>6, <3>2
      <4>2. QED
        BY <4>1
    <3>3. QED
      BY <3>1, <3>2
  <2>2. QED
    BY <1>6, <2>1 DEF BoxOK
<1>8. next \in [Folders -> 1 .. (MaxUid + 1)]
  BY <1>1, <1>2, <1>3
<1>9. Typed
  <2>1. job \in [Tabs -> Job]
    BY <1>2, IdleOK
  <2>2. mishaps \in 0 .. MaxMishaps
    BY <1>2, <1>3
  <2>3. marked \subseteq Folders \X Uid /\ condemned \subseteq Messages
    BY <1>2
  <2>4. QED
    BY <1>2, <1>7, <1>8, <2>1, <2>2, <2>3 DEF Typed
<1>10. Numbered
  <2>1. ASSUME NEW f \in Folders, NEW u \in Present(f) PROVE u < next[f]
    <3>1. f = Inbox
      BY <1>5, <1>6, <2>1 DEF Present
    <3>2. u \in 1 .. n /\ next[f] = n + 1
      BY <1>1, <1>2, <1>6, <2>1, <3>1 DEF Present
    <3>3. QED
      BY <1>1, <3>2
  <2>2. QED
    BY <1>2, <2>1 DEF Numbered
<1>11. \A t \in Tabs : job[t].at = "idle"
  BY <1>2 DEF Idle
<1>12. HandedOut
  BY <1>11 DEF HandedOut
<1>13. AllSafe
  <2> SUFFICES ASSUME NEW m \in Messages PROVE \E f \in Folders, u \in Uid : SafeAt(m, f, u)
    BY DEF AllSafe
  <2>1. PICK u \in DOMAIN q : q[u] = m
    BY <1>1
  <2>2. u \in Uid /\ u \in Present(Inbox) /\ box[Inbox][u] = m
    BY <1>1, <1>4, <1>6, <2>1 DEF Present
  <2>3. SafeAt(m, Inbox, u)
    BY <1>2, <1>11, <2>2 DEF SafeAt
  <2>4. QED
    BY <1>3, <2>2, <2>3
<1>14. ViewOK(view)
  BY <1>2, NewViewOK
<1>15. QED
  BY <1>9, <1>10, <1>12, <1>13, <1>14 DEF FilingInv

LEMMA FilingStep == FilingInv /\ [Next]_vars => FilingInv'
<1> SUFFICES ASSUME FilingInv, [Next]_vars PROVE FilingInv'
  OBVIOUS
<1> USE DEF FilingInv
<1>1. ASSUME Quiet, Typed', ViewOK(view') PROVE FilingInv'
  <2>1. Numbered' /\ HandedOut' /\ AllSafe'
    BY <1>1, QuietSafe
  <2>2. QED
    BY <1>1, <2>1 DEF ViewOK
<1>2. ASSUME NEW t \in Tabs, Request(t) PROVE FilingInv'
  <2>1. CASE \/ Redraw(t) \/ Look(t) \/ Fetch(t) \/ Forget(t)
             \/ ReaderStep(t) \/ Stepped(t) \/ ReaderClose(t)
             \/ TurnList(t) \/ SelectAll(t) \/ Ticked(t) \/ Settle(t)
             \/ \E u \in Named : OpenMessage(t, u) \/ Select(t, u)
             \/ \E f \in Folders : OpenFolder(t, f)
    BY <1>1, <2>1, QuietRequests
  <2>2. CASE Presses(t)
    BY <1>1, <2>2, QuietPress
  <2>3. CASE Fail(t)
    BY <1>1, <2>3, QuietFail
  <2>4. CASE Commands(t)
    <3>1. /\ Typed' /\ UNCHANGED view /\ (\E G : Changes(G)) /\ MarksPresent
      BY <2>4, CommandTyped
    <3>2. Numbered'
      BY <3>1, NumberedStep
    <3>3. HandedOut' /\ AllSafe'
      BY <2>4, CommandHandedOut, CommandSafe
    <3>4. QED
      BY <3>1, <3>2, <3>3 DEF ViewOK
  <2>5. QED
    BY <1>2, <2>1, <2>2, <2>3, <2>4 DEF Request, Commands
<1>3. CASE SignOut
  BY <1>1, <1>3, QuietSignOut
<1>4. CASE Others
  <2>1. /\ Typed' /\ UNCHANGED <<view, job, astray>> /\ (\E G : Changes(G)) /\ MarksPresent
    BY <1>4, OthersTyped
  <2>2. Numbered'
    BY <2>1, NumberedStep
  <2>3. HandedOut' /\ AllSafe'
    BY <1>4, OthersSafe
  <2>4. QED
    BY <2>1, <2>2, <2>3 DEF ViewOK
<1>5. CASE UNCHANGED vars
  <2>1. Quiet
    BY <1>5 DEF vars, Quiet
  <2>2. Typed' /\ ViewOK(view')
    BY <1>5 DEF vars, Typed, BoxOK
  <2>3. QED
    BY <1>1, <2>1, <2>2
<1>6. QED
  BY <1>2, <1>3, <1>4, <1>5 DEF Next

\* The filing invariant holds in every state of every behaviour.
THEOREM FilingInvariant == Spec => []FilingInv
  BY InitFiling, FilingStep, PTL DEF Spec

\* The model has the types it declares.
THEOREM TypeTheorem == Spec => []TypeOK
<1>1. FilingInv => TypeOK
  <2> SUFFICES ASSUME FilingInv PROVE TypeOK
    OBVIOUS
  <2>1. \A f \in Folders : Present(f) \subseteq Uid /\ \A u \in Present(f) : box[f][u] \in Messages
    BY DEF FilingInv, Typed, BoxOK, Present
  <2>2. QED
    BY <2>1 DEF FilingInv, Typed, ViewOK, TypeOK
<1>2. QED
  BY <1>1, FilingInvariant, PTL

\* A move in three commands, broken off or overtaken anywhere, loses no message
\* (MoveMessages).
THEOREM NothingLostTheorem == Spec => []NothingLost
<1>1. FilingInv => NothingLost
  <2> SUFFICES ASSUME FilingInv, ~ astray, NEW m \in Messages, m \notin condemned PROVE m \in Held(box)
    BY DEF NothingLost
  <2>1. PICK f \in Folders, u \in Uid : SafeAt(m, f, u)
    BY DEF FilingInv, AllSafe
  <2>2. u \in DOMAIN box[f] /\ box[f][u] = m
    BY <2>1 DEF SafeAt, Present
  <2>3. m \in {box[f][w] : w \in DOMAIN box[f]}
    BY <2>2
  <2>4. QED
    BY <2>3 DEF Held
<1>2. QED
  BY <1>1, FilingInvariant, PTL

-----------------------------------------------------------------------------
(* The open message: who has yet to look.                                  *)

\* A message that is open and not there is one a request has yet to look at.
WillLook(t) ==
    \/ job[t].at \in {"act", "copied", "marked", "settle", "stepping", "look", "forget"}
    \/ job[t].at = "fetch" /\ job[t].open = view.open /\ job[t].folder = view.folder
OpenSeenTo ==
    ~ trouble => \/ view.open \in {0} \union Present(view.folder)
                 \/ \E t \in Tabs : WillLook(t)

\* Whoever took an open message away, and whoever opened it, has yet to look.
LEMMA LookingStep ==
    ASSUME FilingInv, OpenSeenTo, ~ trouble', NEW t \in Tabs, Request(t)
    PROVE  OpenSeenTo'
<1>1. /\ Typed /\ ViewOK(view) /\ job \in [Tabs -> Job] /\ job[t] \in Job /\ Idle \in Job
      /\ FilingInv'
  BY FilingStep, IdleOK DEF FilingInv, Typed, Next
<1>2. job' \in [Tabs -> Job]
  BY <1>1 DEF FilingInv, Typed
<1>3. /\ job[t].then \in Uid \union {0} /\ view.folder \in Folders
  BY <1>1, JobParts, ViewParts
<1>4. ASSUME WillLook(t)' PROVE OpenSeenTo'
  BY <1>4 DEF OpenSeenTo
<1>5. ASSUME NEW s \in Stage, s \in {"act", "copied", "marked", "settle", "stepping", "look", "forget"},
             job'[t].at = s
      PROVE OpenSeenTo'
  BY <1>4, <1>5 DEF WillLook
<1>6. ASSUME ~ trouble, UNCHANGED <<box, view>>, \A s \in Tabs : s # t => job'[s] = job[s],
             WillLook(t) => WillLook(t)' \/ view.open \in {0} \union Present(view.folder)
      PROVE OpenSeenTo'
  <2>1. \A s \in Tabs : s # t => (WillLook(s) => WillLook(s)')
    BY <1>6 DEF WillLook
  <2>2. QED
    BY <1>6, <2>1 DEF OpenSeenTo, Present
<1>7. ASSUME view'.open = 0 PROVE OpenSeenTo'
  BY <1>7 DEF OpenSeenTo
<1>8. ASSUME Goes(t, [Idle EXCEPT !.at = "look"]) PROVE OpenSeenTo'
  <2>1. [Idle EXCEPT !.at = "look"].at = "look" /\ [Idle EXCEPT !.at = "look"] \in Job
    BY <1>1, JobAt DEF Idle, Stage
  <2>2. job'[t].at = "look"
    BY <1>1, <1>8, <2>1, GoesOK
  <2>3. QED
    BY <2>2, <1>4 DEF WillLook
<1>9. ASSUME Answered(t) PROVE OpenSeenTo'
  BY <1>1, <1>4, <1>9, AnsweredOK DEF WillLook
<1> USE DEF Server, Past
<1>11. CASE Redraw(t)
  BY <1>8, <1>11 DEF Redraw
<1>12. CASE Look(t)
  <2>1. CASE view.open = 0
    BY <1>7, <1>12, <2>1 DEF Look
  <2>2. CASE view.open # 0
    <3> DEFINE j == [job[t] EXCEPT !.at = "fetch", !.folder = view.folder, !.open = view.open]
    <3>0. view.open \in Uid \union {0}
      BY <1>1, ViewParts
    <3>1. j \in Job
      BY <1>1, <1>3, <3>0, JobFetch
    <3>2. j.at = "fetch" /\ j.folder = view.folder /\ j.open = view.open
      BY <1>1 DEF Job
    <3>3. Goes(t, j) /\ UNCHANGED view
      BY <1>12, <2>2 DEF Look
    <3> HIDE DEF j
    <3>4. job'[t] = j
      BY <1>1, <3>1, <3>3, GoesOK
    <3>5. QED
      BY <1>4, <3>2, <3>3, <3>4 DEF WillLook
  <2>3. QED
    BY <2>1, <2>2
<1>13. CASE Fetch(t)
  <2>1. UNCHANGED <<box, view, trouble>>
    BY <1>13 DEF Fetch
  <2>2. CASE job[t].open \in Present(job[t].folder)
    <3>1. Goes(t, Idle) /\ job[t].at = "fetch"
      BY <1>13, <2>2 DEF Fetch, Done, At
    <3>2. \A s \in Tabs : s # t => job'[s] = job[s]
      BY <1>1, <3>1, GoesOK
    <3>3. WillLook(t) => view.open \in {0} \union Present(view.folder)
      BY <2>2, <3>1 DEF WillLook
    <3>4. QED
      BY <1>6, <2>1, <3>2, <3>3
  <2>3. CASE job[t].open \notin Present(job[t].folder)
    <3>1. Goes(t, [Idle EXCEPT !.at = "forget"])
      BY <1>13, <2>3 DEF Fetch
    <3>2. [Idle EXCEPT !.at = "forget"].at = "forget" /\ [Idle EXCEPT !.at = "forget"] \in Job
      BY <1>1, JobAt DEF Idle, Stage
    <3>3. job'[t].at = "forget"
      BY <1>1, <3>1, <3>2, GoesOK
    <3>4. QED
      BY <1>4, <3>3 DEF WillLook
  <2>4. QED
    BY <2>2, <2>3
<1>14. CASE Forget(t)
  <2>1. view'.open = 0
    BY <1>1, <1>14 DEF Forget, ViewOK, View
  <2>2. QED
    BY <1>7, <2>1
<1>15. CASE ReaderStep(t)
  <2>1. PICK step \in {Above(Present(view.folder), view.open), Below(Present(view.folder), view.open)} :
         Goes(t, [Idle EXCEPT !.at = IF step = 0 THEN "look" ELSE "stepping", !.then = step])
    BY <1>15 DEF ReaderStep
  <2> DEFINE s == IF step = 0 THEN "look" ELSE "stepping"
  <2>2. job'[t].at = s
    <3>1. job' = [job EXCEPT ![t] = [Idle EXCEPT !.at = s, !.then = step]]
      BY <2>1 DEF Goes
    <3> HIDE DEF s
    <3>2. QED
      BY <1>1, <3>1 DEF Idle
  <2>3. QED
    BY <1>4, <2>2 DEF WillLook
<1>16. CASE Stepped(t)
  BY <1>8, <1>16 DEF Stepped
<1>17. CASE ReaderClose(t)
  <2>1. view'.open = 0
    BY <1>1, <1>17 DEF ReaderClose, ViewOK, View
  <2>2. QED
    BY <1>7, <2>1
<1>18. CASE TurnList(t)
  <2>1. view'.open = 0
    BY <1>1, <1>18 DEF TurnList, ViewOK, View
  <2>2. QED
    BY <1>7, <2>1
<1>19. CASE SelectAll(t)
  <2> DEFINE j == [Idle EXCEPT !.at = "ticking", !.uids = Present(view.folder)]
  <2>1. UNCHANGED <<box, view, trouble>> /\ job[t].at = "idle" /\ job' = [job EXCEPT ![t] = j]
    BY <1>19 DEF SelectAll, Asks, Busy, Goes
  <2> HIDE DEF j
  <2>2. (\A s \in Tabs : s # t => job'[s] = job[s]) /\ ~ WillLook(t)
    BY <1>1, <2>1 DEF WillLook
  <2>3. QED
    BY <1>6, <2>1, <2>2
<1>20. CASE Ticked(t)
  <2>1. UNCHANGED <<box, trouble>> /\ job[t].at = "ticking" /\ Goes(t, Idle)
    BY <1>20 DEF Ticked, At, Done
  <2>2. PICK S : view' = [view EXCEPT !.ticked = S]
    BY <1>20 DEF Ticked
  <2>3. view'.open = view.open /\ view'.folder = view.folder
    BY <1>1, <2>2 DEF ViewOK, View
  <2>4. (\A s \in Tabs : s # t => job'[s] = job[s]) /\ ~ WillLook(t)
    BY <1>1, <2>1, GoesOK DEF WillLook
  <2>5. \A s \in Tabs : s # t => (WillLook(s) => WillLook(s)')
    BY <2>3, <2>4 DEF WillLook
  <2>6. QED
    BY <2>1, <2>3, <2>4, <2>5 DEF OpenSeenTo, Present
<1>21. CASE Settle(t)
  BY <1>8, <1>21 DEF Settle
<1>22. ASSUME NEW u \in Named, OpenMessage(t, u) PROVE OpenSeenTo'
  BY <1>8, <1>22 DEF OpenMessage
<1>23. ASSUME NEW u \in Named, Select(t, u) PROVE OpenSeenTo'
  <2>1. UNCHANGED <<box, trouble, job>> /\ view' = selectUID(view, u, u \notin view.ticked)
    BY <1>23 DEF Select
  <2>2. u \in Uid
    <3>1. next[view.folder] \in 1 .. (MaxUid + 1)
      BY <1>1, <1>3 DEF Typed
    <3>2. QED
      BY <3>1, ReadingAssumption DEF Named, Uid
  <2>3. view'.open = view.open /\ view'.folder = view.folder
    BY <1>1, <2>1, <2>2, SelectedOK
  <2>4. \A s \in Tabs : WillLook(s) => WillLook(s)'
    BY <2>1, <2>3 DEF WillLook
  <2>5. QED
    BY <2>1, <2>3, <2>4 DEF OpenSeenTo, Present
<1>24. ASSUME NEW f \in Folders, OpenFolder(t, f) PROVE OpenSeenTo'
  <2>1. UNCHANGED <<box, trouble, job>> /\ view' = setFolder(view, f)
    BY <1>24 DEF OpenFolder
  <2>2. CASE view' = view
    <3>1. \A s \in Tabs : WillLook(s) => WillLook(s)'
      BY <2>1, <2>2 DEF WillLook
    <3>2. QED
      BY <2>1, <2>2, <3>1 DEF OpenSeenTo, Present
  <2>3. CASE view'.open = 0
    BY <1>7, <2>3
  <2>4. QED
    BY <1>1, <2>1, <2>2, <2>3, FolderOK
<1>25. CASE DeleteInTrash(t) \/ Move(t) \/ Expunge(t)
  BY <1>9, <1>25 DEF DeleteInTrash, Move, Expunge
<1>26. CASE Copy(t)
  <2>1. job' = [job EXCEPT ![t] = [job[t] EXCEPT !.at = "copied", !.dest = Inbox]]
    BY <1>26 DEF Copy, Goes
  <2>2. job'[t].at = "copied"
    BY <1>1, <2>1 DEF Job
  <2>3. QED
    BY <1>4, <2>2 DEF WillLook
<1>27. CASE Mark(t)
  <2>1. job' = [job EXCEPT ![t] = [job[t] EXCEPT !.at = "marked"]]
    BY <1>27 DEF Mark, Now, Goes
  <2>2. job'[t].at = "marked"
    BY <1>1, <2>1 DEF Job
  <2>3. QED
    BY <1>4, <2>2 DEF WillLook
<1>28. CASE Fail(t)
  BY <1>28 DEF Fail
<1>29. CASE Presses(t)
  <2>1. PICK scope, posted, verb, dest : Press(t, scope, posted, verb, dest)
    BY <1>29 DEF Presses
  <2> DEFINE does == Does(verb, view.folder, dest)
             uids == selectedUIDs(scope, posted, view)
             s == IF does = "flag" THEN "settle" ELSE "act"
             d == IF does = "move" THEN dest ELSE Inbox
             f == IF does = "flag" THEN Inbox ELSE view.folder
             U == IF verb = "keep" THEN {} ELSE uids
             u == IF messageLeavesFolder(verb) /\ view.open \in uids
                  THEN successorAfter(Present(view.folder), view.open, uids) ELSE 0
             c == verb # "keep"
             k == scope # "open"
  <2>2. job' = [job EXCEPT ![t] =
           [Idle EXCEPT !.at = s, !.does = does, !.dest = d, !.folder = f, !.uids = U,
                        !.then = u, !.closes = c, !.ticks = k]]
    BY <2>1, Zenon DEF Press, Goes
  <2>3. s \in {"settle", "act"}
    OBVIOUS
  <2> HIDE DEF s, does, d, f, U, u, c, k, uids
  <2>4. job'[t].at = s
    BY <1>1, <2>2 DEF Idle
  <2>5. QED
    BY <1>4, <2>3, <2>4 DEF WillLook
<1> HIDE DEF Server, Past
<1>30. QED
  BY <1>11, <1>12, <1>13, <1>14, <1>15, <1>16, <1>17, <1>18, <1>19, <1>20, <1>21, <1>22, <1>23,
     <1>24, <1>25, <1>26, <1>27, <1>28, <1>29 DEF Request

LEMMA OpenSeenToStep == FilingInv /\ OpenSeenTo /\ [Next]_vars => OpenSeenTo'
<1> SUFFICES ASSUME FilingInv, OpenSeenTo, [Next]_vars, ~ trouble' PROVE OpenSeenTo'
  BY DEF OpenSeenTo
<1>1. ASSUME NEW t \in Tabs, Request(t) PROVE OpenSeenTo'
  BY <1>1, LookingStep
<1>2. CASE SignOut
  BY <1>2 DEF SignOut, NewView, OpenSeenTo
<1>3. CASE Others
  <2>1. ASSUME NEW f \in Folders, NEW u \in Present(f), OthersMark(f, u) PROVE OpenSeenTo'
    <3>1. UNCHANGED <<box, view, job, trouble>>
      BY <2>1 DEF OthersMark
    <3>2. QED
      BY <3>1 DEF OpenSeenTo, WillLook, Present
  <2>2. \A f \in Folders : ~ OthersExpunge(f)
    BY DEF OthersExpunge
  <2>3. \A f \in Folders : \A u \in Present(f) : \A g \in Folders : ~ OthersMove(f, u, g)
    BY DEF OthersMove
  <2>4. QED
    BY <1>3, <2>1, <2>2, <2>3 DEF Others
<1>4. CASE UNCHANGED vars
  BY <1>4 DEF vars, OpenSeenTo, WillLook, Present
<1>5. QED
  BY <1>1, <1>2, <1>3, <1>4 DEF Next

LEMMA InitOpenSeenTo == Init => OpenSeenTo
  BY DEF Init, NewView, OpenSeenTo

\* At rest the open message is one its folder has (handleMessageAction,
\* renderReader).
THEOREM OpenIsThereTheorem == Spec => []OpenIsThere
<1>1. OpenSeenTo => OpenIsThere
  BY DEF OpenSeenTo, OpenIsThere, WillLook
<1>2. QED
  BY <1>1, InitOpenSeenTo, OpenSeenToStep, FilingInvariant, PTL DEF Spec

\* The name of KeepsItsMeaning's step.
SameStill(u) ==
    u < next[view.folder] /\ u \in DOMAIN box'[view'.folder]
      => u \in Present(view.folder) /\ box'[view'.folder][u] = box[view.folder][u]
MeaningKept ==
    /\ \A u \in view.ticked \intersect view'.ticked : SameStill(u)
    /\ view.open # 0 /\ view'.open = view.open => SameStill(view.open)

\* While the folder stays, its UIDs keep their meaning.
LEMMA SameFolder ==
    ASSUME Typed, view.folder \in Folders, view'.folder = view.folder,
           (\E G : Changes(G)) \/ UNCHANGED box, NEW u \in Uid
    PROVE  SameStill(u)
<1> SUFFICES ASSUME u < next[view.folder], u \in DOMAIN box'[view.folder]
             PROVE  u \in Present(view.folder) /\ box'[view.folder][u] = box[view.folder][u]
  BY DEF SameStill
<1>1. CASE UNCHANGED box
  BY <1>1 DEF Present
<1>2. ASSUME NEW G, Changes(G)
      PROVE  u \in Present(view.folder) /\ box'[view.folder][u] = box[view.folder][u]
  <2>1. u \in Nat /\ next[view.folder] \in Nat
    BY ReadingAssumption DEF Typed, Uid
  <2>2. ~ (next[view.folder] <= u)
    BY <2>1
  <2>3. QED
    BY <1>2, <2>2 DEF Changes
<1>3. QED
  BY <1>1, <1>2

LEMMA MeaningStep == FilingInv /\ [Next]_vars => MeaningKept
<1> SUFFICES ASSUME FilingInv, [Next]_vars PROVE MeaningKept
  OBVIOUS
<1>1. /\ Typed /\ ViewOK(view) /\ view.folder \in Folders /\ view.ticked \in SUBSET Uid
      /\ view.open \in Uid \union {0} /\ job \in [Tabs -> Job]
  BY ViewParts DEF FilingInv, Typed
<1>2. ASSUME view'.folder = view.folder, (\E G : Changes(G)) \/ UNCHANGED box
      PROVE  MeaningKept
  BY <1>1, <1>2, SameFolder DEF MeaningKept
<1>3. ASSUME view'.open = 0, view'.ticked = {} PROVE MeaningKept
  BY <1>3 DEF MeaningKept
<1>4. ASSUME UNCHANGED <<box, view>> PROVE MeaningKept
  BY <1>2, <1>4
<1> USE DEF Server, Past
<1>5. ASSUME NEW t \in Tabs, Request(t) PROVE MeaningKept
  <2>1. CASE Redraw(t) \/ Look(t) \/ Fetch(t) \/ ReaderStep(t) \/ SelectAll(t) \/ Fail(t) \/ Presses(t)
    BY <1>4, <2>1 DEF Redraw, Look, Fetch, ReaderStep, SelectAll, Fail, Presses, Press
  <2>2. CASE Commands(t)
    BY <1>1, <1>2, <2>2, CommandTyped DEF FilingInv
  <2>3. CASE Forget(t) \/ Stepped(t) \/ ReaderClose(t)
    <3>1. PICK u : view' = [view EXCEPT !.open = u] /\ UNCHANGED box
      BY <2>3 DEF Forget, Stepped, ReaderClose
    <3>2. view'.folder = view.folder
      BY <1>1, <3>1 DEF ViewOK, View
    <3>3. QED
      BY <1>2, <3>1, <3>2
  <2>4. CASE TurnList(t)
    <3>1. view'.open = 0 /\ view'.ticked = {}
      BY <1>1, <2>4 DEF TurnList, ViewOK, View
    <3>2. QED
      BY <1>3, <3>1
  <2>5. CASE Ticked(t)
    <3>1. PICK S : view' = [view EXCEPT !.ticked = S]
      BY <2>5 DEF Ticked
    <3>2. view'.folder = view.folder /\ UNCHANGED box
      BY <1>1, <2>5, <3>1 DEF Ticked, ViewOK, View
    <3>3. QED
      BY <1>2, <3>2
  <2>6. CASE Settle(t)
    <3>1. view' = Settled(view, job[t]) /\ UNCHANGED box
      BY <2>6 DEF Settle
    <3>2. view'.folder = view.folder
      BY <1>1, <3>1, SettledOK
    <3>3. QED
      BY <1>2, <3>1, <3>2
  <2>7. ASSUME NEW u \in Named, OpenMessage(t, u) PROVE MeaningKept
    <3>1. view' = [view EXCEPT !.open = u] /\ UNCHANGED box
      BY <2>7 DEF OpenMessage
    <3>2. view'.folder = view.folder
      BY <1>1, <3>1 DEF ViewOK, View
    <3>3. QED
      BY <1>2, <3>1, <3>2
  <2>8. ASSUME NEW u \in Named, Select(t, u) PROVE MeaningKept
    <3>1. view' = selectUID(view, u, u \notin view.ticked) /\ UNCHANGED box
      BY <2>8 DEF Select
    <3>2. u \in Uid
      <4>1. next[view.folder] \in 1 .. (MaxUid + 1)
        BY <1>1 DEF Typed
      <4>2. QED
        BY <4>1, ReadingAssumption DEF Named, Uid
    <3>3. view'.folder = view.folder
      BY <1>1, <3>1, <3>2, SelectedOK
    <3>4. QED
      BY <1>2, <3>1, <3>3
  <2>9. ASSUME NEW f \in Folders, OpenFolder(t, f) PROVE MeaningKept
    <3>1. view' = setFolder(view, f) /\ UNCHANGED box
      BY <2>9 DEF OpenFolder
    <3>2. CASE view' = view
      BY <1>4, <3>1, <3>2
    <3>3. CASE view'.open = 0 /\ view'.ticked = {}
      BY <1>3, <3>3
    <3>4. QED
      BY <1>1, <3>1, <3>2, <3>3, FolderOK
  <2>10. QED
    BY <1>5, <2>1, <2>2, <2>3, <2>4, <2>5, <2>6, <2>7, <2>8, <2>9 DEF Request, Commands
<1>6. CASE SignOut
  BY <1>3, <1>6 DEF SignOut, NewView
<1>7. CASE Others
  BY <1>1, <1>2, <1>7, OthersTyped DEF FilingInv
<1>8. CASE UNCHANGED vars
  BY <1>4, <1>8 DEF vars
<1> HIDE DEF Server, Past
<1>9. QED
  BY <1>5, <1>6, <1>7, <1>8 DEF Next

\* A UID that stays ticked or open goes on naming what it named (setFolder).
THEOREM MeaningTheorem == Spec => KeepsItsMeaning
<1>1. FilingInv /\ [Next]_vars => [MeaningKept]_vars
  BY MeaningStep
<1>2. [MeaningKept]_vars => [LET same(u) == u < next[view.folder] /\ u \in DOMAIN box'[view'.folder]
                        => /\ u \in Present(view.folder)
                           /\ box'[view'.folder][u] = box[view.folder][u]
       IN  /\ \A u \in view.ticked \intersect view'.ticked : same(u)
           /\ view.open # 0 /\ view'.open = view.open => same(view.open)]_vars
  BY DEF MeaningKept, SameStill
<1>3. QED
  BY <1>1, <1>2, FilingInvariant, PTL DEF Spec, KeepsItsMeaning
=============================================================================
