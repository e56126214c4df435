------------------------- MODULE ThrottleDraftsProofs ------------------------
(***************************************************************************)
(* Proofs about LoginThrottle, for every set of attempts, addresses and    *)
(* names, and whatever the rules of the configuration file are; and about  *)
(* Drafts, for every set of composers and requests and every bound.        *)
(***************************************************************************)
EXTENDS LoginThrottle, Drafts, FiniteSetTheorems, WellFoundedInduction, TLAPS

(* LoginThrottle.                                                          *)

\* TypeOK, and whom an attempt past its form is from.
Typed ==
    /\ TypeOK
    /\ \A p \in Attempts :
          pc[p] # "idle" => ip[p] \in IPs /\ name[p] \in Names

LEMMA TypeStep == Typed /\ [Next]_vars => Typed'
<1> SUFFICES ASSUME Typed, [Next]_vars PROVE Typed'
  OBVIOUS
<1> USE RuleAssumption, NoOneAssumption DEF Typed, TypeOK, PC, Times, Untils,
    RowIds, At, Goto, tables, attempts, history
<1>1. ASSUME NEW p \in Attempts, NEW i \in IPs, NEW n \in Names, Check(p, i, n)
    PROVE Typed'
  BY <1>1 DEF Check
<1>2. ASSUME NEW p \in Attempts, Purge(p) PROVE Typed'
  BY <1>2 DEF Purge
<1>3. ASSUME NEW p \in Attempts, Deny(p) PROVE Typed'
  <2>1. CASE Leave(p)
    BY <2>1, <1>3 DEF Deny, Leave
  <2>2. CASE Goto(p, "log") /\ UNCHANGED <<ip, name, t0, until, mine, todo>>
    BY <2>2, <1>3 DEF Deny
  <2>3. QED
    BY <2>1, <2>2, <1>3, Zenon DEF Deny
<1>4. ASSUME NEW p \in Attempts, Log(p) PROVE Typed'
  BY <1>4 DEF Log, Leave
<1>5. ASSUME NEW p \in Attempts, NotCounted(p) PROVE Typed'
  BY <1>5 DEF NotCounted, Leave
<1>6. ASSUME NEW p \in Attempts, Succeed(p) PROVE Typed'
  BY <1>6 DEF Succeed, Leave
<1>7. ASSUME NEW p \in Attempts, Fail(p) PROVE Typed'
  BY <1>7 DEF Fail
<1>8. ASSUME NEW p \in Attempts, Insert(p) PROVE Typed'
  BY <1>8 DEF Insert, Row
<1>9. ASSUME NEW p \in Attempts, CountIP(p) PROVE Typed'
  BY <1>9 DEF CountIP
<1>10. ASSUME NEW p \in Attempts, BlockIP(p) PROVE Typed'
  BY <1>10 DEF BlockIP, Write, Extended
<1>11. ASSUME NEW p \in Attempts, CountName(p) PROVE Typed'
  <2>1. CASE Leave(p)
    BY <2>1, <1>11 DEF CountName, Leave
  <2>2. CASE Goto(p, "listName") /\ UNCHANGED <<ip, name, t0, until, mine, todo>>
    BY <2>2, <1>11 DEF CountName
  <2>3. QED
    BY <2>1, <2>2, <1>11, Zenon DEF CountName
<1>12. ASSUME NEW p \in Attempts, ListName(p) PROVE Typed'
  BY <1>12 DEF ListName, Everyone, AddressesIn, FailuresFor, InWindow, Row
<1>13. ASSUME NEW p \in Attempts, BlockName(p) PROVE Typed'
  BY SMTT(30), <1>13 DEF BlockName, Write, Extended, Leave
<1>14. ASSUME NEW p \in Attempts, Broken(p) PROVE Typed'
  BY SMTT(30), <1>14 DEF Broken, Leave
<1>15. CASE SweepFailures
  BY <1>15 DEF SweepFailures
<1>16. ASSUME NEW i \in IPs, Unblock(i) PROVE Typed'
  BY <1>16 DEF Unblock
<1>17. CASE Tick
  BY <1>17 DEF Tick
<1>18. CASE UNCHANGED vars
  BY <1>18 DEF vars
<1>19. QED
  BY <1>1, <1>2, <1>3, <1>4, <1>5, <1>6, <1>7, <1>8, <1>9, <1>10, <1>11, <1>12,
      <1>13, <1>14, <1>15, <1>16, <1>17, <1>18 DEF Next, Attempt

LEMMA StandsStep ==
    Typed /\ BlockStandsUnlessRaced /\ [Next]_vars => BlockStandsUnlessRaced'
<1> SUFFICES ASSUME Typed /\ BlockStandsUnlessRaced, [Next]_vars PROVE BlockStandsUnlessRaced'
  OBVIOUS
<1> USE RuleAssumption DEF Typed, TypeOK, Times, Untils, BlockStandsUnlessRaced,
    tables, attempts, history
<1>1. ASSUME NEW p \in Attempts, NEW i \in IPs, NEW n \in Names, Check(p, i, n)
    PROVE BlockStandsUnlessRaced'
  BY <1>1 DEF Check
<1>2. ASSUME NEW p \in Attempts, Purge(p) PROVE BlockStandsUnlessRaced'
  BY <1>2 DEF Purge
<1>3. ASSUME NEW p \in Attempts, Deny(p) PROVE BlockStandsUnlessRaced'
  BY <1>3 DEF Deny, Leave
<1>4. ASSUME NEW p \in Attempts, Log(p) PROVE BlockStandsUnlessRaced'
  BY <1>4 DEF Log, Leave
<1>5. ASSUME NEW p \in Attempts, NotCounted(p) PROVE BlockStandsUnlessRaced'
  BY <1>5 DEF NotCounted, Leave
<1>6. ASSUME NEW p \in Attempts, Succeed(p) PROVE BlockStandsUnlessRaced'
  BY <1>6 DEF Succeed, Leave
<1>7. ASSUME NEW p \in Attempts, Fail(p) PROVE BlockStandsUnlessRaced'
  BY <1>7 DEF Fail
<1>8. ASSUME NEW p \in Attempts, Insert(p) PROVE BlockStandsUnlessRaced'
  BY <1>8 DEF Insert, Row
<1>9. ASSUME NEW p \in Attempts, CountIP(p) PROVE BlockStandsUnlessRaced'
  BY <1>9 DEF CountIP
<1>10. ASSUME NEW p \in Attempts, BlockIP(p) PROVE BlockStandsUnlessRaced'
  BY <1>10 DEF BlockIP, Write, Extended
<1>11. ASSUME NEW p \in Attempts, CountName(p) PROVE BlockStandsUnlessRaced'
  BY <1>11 DEF CountName, Leave
<1>12. ASSUME NEW p \in Attempts, ListName(p) PROVE BlockStandsUnlessRaced'
  BY <1>12 DEF ListName, Everyone, AddressesIn, FailuresFor, InWindow, Row
<1>13. ASSUME NEW p \in Attempts, BlockName(p) PROVE BlockStandsUnlessRaced'
  BY <1>13 DEF BlockName, Write, Extended, Leave
<1>14. ASSUME NEW p \in Attempts, Broken(p) PROVE BlockStandsUnlessRaced'
  BY <1>14 DEF Broken, Leave
<1>15. CASE SweepFailures
  BY <1>15 DEF SweepFailures
<1>16. ASSUME NEW i \in IPs, Unblock(i) PROVE BlockStandsUnlessRaced'
  BY <1>16 DEF Unblock
<1>17. CASE Tick
  BY <1>17 DEF Tick
<1>18. CASE UNCHANGED vars
  BY <1>18 DEF vars
<1>19. QED
  BY <1>1, <1>2, <1>3, <1>4, <1>5, <1>6, <1>7, <1>8, <1>9, <1>10, <1>11, <1>12,
      <1>13, <1>14, <1>15, <1>16, <1>17, <1>18 DEF Next, Attempt

IInv == Typed /\ BlockStandsUnlessRaced

LEMMA InitIInv == Init => IInv
  BY RuleAssumption
  DEF Init, IInv, Typed, TypeOK, PC, Times, Untils, RowIds, Row, BlockStandsUnlessRaced

LEMMA IInvStep == IInv /\ [Next]_vars => IInv'
  BY TypeStep, StandsStep DEF IInv

\* The invariant holds in every state of every behaviour.
THEOREM ThrottleInvariant == Spec => []IInv
  BY InitIInv, IInvStep, PTL DEF Spec

-----------------------------------------------------------------------------

\* The variables keep their types.
THEOREM ThrottleTypes == Spec => []TypeOK
<1>1. IInv => TypeOK
  BY DEF IInv, Typed
<1> QED
  BY <1>1, ThrottleInvariant, PTL

\* A block stands as long as it was written for, however the statements of
\* attempts interleave and fail, but for the DELETE of blockedUntil that comes
\* after a new block took the place of the expired one.
THEOREM StandsTheorem == Spec => []BlockStandsUnlessRaced
<1>1. IInv => BlockStandsUnlessRaced
  BY DEF IInv
<1> QED
  BY <1>1, ThrottleInvariant, PTL

-----------------------------------------------------------------------------
(* The limits.  An attempt counts for its address, then for its name, then *)
(* lists the addresses the name was tried from and refuses each.           *)

Counting == {"countIP", "blockIP"}
Listing  == Counting \cup {"countName", "listName"}

\* No row is newer than the last id given, and an attempt that is recording
\* knows its row, and when it was taken.
RowsKnown ==
    /\ IsFiniteSet(failures)
    /\ \A f \in failures : f.id <= seq
    /\ \A p \in Attempts :
          /\ mine[p] <= seq
          /\ pc[p] = "blockIP" => until[p] = t0[p] + IPBlock
          /\ pc[p] \in Listing \cup {"blockName"} =>
                \A f \in failures :
                   f.id = mine[p] => f.ip = ip[p] /\ f.name = name[p] /\ f.at = t0[p]

\* The failures that have been counted for their address, and those that were
\* for their name.
Counted == {f \in failures : \A p \in Attempts : mine[p] = f.id => pc[p] \notin Counting}
Listed  == {f \in failures : \A p \in Attempts : mine[p] = f.id => pc[p] \notin Listing}

Fires(S) == Cardinality(S) >= NameLimit /\ Cardinality(AddressesIn(S)) > 1

\* One that made up the limit had its address refused for a whole block;
AddressesRefused ==
    \A f \in Counted :
       Cardinality(FromSame(f)) >= IPLimit => promised[f.ip] >= f.at + IPBlock

\* one that made up the limit of its name had every address that tried it, or
\* the attempt that recorded it is about to see to it.
SeenTo(i, f) ==
    \E p \in Attempts :
       pc[p] = "blockName" /\ mine[p] = f.id /\ i \in todo[p] /\ until[p] >= f.at + NameBlock
NamesRefused ==
    \A f \in Listed :
       Fires(ForSame(f)) =>
          \A i \in AddressesIn(ForSame(f)) : promised[i] >= f.at + NameBlock \/ SeenTo(i, f)

LimitsInv == RowsKnown /\ (faults = 0 => AddressesRefused /\ NamesRefused)

LEMMA SubsetFires ==
    ASSUME NEW T, IsFiniteSet(T), NEW S \in SUBSET T, Fires(S)
    PROVE  Fires(T)
<1> DEFINE f == [r \in T |-> r.ip]
<1>1. f \in Surjection(T, AddressesIn(T))
  BY Zenon DEF Surjection, AddressesIn
<1>2. IsFiniteSet(AddressesIn(T))
  BY <1>1, FS_Surjection, Zenon
<1>3. AddressesIn(S) \in SUBSET AddressesIn(T)
  BY DEF AddressesIn
<1> HIDE DEF f
<1>4. Cardinality(S) <= Cardinality(T) /\ IsFiniteSet(S)
  BY FS_Subset, Zenon
<1>5. Cardinality(AddressesIn(S)) <= Cardinality(AddressesIn(T)) /\ IsFiniteSet(AddressesIn(S))
  BY <1>2, <1>3, FS_Subset, Zenon
<1>6. /\ Cardinality(S) \in Nat /\ Cardinality(T) \in Nat
      /\ Cardinality(AddressesIn(S)) \in Nat /\ Cardinality(AddressesIn(T)) \in Nat
  BY <1>2, <1>4, <1>5, FS_CardinalityType, Zenon
<1>7. QED
  BY <1>4, <1>5, <1>6, RuleAssumption DEF Fires

LEMMA SubsetCounts ==
    ASSUME NEW T, IsFiniteSet(T), NEW S \in SUBSET T, NEW n \in Nat, Cardinality(S) >= n
    PROVE  Cardinality(T) >= n
<1>1. Cardinality(S) <= Cardinality(T) /\ IsFiniteSet(S)
  BY FS_Subset, Zenon
<1>2. Cardinality(S) \in Nat /\ Cardinality(T) \in Nat
  BY <1>1, FS_CardinalityType, Zenon
<1>3. QED
  BY <1>1, <1>2

LEMMA RowsKnownStep == Typed /\ RowsKnown /\ [Next]_vars => RowsKnown'
<1> SUFFICES ASSUME Typed, RowsKnown, [Next]_vars PROVE RowsKnown'
  OBVIOUS
<1> USE RuleAssumption DEF Typed, TypeOK, Times, RowIds, Row, At, Goto, tables, attempts, history,
    Counting, Listing
<1>f. \A S \in SUBSET failures : IsFiniteSet(S)
  BY FS_Subset, Zenon DEF RowsKnown
<1>r. /\ \A f \in failures : f.id \in Nat /\ f.id # 0
      /\ seq \in Nat /\ \A q \in Attempts : mine[q] \in Nat
  OBVIOUS
<1>s. ASSUME failures' \in SUBSET failures PROVE IsFiniteSet(failures')
  BY <1>s, <1>f, Zenon
<1>1. ASSUME NEW p \in Attempts, NEW i \in IPs, NEW n \in Names, Check(p, i, n)
    PROVE RowsKnown'
  BY <1>1 DEF Check, RowsKnown
<1>2. ASSUME NEW p \in Attempts, Purge(p) PROVE RowsKnown'
  BY <1>2 DEF Purge, RowsKnown
<1>3. ASSUME NEW p \in Attempts, Deny(p) PROVE RowsKnown'
  BY <1>3 DEF Deny, Leave, RowsKnown
<1>4. ASSUME NEW p \in Attempts, Log(p) PROVE RowsKnown'
  BY <1>4 DEF Log, Leave, RowsKnown
<1>5. ASSUME NEW p \in Attempts, NotCounted(p) PROVE RowsKnown'
  BY <1>5 DEF NotCounted, Leave, RowsKnown
<1>6. ASSUME NEW p \in Attempts, Succeed(p) PROVE RowsKnown'
  BY <1>6, <1>s DEF Succeed, Leave, RowsKnown
<1>7. ASSUME NEW p \in Attempts, Fail(p) PROVE RowsKnown'
  BY <1>7 DEF Fail, RowsKnown
<1>8. ASSUME NEW p \in Attempts, Insert(p) PROVE RowsKnown'
  <2> DEFINE row == [id |-> seq + 1, ip |-> ip[p], name |-> name[p], at |-> t0[p]]
  <2>1. /\ failures' = failures \cup {row} /\ seq' = seq + 1
        /\ mine' = [mine EXCEPT ![p] = seq + 1]
        /\ pc' = [pc EXCEPT ![p] = "countIP"] /\ UNCHANGED <<ip, name, t0, until>>
    BY <1>8 DEF Insert
  <2>2. IsFiniteSet(failures')
    BY <2>1, FS_AddElement, Zenon DEF RowsKnown
  <2>3. row.id = seq + 1 /\ row.ip = ip[p] /\ row.name = name[p] /\ row.at = t0[p]
    OBVIOUS
  <2> HIDE DEF row
  <2>4. \A f \in failures' : f.id <= seq'
    BY <2>1, <2>3, <1>r DEF RowsKnown
  <2>5. \A q \in Attempts : mine'[q] <= seq'
    BY <2>1, <1>r DEF RowsKnown
  <2>6. \A q \in Attempts : pc'[q] = "blockIP" => until'[q] = t0'[q] + IPBlock
    BY <2>1 DEF RowsKnown
  <2>7. ASSUME NEW q \in Attempts, pc'[q] \in Listing \cup {"blockName"},
               NEW f \in failures', f.id = mine'[q]
        PROVE  f.ip = ip'[q] /\ f.name = name'[q] /\ f.at = t0'[q]
    <3>1. CASE q = p /\ f \in failures
      BY <2>1, <2>7, <3>1, <1>r DEF RowsKnown
    <3>2. CASE q = p /\ f = row
      BY <2>1, <2>3, <3>2
    <3>3. CASE q # p /\ f \in failures
      BY <2>1, <2>7, <3>3 DEF RowsKnown
    <3>4. CASE q # p /\ f = row
      BY <2>1, <2>3, <2>7, <3>4, <1>r DEF RowsKnown
    <3>5. QED
      BY <2>1, <3>1, <3>2, <3>3, <3>4
  <2>8. QED
    BY <2>2, <2>4, <2>5, <2>6, <2>7 DEF RowsKnown
<1>9. ASSUME NEW p \in Attempts, CountIP(p) PROVE RowsKnown'
  BY <1>9 DEF CountIP, RowsKnown
<1>10. ASSUME NEW p \in Attempts, BlockIP(p) PROVE RowsKnown'
  BY <1>10 DEF BlockIP, RowsKnown
<1>11. ASSUME NEW p \in Attempts, CountName(p) PROVE RowsKnown'
  <2>1. CASE Leave(p)
    BY <2>1, <1>11 DEF CountName, Leave, RowsKnown
  <2>2. CASE Goto(p, "listName") /\ UNCHANGED <<ip, name, t0, until, mine, todo>>
    BY <2>2, <1>11 DEF CountName, RowsKnown
  <2>3. QED
    BY <2>1, <2>2, <1>11, Zenon DEF CountName
<1>12. ASSUME NEW p \in Attempts, ListName(p) PROVE RowsKnown'
  BY <1>12 DEF ListName, RowsKnown
<1>13. ASSUME NEW p \in Attempts, BlockName(p) PROVE RowsKnown'
  BY SMTT(30), <1>13 DEF BlockName, Leave, RowsKnown
<1>14. ASSUME NEW p \in Attempts, Broken(p) PROVE RowsKnown'
  BY SMTT(30), <1>14 DEF Broken, Leave, RowsKnown
<1>15. CASE SweepFailures
  BY <1>15, <1>s DEF SweepFailures, RowsKnown
<1>16. ASSUME NEW i \in IPs, Unblock(i) PROVE RowsKnown'
  BY <1>16, <1>s DEF Unblock, RowsKnown
<1>17. CASE Tick
  BY <1>17 DEF Tick, RowsKnown
<1>18. CASE UNCHANGED vars
  BY <1>18 DEF vars, RowsKnown
<1>19. QED
  BY <1>1, <1>2, <1>3, <1>4, <1>5, <1>6, <1>7, <1>8, <1>9, <1>10, <1>11, <1>12,
      <1>13, <1>14, <1>15, <1>16, <1>17, <1>18 DEF Next, Attempt

\* A row taken later is among no row's own: those it was counted with can only
\* become fewer.
LEMMA FewerCounted ==
    ASSUME Typed, RowsKnown, Typed',
           \A g \in failures' : g \in failures \/ g.id > seq,
           NEW f \in failures
    PROVE  FromSame(f)' \in SUBSET FromSame(f) /\ ForSame(f)' \in SUBSET ForSame(f)
<1>1. f.id \in Nat /\ f.id <= seq /\ seq \in Nat
  BY DEF RowsKnown, Typed, TypeOK, Row, RowIds
<1>2. ASSUME NEW g \in failures', g.id <= f.id PROVE g \in failures
  <2>1. CASE g.id > seq
    <3>1. g.id \in Nat
      BY DEF Typed, TypeOK, Row, RowIds
    <3>2. QED
      BY <1>1, <1>2, <2>1, <3>1
  <2>2. QED
    BY <2>1
<1>3. UpTo(f)' \subseteq UpTo(f)
  BY <1>2 DEF UpTo
<1>4. QED
  BY <1>3 DEF FromSame, ForSame

LEMMA RowsFinite ==
    ASSUME RowsKnown, NEW f \in failures
    PROVE  IsFiniteSet(FromSame(f)) /\ IsFiniteSet(ForSame(f))
<1>1. FromSame(f) \in SUBSET failures /\ ForSame(f) \in SUBSET failures
  BY DEF FromSame, ForSame, UpTo
<1>2. QED
  BY <1>1, FS_Subset, Zenon DEF RowsKnown

\* What an attempt counts holds every row its own was to be counted with.
LEMMA CountsAll ==
    ASSUME Typed, RowsKnown, NEW p \in Attempts, pc[p] \in Listing,
           NEW f \in failures, f.id = mine[p]
    PROVE  /\ f.ip = ip[p] /\ f.name = name[p] /\ f.at = t0[p]
           /\ FromSame(f) \in SUBSET FailuresOf(ip[p], t0[p])
           /\ ForSame(f) \in SUBSET FailuresFor(name[p], t0[p])
           /\ IsFiniteSet(FailuresOf(ip[p], t0[p])) /\ IsFiniteSet(FailuresFor(name[p], t0[p]))
<1>1. f.ip = ip[p] /\ f.name = name[p] /\ f.at = t0[p]
  BY DEF RowsKnown
<1>2. /\ FailuresOf(ip[p], t0[p]) \in SUBSET failures
      /\ FailuresFor(name[p], t0[p]) \in SUBSET failures
  BY DEF FailuresOf, FailuresFor, InWindow
<1>3. IsFiniteSet(FailuresOf(ip[p], t0[p])) /\ IsFiniteSet(FailuresFor(name[p], t0[p]))
  BY <1>2, FS_Subset, Zenon DEF RowsKnown
<1>4. QED
  BY <1>1, <1>3 DEF FromSame, ForSame, UpTo, FailuresOf, FailuresFor, InWindow

\* A step after which no more failures have been counted, and no refusal is
\* nearer its end unless its address has no failures, keeps the address rule;
LEMMA AddressesKept ==
    ASSUME Typed, RowsKnown, AddressesRefused, Typed',
           \A g \in failures' : g \in failures \/ g.id > seq,
           Counted' \subseteq Counted,
           \A i \in IPs : promised[i] <= promised'[i] \/ \A f \in failures' : f.ip # i
    PROVE  AddressesRefused'
<1> SUFFICES ASSUME NEW f \in Counted', Cardinality(FromSame(f)') >= IPLimit
             PROVE  promised'[f.ip] >= f.at + IPBlock
  BY DEF AddressesRefused
<1>1. f \in Counted /\ f \in failures /\ f \in failures' /\ f.ip \in IPs /\ f.at \in Nat
  BY RuleAssumption DEF Counted, Typed, TypeOK, Row, Times
<1>2. FromSame(f)' \in SUBSET FromSame(f) /\ IsFiniteSet(FromSame(f))
  BY <1>1, FewerCounted, RowsFinite
<1>3. Cardinality(FromSame(f)) >= IPLimit
  BY <1>2, SubsetCounts, RuleAssumption
<1>4. promised[f.ip] >= f.at + IPBlock
  BY <1>1, <1>3 DEF AddressesRefused
<1>5. promised[f.ip] <= promised'[f.ip]
  BY <1>1
<1>6. promised[f.ip] \in Nat /\ promised'[f.ip] \in Nat
  BY <1>1, RuleAssumption DEF Typed, TypeOK, Untils
<1>7. QED
  BY <1>1, <1>4, <1>5, <1>6, RuleAssumption

\* and one after which nobody has done with the addresses he had to refuse
\* but by refusing them keeps the name rule.
LEMMA NamesKept ==
    ASSUME Typed, RowsKnown, NamesRefused, Typed',
           \A g \in failures' : g \in failures \/ g.id > seq,
           Listed' \subseteq Listed,
           \A i \in IPs : promised[i] <= promised'[i] \/ \A f \in failures' : f.ip # i,
           \A p \in Attempts, i \in IPs : pc[p] = "blockName" /\ i \in todo[p] =>
              \/ pc'[p] = "blockName" /\ until'[p] = until[p] /\ mine'[p] = mine[p] /\ i \in todo'[p]
              \/ promised'[i] >= until[p]
    PROVE  NamesRefused'
<1> SUFFICES ASSUME NEW f \in Listed', Fires(ForSame(f))',
                    NEW i \in AddressesIn(ForSame(f)')
             PROVE  promised'[i] >= f.at + NameBlock \/ SeenTo(i, f)'
  BY DEF NamesRefused, Fires, AddressesIn
<1>1. f \in Listed /\ f \in failures /\ f.at \in Nat
  BY RuleAssumption DEF Listed, Typed, TypeOK, Row, Times
<1>2. ForSame(f)' \in SUBSET ForSame(f) /\ IsFiniteSet(ForSame(f))
  BY <1>1, FewerCounted, RowsFinite
<1>3. Fires(ForSame(f)')
  BY DEF Fires, AddressesIn
<1>4. Fires(ForSame(f)) /\ i \in AddressesIn(ForSame(f))
  <2>1. i \in AddressesIn(ForSame(f))
    BY <1>2 DEF AddressesIn
  <2>2. QED
    BY <1>2, <1>3, <2>1, SubsetFires
<1>5. i \in IPs /\ \E g \in failures' : g.ip = i
  BY DEF AddressesIn, ForSame, UpTo, Typed, TypeOK, Row
<1>6. promised[i] <= promised'[i] /\ promised[i] \in Nat /\ promised'[i] \in Nat
  BY <1>5, RuleAssumption DEF Typed, TypeOK, Untils
<1>7. promised[i] >= f.at + NameBlock \/ SeenTo(i, f)
  BY <1>1, <1>4 DEF NamesRefused
<1>8. CASE promised[i] >= f.at + NameBlock
  BY <1>1, <1>6, <1>8, RuleAssumption
<1>9. ASSUME NEW p \in Attempts, pc[p] = "blockName", mine[p] = f.id, i \in todo[p],
             until[p] >= f.at + NameBlock
      PROVE  promised'[i] >= f.at + NameBlock \/ SeenTo(i, f)'
  <2>1. CASE pc'[p] = "blockName" /\ until'[p] = until[p] /\ mine'[p] = mine[p] /\ i \in todo'[p]
    BY <1>9, <2>1 DEF SeenTo
  <2>2. CASE promised'[i] >= until[p]
    BY <1>1, <1>6, <1>9, <2>2, RuleAssumption DEF Typed, TypeOK, Untils
  <2>3. QED
    BY <1>5, <1>9, <2>1, <2>2
<1>10. QED
  BY <1>7, <1>8, <1>9 DEF SeenTo

LEMMA AddressesStep ==
    Typed /\ RowsKnown /\ AddressesRefused /\ [Next]_vars /\ faults' = 0 => AddressesRefused'
<1> SUFFICES ASSUME Typed, RowsKnown, AddressesRefused, [Next]_vars, faults' = 0
             PROVE  AddressesRefused'
  OBVIOUS
<1>t. Typed'
  BY TypeStep
<1>k. ASSUME failures' \subseteq failures, Counted' \subseteq Counted,
             \A i \in IPs : promised'[i] = promised[i] \/ \A f \in failures' : f.ip # i
      PROVE  AddressesRefused'
  <2>1. \A i \in IPs : promised[i] <= promised'[i] \/ \A f \in failures' : f.ip # i
    BY <1>k, RuleAssumption DEF Typed, TypeOK, Untils
  <2>2. QED
    BY <1>k, <1>t, <2>1, AddressesKept
<1>o. ASSUME NEW p \in Attempts, pc[p] \notin Counting, failures' \subseteq failures,
             \A q \in Attempts \ {p} : pc'[q] = pc[q] /\ mine'[q] = mine[q]
      PROVE  Counted' \subseteq Counted
  BY <1>o DEF Counted
<1>n. ASSUME failures' \subseteq failures, pc' = pc, mine' = mine
      PROVE  Counted' \subseteq Counted
  BY <1>n DEF Counted
<1> USE DEF Typed, TypeOK, At, Goto, tables, attempts, history, Counting
<1>1. ASSUME NEW p \in Attempts, NEW i \in IPs, NEW n \in Names, Check(p, i, n)
      PROVE  AddressesRefused'
  BY <1>1, <1>k, <1>o DEF Check
<1>2. ASSUME NEW p \in Attempts, Purge(p) PROVE AddressesRefused'
  BY <1>2, <1>k, <1>o DEF Purge
<1>3. ASSUME NEW p \in Attempts, Deny(p) PROVE AddressesRefused'
  BY <1>3, <1>k, <1>o DEF Deny, Leave
<1>4. ASSUME NEW p \in Attempts, Log(p) PROVE AddressesRefused'
  BY <1>4, <1>k, <1>o DEF Log, Leave
<1>5. ASSUME NEW p \in Attempts, NotCounted(p) PROVE AddressesRefused'
  BY <1>5, <1>k, <1>o DEF NotCounted, Leave
<1>6. ASSUME NEW p \in Attempts, Succeed(p) PROVE AddressesRefused'
  BY <1>6, <1>k, <1>o DEF Succeed, Leave
<1>7. ASSUME NEW p \in Attempts, Fail(p) PROVE AddressesRefused'
  BY <1>7, <1>k, <1>o DEF Fail
<1>8. ASSUME NEW p \in Attempts, Insert(p) PROVE AddressesRefused'
  <2> DEFINE row == [id |-> seq + 1, ip |-> ip[p], name |-> name[p], at |-> t0[p]]
  <2>1. /\ failures' = failures \cup {row} /\ promised' = promised
        /\ mine' = [mine EXCEPT ![p] = seq + 1]
        /\ pc' = [pc EXCEPT ![p] = "countIP"] /\ pc[p] = "insert"
    BY <1>8 DEF Insert
  <2>2. row.id = seq + 1 /\ seq \in Nat
    OBVIOUS
  <2> HIDE DEF row
  <2>3. Counted' \subseteq Counted
    BY <2>1, <2>2 DEF Counted
  <2>4. \A g \in failures' : g \in failures \/ g.id > seq
    BY <2>1, <2>2
  <2>5. \A i \in IPs : promised[i] <= promised'[i]
    BY <2>1, RuleAssumption DEF Untils
  <2>6. QED
    BY <1>t, <2>3, <2>4, <2>5, AddressesKept
<1>9. ASSUME NEW p \in Attempts, CountIP(p) PROVE AddressesRefused'
  <2>1. CASE ~ AtLimit(Cardinality(FailuresOf(ip[p], t0[p])), IPLimit)
    <3>1. /\ failures' = failures /\ mine' = mine /\ promised' = promised
          /\ pc' = [pc EXCEPT ![p] = "countName"] /\ pc[p] = "countIP"
      BY <1>9, <2>1 DEF CountIP
    <3> SUFFICES ASSUME NEW f \in Counted', Cardinality(FromSame(f)) >= IPLimit
                 PROVE  promised[f.ip] >= f.at + IPBlock
      BY <3>1 DEF AddressesRefused, FromSame, UpTo
    <3>2. CASE f \in Counted
      BY <3>2 DEF AddressesRefused
    <3>3. CASE f \notin Counted
      <4>1. f \in failures /\ f.id = mine[p]
        BY <3>1, <3>3 DEF Counted
      <4>2. /\ FromSame(f) \in SUBSET FailuresOf(ip[p], t0[p])
            /\ IsFiniteSet(FailuresOf(ip[p], t0[p]))
        BY <3>1, <4>1, CountsAll DEF Listing
      <4>3. Cardinality(FailuresOf(ip[p], t0[p])) >= IPLimit
        BY <4>2, SubsetCounts, RuleAssumption
      <4>4. QED
        BY <4>3, <2>1 DEF AtLimit
    <3>4. QED
      BY <3>2, <3>3
  <2>2. CASE Goto(p, "blockIP")
    BY <1>9, <2>2, <1>k DEF CountIP, Counted
  <2>3. QED
    BY <1>9, <2>1, <2>2 DEF CountIP
<1>10. ASSUME NEW p \in Attempts, BlockIP(p) PROVE AddressesRefused'
  <2>1. /\ failures' = failures /\ mine' = mine
        /\ promised' = [promised EXCEPT ![ip[p]] = IF until[p] > @ THEN until[p] ELSE @]
        /\ pc' = [pc EXCEPT ![p] = "countName"] /\ pc[p] = "blockIP"
    BY <1>10 DEF BlockIP, Write
  <2>2. /\ ip[p] \in IPs /\ until[p] \in Nat /\ promised \in [IPs -> Untils]
        /\ until[p] = t0[p] + IPBlock
    BY <2>1, RuleAssumption DEF Untils, RowsKnown
  <2>3. promised'[ip[p]] >= until[p] /\ \A i \in IPs : promised'[i] >= promised[i]
    BY <2>1, <2>2, RuleAssumption DEF Untils
  <2> SUFFICES ASSUME NEW f \in Counted', Cardinality(FromSame(f)) >= IPLimit
               PROVE  promised'[f.ip] >= f.at + IPBlock
    BY <2>1 DEF AddressesRefused, FromSame, UpTo
  <2>4. f \in failures /\ f.ip \in IPs /\ f.at \in Nat
    BY <2>1, RuleAssumption DEF Counted, Row, Times
  <2>5. promised[f.ip] \in Nat /\ promised'[f.ip] \in Nat
    BY <1>t, <2>4, RuleAssumption DEF Untils
  <2>6. CASE f \in Counted
    <3>1. promised[f.ip] >= f.at + IPBlock
      BY <2>6 DEF AddressesRefused
    <3>2. QED
      BY <3>1, <2>3, <2>4, <2>5, RuleAssumption
  <2>7. CASE f \notin Counted
    <3>1. f.id = mine[p]
      BY <2>1, <2>4, <2>7 DEF Counted
    <3>2. f.ip = ip[p] /\ f.at = t0[p]
      BY <2>1, <2>4, <3>1 DEF RowsKnown, Listing
    <3>3. QED
      BY <3>2, <2>2, <2>3
  <2>8. QED
    BY <2>6, <2>7
<1>11. ASSUME NEW p \in Attempts, CountName(p) PROVE AddressesRefused'
  <2>1. CASE Leave(p)
    BY <2>1, <1>11, <1>k, <1>o DEF CountName, Leave
  <2>2. CASE Goto(p, "listName") /\ UNCHANGED <<ip, name, t0, until, mine, todo>>
    BY <2>2, <1>11, <1>k, <1>o DEF CountName
  <2>3. QED
    BY <2>1, <2>2, <1>11, Zenon DEF CountName
<1>12. ASSUME NEW p \in Attempts, ListName(p) PROVE AddressesRefused'
  BY <1>12, <1>k, <1>o DEF ListName
<1>13. ASSUME NEW p \in Attempts, BlockName(p) PROVE AddressesRefused'
  <2>1. pc[p] = "blockName" /\ failures' = failures
    BY <1>13 DEF BlockName
  <2>2. \A q \in Attempts \ {p} : pc'[q] = pc[q] /\ mine'[q] = mine[q]
    BY <1>13 DEF BlockName, Leave
  <2>3. ASSUME NEW i \in todo[p], Write(i, until[p]) PROVE \A j \in IPs : promised[j] <= promised'[j]
    BY <2>3, RuleAssumption DEF Write, Untils
  <2>4. \A j \in IPs : promised[j] <= promised'[j]
    <3>1. CASE promised' = promised
      BY <3>1, RuleAssumption DEF Untils
    <3>2. QED
      BY <3>1, <2>3, <1>13 DEF BlockName
  <2>5. Counted' \subseteq Counted
    BY <2>1, <2>2, <1>o
  <2>6. QED
    BY <2>1, <2>4, <2>5, <1>t, AddressesKept
<1>14. ASSUME NEW p \in Attempts, Broken(p) PROVE AddressesRefused'
  BY <1>14 DEF Broken
<1>15. CASE SweepFailures
  BY <1>15, <1>k, <1>n DEF SweepFailures
<1>16. ASSUME NEW i \in IPs, Unblock(i) PROVE AddressesRefused'
  BY <1>16, <1>k, <1>n DEF Unblock
<1>17. CASE Tick
  BY <1>17, <1>k, <1>n DEF Tick
<1>18. CASE UNCHANGED vars
  BY <1>18, <1>k, <1>n DEF vars
<1>19. QED
  BY <1>1, <1>2, <1>3, <1>4, <1>5, <1>6, <1>7, <1>8, <1>9, <1>10, <1>11, <1>12,
      <1>13, <1>14, <1>15, <1>16, <1>17, <1>18 DEF Next, Attempt

LEMMA NamesStep ==
    Typed /\ RowsKnown /\ NamesRefused /\ [Next]_vars /\ faults' = 0 => NamesRefused'
<1> SUFFICES ASSUME Typed, RowsKnown, NamesRefused, [Next]_vars, faults' = 0
             PROVE  NamesRefused'
  OBVIOUS
<1>t. Typed'
  BY TypeStep
<1>w. seq \in Nat /\ \A i \in IPs : promised[i] \in Nat
  BY RuleAssumption DEF Typed, TypeOK, Untils
<1> DEFINE Same(q) == /\ pc'[q] = pc[q] /\ mine'[q] = mine[q]
                      /\ until'[q] = until[q] /\ todo'[q] = todo[q]
           Stand == promised' = promised
<1>o. ASSUME NEW p \in Attempts, pc[p] \notin Listing \cup {"blockName"},
             failures' \subseteq failures, Stand, \A q \in Attempts \ {p} : Same(q)
      PROVE  NamesRefused'
  <2>1. Listed' \subseteq Listed
    BY <1>o DEF Listed
  <2>2. QED
    BY <1>o, <2>1, <1>t, <1>w, NamesKept
<1>l. ASSUME NEW p \in Attempts, pc[p] \in Listing, pc'[p] \in Listing, mine' = mine,
             failures' = failures, \A i \in IPs : promised[i] <= promised'[i],
             \A q \in Attempts \ {p} : Same(q)
      PROVE  NamesRefused'
  <2>1. Listed' \subseteq Listed
    BY <1>l DEF Listed
  <2>2. pc[p] # "blockName"
    BY <1>l DEF Listing, Counting
  <2>3. QED
    BY <1>l, <2>1, <2>2, <1>t, <1>w, NamesKept
<1>n. ASSUME failures' \subseteq failures, UNCHANGED attempts,
             \A i \in IPs : promised'[i] = promised[i] \/ \A f \in failures' : f.ip # i
      PROVE  NamesRefused'
  <2>1. Listed' \subseteq Listed
    BY <1>n DEF Listed, attempts
  <2>2. \A i \in IPs : promised[i] <= promised'[i] \/ \A f \in failures' : f.ip # i
    BY <1>n, <1>w
  <2>3. QED
    BY <1>n, <2>1, <2>2, <1>t, NamesKept DEF attempts
\* A row that p alone had still to list is the one p counted with.
<1>f. ASSUME NEW p \in Attempts, pc[p] \in {"countName", "listName"}, failures' = failures,
             \A q \in Attempts \ {p} : pc'[q] = pc[q] /\ mine'[q] = mine[q],
             NEW f \in Listed', f \notin Listed
      PROVE  /\ f.id = mine[p] /\ f.at = t0[p] /\ f.at \in Nat
             /\ ForSame(f) \in SUBSET FailuresFor(name[p], t0[p])
             /\ IsFiniteSet(FailuresFor(name[p], t0[p]))
  <2>1. f \in failures /\ f.id = mine[p]
    BY <1>f DEF Listed
  <2>2. f.at \in Nat
    BY <2>1, RuleAssumption DEF Typed, TypeOK, Row, Times
  <2>3. pc[p] \in Listing
    BY <1>f DEF Listing
  <2>4. QED
    BY <2>1, <2>2, <2>3, CountsAll
<1>p. \A p \in Attempts : pc[p] \in PC
  BY DEF Typed, TypeOK
<1> USE DEF Typed, TypeOK, At, Goto, tables, history
<1>1. ASSUME NEW p \in Attempts, NEW i \in IPs, NEW n \in Names, Check(p, i, n)
      PROVE  NamesRefused'
  <2>1. pc[p] \notin Listing \cup {"blockName"} /\ \A q \in Attempts \ {p} : Same(q)
    BY <1>1 DEF Check, Listing, Counting
  <2>2. QED
    BY <1>1, <2>1, <1>o DEF Check
<1>2. ASSUME NEW p \in Attempts, Purge(p) PROVE NamesRefused'
  BY <1>2, <1>o DEF Purge, Listing, Counting
<1>3. ASSUME NEW p \in Attempts, Deny(p) PROVE NamesRefused'
  <2>1. pc[p] \notin Listing \cup {"blockName"} /\ \A q \in Attempts \ {p} : Same(q)
    BY <1>3 DEF Deny, Leave, Listing, Counting
  <2>2. QED
    BY <1>3, <2>1, <1>o DEF Deny
<1>4. ASSUME NEW p \in Attempts, Log(p) PROVE NamesRefused'
  BY <1>4, <1>o DEF Log, Leave, Listing, Counting
<1>5. ASSUME NEW p \in Attempts, NotCounted(p) PROVE NamesRefused'
  BY <1>5, <1>o DEF NotCounted, Leave, Listing, Counting
<1>6. ASSUME NEW p \in Attempts, Succeed(p) PROVE NamesRefused'
  BY <1>6, <1>o DEF Succeed, Leave, Listing, Counting
<1>7. ASSUME NEW p \in Attempts, Fail(p) PROVE NamesRefused'
  BY <1>7, <1>o DEF Fail, Listing, Counting
<1>8. ASSUME NEW p \in Attempts, Insert(p) PROVE NamesRefused'
  <2> DEFINE row == [id |-> seq + 1, ip |-> ip[p], name |-> name[p], at |-> t0[p]]
  <2>1. /\ failures' = failures \cup {row} /\ Stand
        /\ mine' = [mine EXCEPT ![p] = seq + 1]
        /\ pc' = [pc EXCEPT ![p] = "countIP"] /\ pc[p] = "insert"
        /\ \A q \in Attempts \ {p} : Same(q)
    BY <1>8 DEF Insert
  <2>2. row.id = seq + 1 /\ seq \in Nat
    BY <1>w
  <2> HIDE DEF row
  <2>3. Listed' \subseteq Listed
    BY <2>1, <2>2 DEF Listed, Listing, Counting
  <2>4. \A g \in failures' : g \in failures \/ g.id > seq
    BY <2>1, <2>2
  <2>5. QED
    BY <2>1, <2>3, <2>4, <1>t, <1>w, NamesKept
<1>9. ASSUME NEW p \in Attempts, CountIP(p) PROVE NamesRefused'
  <2>1. /\ pc[p] \in Listing /\ pc'[p] \in Listing
        /\ \A q \in Attempts \ {p} : Same(q)
    BY <1>9 DEF CountIP, Listing, Counting
  <2>2. QED
    BY <1>9, <2>1, <1>l, <1>w DEF CountIP
<1>10. ASSUME NEW p \in Attempts, BlockIP(p) PROVE NamesRefused'
  <2>1. /\ pc[p] \in Listing /\ pc'[p] \in Listing
        /\ \A q \in Attempts \ {p} : Same(q)
    BY <1>10 DEF BlockIP, Listing, Counting
  <2>2. \A i \in IPs : promised[i] <= promised'[i]
    BY <1>10, RuleAssumption DEF BlockIP, Write, Untils
  <2>3. QED
    BY <1>10, <2>1, <2>2, <1>l DEF BlockIP
<1>11. ASSUME NEW p \in Attempts, CountName(p) PROVE NamesRefused'
  <2>1. /\ pc[p] = "countName" /\ failures' = failures /\ Stand
        /\ \A q \in Attempts \ {p} : Same(q)
    BY <1>11 DEF CountName, Leave
  <2>2. CASE pc' = [pc EXCEPT ![p] = "listName"] /\ UNCHANGED mine
    <3>1. pc[p] \in Listing /\ pc'[p] \in Listing
      BY <2>1, <2>2 DEF Listing, Counting
    <3>2. QED
      BY <2>1, <2>2, <3>1, <1>l, <1>w
  <2>3. CASE ~ Fires(FailuresFor(name[p], t0[p]))
    <3> SUFFICES ASSUME NEW f \in Listed', Fires(ForSame(f)), NEW i \in AddressesIn(ForSame(f))
                 PROVE  promised'[i] >= f.at + NameBlock \/ SeenTo(i, f)'
      BY <2>1 DEF NamesRefused, Fires, AddressesIn, ForSame, UpTo
    <3>1. f \in Listed
      BY <2>1, <2>3, <1>f, SubsetFires
    <3>2. promised[i] >= f.at + NameBlock \/ SeenTo(i, f)
      BY <3>1 DEF NamesRefused
    <3>3. QED
      BY <2>1, <3>2 DEF SeenTo
  <2>4. QED
    BY <2>2, <2>3, <1>11 DEF CountName, Fires, AtLimit
<1>12. ASSUME NEW p \in Attempts, ListName(p) PROVE NamesRefused'
  <2>1. /\ pc[p] = "listName" /\ failures' = failures /\ Stand /\ mine' = mine
        /\ pc' = [pc EXCEPT ![p] = "blockName"]
        /\ todo' = [todo EXCEPT ![p] = AddressesIn(FailuresFor(name[p], t0[p]))]
        /\ until' = [until EXCEPT ![p] = t0[p] + NameBlock]
        /\ \A q \in Attempts \ {p} : Same(q)
    BY <1>12 DEF ListName, Everyone
  <2> SUFFICES ASSUME NEW f \in Listed', Fires(ForSame(f)), NEW i \in AddressesIn(ForSame(f))
               PROVE  promised'[i] >= f.at + NameBlock \/ SeenTo(i, f)'
    BY <2>1 DEF NamesRefused, Fires, AddressesIn, ForSame, UpTo
  <2>2. CASE f \in Listed
    <3>1. promised[i] >= f.at + NameBlock \/ SeenTo(i, f)
      BY <2>2 DEF NamesRefused
    <3>2. QED
      BY <2>1, <3>1 DEF SeenTo
  <2>3. CASE f \notin Listed
    <3>1. /\ f.id = mine[p] /\ f.at = t0[p] /\ f.at \in Nat
          /\ ForSame(f) \in SUBSET FailuresFor(name[p], t0[p])
      BY <2>1, <2>3, <1>f
    <3>2. i \in todo'[p]
      BY <2>1, <3>1 DEF AddressesIn
    <3>3. until'[p] >= f.at + NameBlock
      BY <2>1, <3>1, RuleAssumption
    <3>4. QED
      BY <2>1, <3>1, <3>2, <3>3 DEF SeenTo
  <2>4. QED
    BY <2>2, <2>3
<1>13. ASSUME NEW p \in Attempts, BlockName(p) PROVE NamesRefused'
  <2>1. pc[p] = "blockName" /\ failures' = failures
    BY <1>13 DEF BlockName
  <2>2. \A q \in Attempts \ {p} : Same(q)
    BY <1>13 DEF BlockName, Leave
  <2>3. Listed' \subseteq Listed
    BY <2>1, <2>2 DEF Listed, Listing, Counting
  <2>4. ASSUME NEW i \in todo[p], Write(i, until[p]), UNCHANGED <<pc, until, mine>>,
               todo' = [todo EXCEPT ![p] = @ \ {i}]
        PROVE  NamesRefused'
    <3>1. i \in IPs /\ until[p] \in Nat
      BY RuleAssumption DEF Untils
    <3>2. promised'[i] >= until[p] /\ \A j \in IPs : promised[j] <= promised'[j]
      BY <2>4, <3>1, RuleAssumption DEF Write, Untils
    <3>3. \A q \in Attempts, j \in IPs : pc[q] = "blockName" /\ j \in todo[q] =>
              \/ pc'[q] = "blockName" /\ until'[q] = until[q] /\ mine'[q] = mine[q] /\ j \in todo'[q]
              \/ promised'[j] >= until[q]
      BY <2>4, <3>2
    <3>4. QED
      BY <2>1, <2>3, <3>2, <3>3, <1>t, <1>w, NamesKept
  <2>5. CASE todo[p] = {} /\ promised' = promised
    BY <2>1, <2>2, <2>3, <2>5, <1>t, <1>w, NamesKept
  <2>6. QED
    BY <1>13, <2>4, <2>5 DEF BlockName
<1>14. ASSUME NEW p \in Attempts, Broken(p) PROVE NamesRefused'
  BY <1>14 DEF Broken
<1>15. CASE SweepFailures
  BY <1>15, <1>n DEF SweepFailures
<1>16. ASSUME NEW i \in IPs, Unblock(i) PROVE NamesRefused'
  BY <1>16, <1>n DEF Unblock
<1>17. CASE Tick
  BY <1>17, <1>n DEF Tick
<1>18. CASE UNCHANGED vars
  BY <1>18, <1>n DEF vars
<1>19. QED
  BY <1>1, <1>2, <1>3, <1>4, <1>5, <1>6, <1>7, <1>8, <1>9, <1>10, <1>11, <1>12,
      <1>13, <1>14, <1>15, <1>16, <1>17, <1>18 DEF Next, Attempt

LEMMA LimitsInit == Init => LimitsInv
<1> SUFFICES ASSUME Init PROVE LimitsInv
  OBVIOUS
<1>1. RowsKnown
  BY FS_EmptySet DEF Init, RowsKnown, Listing, Counting
<1>2. AddressesRefused
  BY DEF AddressesRefused, Counted, Init
<1>3. NamesRefused
  BY DEF NamesRefused, Listed, Init
<1>4. QED
  BY <1>1, <1>2, <1>3 DEF LimitsInv

LEMMA LimitsStep == Typed /\ LimitsInv /\ [Next]_vars => LimitsInv'
<1> SUFFICES ASSUME Typed, LimitsInv, [Next]_vars PROVE LimitsInv'
  OBVIOUS
<1>1. ASSUME faults' = 0 PROVE faults = 0
  <2>1. ASSUME NEW p \in Attempts, Attempt(p), ~ Broken(p) PROVE faults' = faults
    BY <2>1 DEF Attempt, Check, Purge, Deny, Log, NotCounted, Succeed, Fail, Insert, CountIP,
       BlockIP, CountName, ListName, BlockName, history
  <2>2. ASSUME NEW p \in Attempts, Broken(p) PROVE faults' = faults + 1
    BY <2>2 DEF Broken
  <2>3. ASSUME SweepFailures \/ Tick \/ (\E i \in IPs : Unblock(i)) \/ UNCHANGED vars
        PROVE  faults' = faults
    BY <2>3 DEF SweepFailures, Tick, Unblock, vars, history
  <2>4. faults \in Nat
    BY RuleAssumption DEF Typed, TypeOK
  <2>5. QED
    BY <1>1, <2>1, <2>2, <2>3, <2>4 DEF Next
<1>2. RowsKnown'
  BY RowsKnownStep DEF LimitsInv
<1>3. ASSUME faults' = 0 PROVE AddressesRefused' /\ NamesRefused'
  BY <1>1, <1>3, AddressesStep, NamesStep DEF LimitsInv
<1>4. QED
  BY <1>2, <1>3 DEF LimitsInv

\* Every state knows its failures, and which of them are answered for.
THEOREM LimitsInvariant == Spec => []LimitsInv
<1>1. IInv => Typed
  BY DEF IInv
<1> QED
  BY <1>1, ThrottleInvariant, LimitsInit, LimitsStep, PTL DEF Spec

\* A failure whose recording has finished, and which made as many as a rule
\* allows in the hour before it, has its address, or every address the name was
\* tried from, refused for as long as the rule's block (recordLoginFailure),
\* however long or short that is, for any number of concurrent attempts; unless
\* a statement failed, or a late DELETE took the block.
THEOREM LimitsTheorem == Spec => []LimitsHold
<1>1. IInv /\ LimitsInv => LimitsHold
  <2> SUFFICES ASSUME IInv, LimitsInv, faults = 0 PROVE AddressRule /\ UsernameRule
    BY DEF LimitsHold
  <2>1. Typed /\ BlockStandsUnlessRaced /\ AddressesRefused /\ NamesRefused
    BY DEF IInv, LimitsInv
  <2>2. \A f \in Recorded : f \in Counted /\ f \in Listed
    BY DEF Recorded, Counted, Listed
  <2>3. ASSUME NEW i \in IPs, NEW u \in Nat, promised[i] >= u, u > now
        PROVE  Refused(i) \/ i \in raced
    <3>1. now \in Nat /\ promised[i] \in Nat /\ blocks[i] \in Nat
      BY <2>1, RuleAssumption DEF Typed, TypeOK, Times, Untils
    <3>2. promised[i] > now
      BY <2>3, <3>1
    <3>3. QED
      BY <2>1, <3>1, <3>2 DEF BlockStandsUnlessRaced, Refused
  <2>4. \A f \in failures : /\ f.ip \in IPs /\ f.at \in Nat
                            /\ f.at + IPBlock \in Nat /\ f.at + NameBlock \in Nat
    BY <2>1, RuleAssumption DEF Typed, TypeOK, Row, Times
  <2>5. AddressRule
    <3> SUFFICES ASSUME NEW f \in Recorded, Cardinality(FromSame(f)) >= IPLimit,
                        f.at + IPBlock > now
                 PROVE  Refused(f.ip) \/ f.ip \in raced
      BY DEF AddressRule
    <3>1. promised[f.ip] >= f.at + IPBlock
      BY <2>1, <2>2 DEF AddressesRefused
    <3>2. QED
      BY <2>3, <2>4, <3>1 DEF Recorded
  <2>6. UsernameRule
    <3> SUFFICES ASSUME NEW f \in Recorded, Fires(ForSame(f)), f.at + NameBlock > now,
                        NEW i \in AddressesIn(ForSame(f))
                 PROVE  Refused(i) \/ i \in raced
      BY DEF UsernameRule, Fires
    <3>1. ~ SeenTo(i, f)
      BY DEF SeenTo, Recorded
    <3>2. promised[i] >= f.at + NameBlock
      BY <2>1, <2>2, <3>1 DEF NamesRefused
    <3>3. i \in IPs
      BY <2>4 DEF AddressesIn, ForSame, UpTo
    <3>4. QED
      BY <2>3, <2>4, <3>2, <3>3 DEF Recorded
  <2>7. QED
    BY <2>5, <2>6
<1> QED
  BY <1>1, ThrottleInvariant, LimitsInvariant, PTL

-----------------------------------------------------------------------------
(* Drafts: writing one message.                                            *)

\* A set of naturals has a least member.
LEMMA LeastOfNaturals ==
    ASSUME NEW T, T \subseteq Nat, T # {}
    PROVE  \E x \in T : \A y \in T : x <= y
<1>1. PICK x \in T : \A y \in T : ~ (<<y, x>> \in OpToRel(<, Nat))
  BY WFMin, NatLessThanWellFounded, Zenon
<1>2. \A y \in T : x <= y
  <2> TAKE y \in T
  <2>1. x \in Nat /\ y \in Nat
    OBVIOUS
  <2>2. ~ (y < x)
    BY <1>1, <2>1 DEF OpToRel
  <2>3. QED
    BY <2>1, <2>2
<1>3. QED
  BY <1>2

\* What a message comes to, with these files in the store.
Res(text, file, st) == text \union (IF file \in st THEN {File} ELSE {})

\* A name is of what is there, or of what is not any more; and the composer a
\* request answers is open.
PageRefs(pg, dr, st) ==
    pg.uid \in DOMAIN dr \union {0, Gone} /\ pg.file \in st \union {0, Lost}
JobRefs(j, pg, dr, st) ==
    /\ j.uid \in DOMAIN dr \union {0, Gone} /\ j.new \in DOMAIN dr \union {0, Gone}
    /\ j.file \in st \union {0, Lost}
    /\ j.page # None => pg[j.page].at = "open"
RefsOK ==
    /\ \A p \in Pages : PageRefs(page[p], drafts, store)
    /\ \A r \in Requests : JobRefs(job[r], page, drafts, store)

\* A composer holds what the copy it names holds, and so does what it posts;
\* what goes out is excused; and a reply gives a composer a copy of no more than
\* it holds.
PageHolds(pg, dr, st, ex) ==
    pg.uid \in DOMAIN dr => dr[pg.uid] \ ex \subseteq Res(pg.text, pg.file, st)
JobHolds(j, dr, st, ex) ==
    j.at \in {"append", "deliver"} /\ j.uid \in DOMAIN dr
      => dr[j.uid] \ ex \subseteq Res(j.text, j.file, st)
JobSent(j, dr, st, ex) ==
    j.at = "conclude" => /\ j.uid \in DOMAIN dr => dr[j.uid] \subseteq ex
                         /\ j.file \in st => File \in ex
JobReplies(j, x, dr, st, ex) ==
    j.auto /\ x.at = "open"
      => /\ j.at = "append" => Res(j.text, j.file, st) \ ex \subseteq Res(x.text, x.file, st)
         /\ j.at \in {"find", "supersede"} /\ j.new \in DOMAIN dr
              => dr[j.new] \ ex \subseteq Res(x.text, x.file, st)
JobOK(j, pg, dr, st, ex) ==
    /\ JobHolds(j, dr, st, ex) /\ JobSent(j, dr, st, ex)
    /\ j.page # None => JobReplies(j, pg[j.page], dr, st, ex)
Holds(pg, jb, dr, st, ex) ==
    /\ \A p \in Pages : PageHolds(pg[p], dr, st, ex)
    /\ \A r \in Requests : JobOK(jb[r], pg, dr, st, ex)

\* A copy no request is about to supersede; and of what is owed there is one.
Stays(u, jb) == \A r \in Requests : jb[r].at \in {"find", "supersede"} => jb[r].uid # u
Kept(ow, jb, dr) == \A x \in ow : \E u \in DOMAIN dr : x \in dr[u] /\ Stays(u, jb)

Args(pg, jb, dr, st) ==
    /\ pg \in [Pages -> Page] /\ jb \in [Requests -> Job]
    /\ DOMAIN dr \subseteq 1 .. MaxUid /\ \A u \in DOMAIN dr : dr[u] \subseteq Part
    /\ st \subseteq 1 .. MaxFile

UidIn(u, dr) == IF u \in DOMAIN dr \union {0} THEN u ELSE Gone
FileIn(f, st) == IF f \in st \union {0} THEN f ELSE Lost
PageNamed(x, y, dr, st) ==
    /\ y.at = x.at /\ y.text = x.text
    /\ y.uid = UidIn(x.uid, dr) /\ y.file = FileIn(x.file, st)
JobNamed(x, y, pg, dr, st) ==
    /\ y.at = x.at /\ y.auto = x.auto /\ y.text = x.text
    /\ y.uid = UidIn(x.uid, dr) /\ y.file = FileIn(x.file, st) /\ y.new = UidIn(x.new, dr)
    /\ y.page = IF x.page # None /\ pg[x.page].at # "open" THEN None ELSE x.page
Became(pg, jb, dr, st) ==
    /\ drafts' = dr /\ store' = st
    /\ page' \in [Pages -> Page] /\ job' \in [Requests -> Job]
    /\ \A p \in Pages : PageNamed(pg[p], page'[p], dr, st)
    /\ \A r \in Requests : JobNamed(jb[r], job'[r], pg, dr, st)

LEMMA Bounds == MaxUid \in Nat /\ MaxFile \in Nat /\ MaxEdit \in Nat /\ MaxTrouble \in Nat
  BY DraftsAssumption

LEMMA GoneIs ==
    /\ Gone \in 0 .. Gone /\ Lost \in 0 .. Lost /\ 0 \in 0 .. Gone /\ 0 \in 0 .. Lost
    /\ 1 .. MaxUid \subseteq 0 .. Gone /\ 1 .. MaxFile \subseteq 0 .. Lost
    /\ Gone \notin 1 .. MaxUid /\ Lost \notin 1 .. MaxFile /\ 0 \notin 1 .. MaxUid /\ 0 \notin 1 .. MaxFile
    /\ Gone # 0 /\ Lost # 0
  BY Bounds DEF Gone, Lost

LEMMA LeastIs ==
    ASSUME NEW n \in Nat, NEW S, S \subseteq 1 .. n, S # {}
    PROVE  Least(S) \in S
<1>0. S \subseteq Nat
  OBVIOUS
<1>1. \E x \in S : \A y \in S : x <= y
  BY <1>0, LeastOfNaturals
<1>2. QED
  BY <1>1, Zenon DEF Least

LEMMA PageParts ==
    ASSUME NEW x \in Page
    PROVE  /\ x.at \in {"unused", "open", "closed"} /\ x.text \in SUBSET Part
           /\ x.file \in 0 .. Lost /\ x.uid \in 0 .. Gone
           /\ x.clean \in BOOLEAN /\ x.sending \in BOOLEAN
  BY DEF Page

LEMMA JobParts ==
    ASSUME NEW x \in Job
    PROVE  /\ x.at \in {"new", "done", "append", "find", "supersede", "deliver", "conclude"}
           /\ x.auto \in BOOLEAN /\ x.page \in Pages \union {None} /\ x.text \in SUBSET Part
           /\ x.file \in 0 .. Lost /\ x.uid \in 0 .. Gone /\ x.new \in 0 .. Gone
  BY DEF Job

LEMMA PageNamedIs ==
    ASSUME NEW dr, DOMAIN dr \subseteq 1 .. MaxUid, NEW st, st \subseteq 1 .. MaxFile,
           NEW x \in Page, NEW y, y = Named(x, dr, st)
    PROVE  y \in Page /\ PageNamed(x, y, dr, st)
<1> DEFINE u == UidIn(x.uid, dr)
           f == FileIn(x.file, st)
<1>1. u \in 0 .. Gone /\ f \in 0 .. Lost
  BY GoneIs DEF UidIn, FileIn
<1>2. y = [x EXCEPT !.uid = u, !.file = f]
  BY DEF Named, UidIn, FileIn
<1> HIDE DEF u, f
<1>3. y \in Page
  BY <1>1, <1>2, ZenonT(40) DEF Page
<1>4. y.at = x.at /\ y.text = x.text /\ y.uid = u /\ y.file = f
  BY <1>2 DEF Page
<1>5. QED
  BY <1>3, <1>4 DEF PageNamed, u, f

LEMMA JobNamedIs ==
    ASSUME NEW dr, DOMAIN dr \subseteq 1 .. MaxUid, NEW st, st \subseteq 1 .. MaxFile, NEW pg,
           NEW x \in Job, NEW y,
           y = [Named(x, dr, st) EXCEPT
                 !.new = IF @ \in DOMAIN dr \union {0} THEN @ ELSE Gone,
                 !.page = IF @ # None /\ pg[@].at # "open" THEN None ELSE @]
    PROVE  y \in Job /\ JobNamed(x, y, pg, dr, st)
<1> DEFINE u == UidIn(x.uid, dr)
           f == FileIn(x.file, st)
           n == UidIn(x.new, dr)
           g == IF x.page # None /\ pg[x.page].at # "open" THEN None ELSE x.page
           z == [x EXCEPT !.uid = u, !.file = f]
<1>1. u \in 0 .. Gone /\ f \in 0 .. Lost /\ n \in 0 .. Gone
  BY GoneIs, JobParts DEF UidIn, FileIn
<1>2. g \in Pages \union {None}
  BY JobParts
<1>3. z = Named(x, dr, st)
  BY DEF Named, UidIn, FileIn
<1>4. z.new = x.new /\ z.page = x.page
  BY DEF Job
<1>5. y = [z EXCEPT !.new = IF @ \in DOMAIN dr \union {0} THEN @ ELSE Gone,
                    !.page = IF @ # None /\ pg[@].at # "open" THEN None ELSE @]
  BY <1>3
<1>6. y = [z EXCEPT !.new = n, !.page = g]
  BY <1>4, <1>5 DEF UidIn
<1> HIDE DEF u, f, n, g
<1>7. z \in Job
  BY <1>1, ZenonT(40) DEF Job
<1>8. z.at = x.at /\ z.auto = x.auto /\ z.text = x.text /\ z.uid = u /\ z.file = f
  BY DEF Job
<1> HIDE DEF z
<1>9. y \in Job
  BY <1>1, <1>2, <1>6, <1>7, ZenonT(40) DEF Job
<1>10. y.at = z.at /\ y.auto = z.auto /\ y.text = z.text /\ y.uid = z.uid /\ y.file = z.file
       /\ y.new = n /\ y.page = g
  BY <1>6, <1>7 DEF Job
<1>11. QED
  BY <1>8, <1>9, <1>10 DEF JobNamed, u, f, n, g

\* What Become makes of the composers and the requests.
LEMMA BecomeIs ==
    ASSUME NEW pg, NEW jb, NEW dr, NEW st, Args(pg, jb, dr, st), Become(pg, jb, dr, st)
    PROVE  Became(pg, jb, dr, st)
<1>1. /\ page' = [p \in Pages |-> Named(pg[p], dr, st)]
      /\ job' = [r \in Requests |-> [Named(jb[r], dr, st) EXCEPT
                 !.new = IF @ \in DOMAIN dr \union {0} THEN @ ELSE Gone,
                 !.page = IF @ # None /\ pg[@].at # "open" THEN None ELSE @]]
      /\ drafts' = dr /\ store' = st
  BY DEF Become
<1>2. ASSUME NEW p \in Pages PROVE page'[p] \in Page /\ PageNamed(pg[p], page'[p], dr, st)
  <2>1. page'[p] = Named(pg[p], dr, st) /\ pg[p] \in Page
    BY <1>1 DEF Args
  <2>2. QED
    BY <2>1, PageNamedIs DEF Args
<1>3. ASSUME NEW r \in Requests PROVE job'[r] \in Job /\ JobNamed(jb[r], job'[r], pg, dr, st)
  <2>1. /\ job'[r] = [Named(jb[r], dr, st) EXCEPT
                 !.new = IF @ \in DOMAIN dr \union {0} THEN @ ELSE Gone,
                 !.page = IF @ # None /\ pg[@].at # "open" THEN None ELSE @]
        /\ jb[r] \in Job
    BY <1>1, Zenon DEF Args
  <2>2. QED
    BY <2>1, JobNamedIs DEF Args
<1>4. page' \in [Pages -> Page]
  BY <1>1, <1>2
<1>5. job' \in [Requests -> Job]
  BY <1>1, <1>3
<1>6. QED
  BY <1>1, <1>2, <1>3, <1>4, <1>5 DEF Became

\* After any step names are of what is there.
LEMMA BecomeRefs ==
    ASSUME NEW pg, NEW jb, NEW dr, NEW st, Args(pg, jb, dr, st), Became(pg, jb, dr, st)
    PROVE  /\ \A p \in Pages : PageRefs(page'[p], dr, st)
           /\ \A r \in Requests : JobRefs(job'[r], page', dr, st)
<1>1. \A p \in Pages : PageRefs(page'[p], dr, st)
  BY DEF Became, PageNamed, PageRefs, UidIn, FileIn
<1>2. ASSUME NEW r \in Requests PROVE JobRefs(job'[r], page', dr, st)
  <2>1. JobNamed(jb[r], job'[r], pg, dr, st) /\ job'[r] \in Job
    BY DEF Became
  <2>2. job'[r].page # None => page'[job'[r].page].at = "open"
    BY <2>1, JobParts DEF Became, JobNamed, PageNamed
  <2>3. QED
    BY <2>1, <2>2 DEF JobNamed, JobRefs, UidIn, FileIn
<1>3. QED
  BY <1>1, <1>2

LEMMA ResNamed ==
    ASSUME NEW st, st \subseteq 1 .. MaxFile, NEW f, NEW text
    PROVE  Res(text, FileIn(f, st), st) = Res(text, f, st)
  BY GoneIs DEF Res, FileIn

LEMMA UidNamed ==
    ASSUME NEW dr, DOMAIN dr \subseteq 1 .. MaxUid, NEW u
    PROVE  UidIn(u, dr) \in DOMAIN dr => UidIn(u, dr) = u /\ u \in DOMAIN dr
  BY GoneIs DEF UidIn

\* The names that go are of nothing a composer or a request holds.
LEMMA BecomeHolds ==
    ASSUME NEW pg, NEW jb, NEW dr, NEW st, Args(pg, jb, dr, st), Became(pg, jb, dr, st),
           NEW ex, Holds(pg, jb, dr, st, ex)
    PROVE  Holds(page', job', dr, st, ex)
<1>1. DOMAIN dr \subseteq 1 .. MaxUid /\ st \subseteq 1 .. MaxFile
  BY DEF Args
<1>2. ASSUME NEW p \in Pages PROVE PageHolds(page'[p], dr, st, ex)
  <2>1. PageNamed(pg[p], page'[p], dr, st) /\ PageHolds(pg[p], dr, st, ex)
    BY DEF Became, Holds
  <2>2. Res(page'[p].text, page'[p].file, st) = Res(pg[p].text, pg[p].file, st)
    BY <1>1, <2>1, ResNamed DEF PageNamed
  <2>3. page'[p].uid \in DOMAIN dr => page'[p].uid = pg[p].uid
    BY <1>1, <2>1, UidNamed DEF PageNamed
  <2>4. QED
    BY <2>1, <2>2, <2>3 DEF PageHolds
<1>3. ASSUME NEW r \in Requests PROVE JobOK(job'[r], page', dr, st, ex)
  <2> DEFINE x == jb[r]
             y == job'[r]
  <2>1. JobNamed(x, y, pg, dr, st) /\ JobOK(x, pg, dr, st, ex) /\ y \in Job
    BY DEF Became, Holds
  <2> HIDE DEF x, y
  <2>2. Res(y.text, y.file, st) = Res(x.text, x.file, st)
    BY <1>1, <2>1, ResNamed DEF JobNamed
  <2>3. (y.uid \in DOMAIN dr => y.uid = x.uid) /\ (y.new \in DOMAIN dr => y.new = x.new)
    BY <1>1, <2>1, UidNamed DEF JobNamed
  <2>4. y.file \in st => y.file = x.file
    BY <1>1, <2>1, GoneIs DEF JobNamed, FileIn
  <2>5. JobHolds(y, dr, st, ex)
    BY <2>1, <2>2, <2>3 DEF JobOK, JobHolds, JobNamed
  <2>6. JobSent(y, dr, st, ex)
    BY <2>1, <2>3, <2>4 DEF JobOK, JobSent, JobNamed
  <2>7. ASSUME y.page # None PROVE JobReplies(y, page'[y.page], dr, st, ex)
    <3>1. y.page = x.page /\ x.page # None /\ y.page \in Pages
      BY <2>1, <2>7, JobParts DEF JobNamed
    <3>2. PageNamed(pg[y.page], page'[y.page], dr, st) /\ JobReplies(x, pg[y.page], dr, st, ex)
      BY <2>1, <3>1 DEF Became, JobOK
    <3>3. Res(page'[y.page].text, page'[y.page].file, st) = Res(pg[y.page].text, pg[y.page].file, st)
      BY <1>1, <3>2, ResNamed DEF PageNamed
    <3>4. y.at = x.at /\ y.auto = x.auto /\ page'[y.page].at = pg[y.page].at
      BY <2>1, <3>2 DEF JobNamed, PageNamed
    <3>5. QED
      BY <2>2, <2>3, <3>2, <3>3, <3>4 DEF JobReplies
  <2>8. QED
    BY <2>5, <2>6, <2>7 DEF JobOK, y
<1>4. QED
  BY <1>2, <1>3 DEF Holds

LEMMA BecomeKept ==
    ASSUME NEW pg, NEW jb, NEW dr, NEW st, Args(pg, jb, dr, st), Became(pg, jb, dr, st),
           NEW ow, Kept(ow, jb, dr)
    PROVE  Kept(ow, job', dr)
<1>1. ASSUME NEW u \in DOMAIN dr, Stays(u, jb) PROVE Stays(u, job')
  <2>1. \A r \in Requests : job'[r].at = jb[r].at /\ job'[r].uid = UidIn(jb[r].uid, dr)
    BY DEF Became, JobNamed
  <2>2. DOMAIN dr \subseteq 1 .. MaxUid
    BY DEF Args
  <2>3. QED
    BY <1>1, <2>1, <2>2, UidNamed DEF Stays
<1>2. QED
  BY <1>1 DEF Kept

\* A file that goes, or a copy, leaves the rest held.
LEMMA HoldsLess ==
    ASSUME NEW pg, NEW jb, NEW dr, NEW st, NEW ex, Holds(pg, jb, dr, st, ex),
           NEW d, DOMAIN d \subseteq DOMAIN dr, \A u \in DOMAIN d : d[u] = dr[u],
           NEW s, s \subseteq st, NEW e, ex \subseteq e, s = st \/ File \in e
    PROVE  Holds(pg, jb, d, s, e)
<1>1. \A text, f : Res(text, f, st) \ e \subseteq Res(text, f, s) /\ Res(text, f, s) \subseteq Res(text, f, st)
  BY DEF Res
<1>2. ASSUME NEW p \in Pages PROVE PageHolds(pg[p], d, s, e)
  <2>1. PageHolds(pg[p], dr, st, ex)
    BY DEF Holds
  <2>2. QED
    BY <1>1, <2>1 DEF PageHolds
<1>3. ASSUME NEW r \in Requests PROVE JobOK(jb[r], pg, d, s, e)
  <2>1. JobOK(jb[r], pg, dr, st, ex)
    BY DEF Holds
  <2>2. JobHolds(jb[r], d, s, e)
    BY <1>1, <2>1 DEF JobOK, JobHolds
  <2>3. JobSent(jb[r], d, s, e)
    BY <2>1 DEF JobOK, JobSent
  <2>4. ASSUME jb[r].page # None PROVE JobReplies(jb[r], pg[jb[r].page], d, s, e)
    <3> DEFINE x == pg[jb[r].page]
               j == jb[r]
    <3>1. JobReplies(j, x, dr, st, ex)
      BY <2>1, <2>4 DEF JobOK
    <3> HIDE DEF x, j
    <3>2. QED
      BY <1>1, <3>1 DEF JobReplies, x, j
  <2>5. QED
    BY <2>2, <2>3, <2>4 DEF JobOK
<1>4. QED
  BY <1>2, <1>3 DEF Holds

\* A composer that holds as much as it did, or that no request answers.
LEMMA HoldsPage ==
    ASSUME NEW pg \in [Pages -> Page], NEW jb \in [Requests -> Job], NEW dr, NEW st, NEW ex,
           Holds(pg, jb, dr, st, ex),
           NEW p \in Pages, NEW x, PageHolds(x, dr, st, ex),
           \/ x.at # "open"
           \/ /\ pg[p].at = "open"
              /\ Res(pg[p].text, pg[p].file, st) \ ex \subseteq Res(x.text, x.file, st)
           \/ \A r \in Requests : jb[r].page # p,
           NEW q, q = [pg EXCEPT ![p] = x]
    PROVE  Holds(q, jb, dr, st, ex)
<1>1. q[p] = x /\ \A o \in Pages : o # p => q[o] = pg[o]
  OBVIOUS
<1>2. ASSUME NEW o \in Pages PROVE PageHolds(q[o], dr, st, ex)
  BY <1>1 DEF Holds
<1>3. ASSUME NEW r \in Requests PROVE JobOK(jb[r], q, dr, st, ex)
  <2>1. JobOK(jb[r], pg, dr, st, ex) /\ jb[r].page \in Pages \union {None}
    BY JobParts DEF Holds
  <2>2. ASSUME jb[r].page # None PROVE JobReplies(jb[r], q[jb[r].page], dr, st, ex)
    <3>1. JobReplies(jb[r], pg[jb[r].page], dr, st, ex)
      BY <2>1, <2>2 DEF JobOK
    <3>2. CASE jb[r].page # p
      BY <1>1, <2>1, <2>2, <3>1, <3>2
    <3>3. CASE jb[r].page = p
      <4>1. JobReplies(jb[r], pg[p], dr, st, ex)
        BY <3>1, <3>3
      <4>2. JobReplies(jb[r], x, dr, st, ex)
        BY <3>3, <4>1 DEF JobReplies
      <4>3. QED
        BY <1>1, <3>3, <4>2
    <3>4. QED
      BY <3>2, <3>3
  <2>3. QED
    BY <2>1, <2>2 DEF JobOK
<1>4. QED
  BY <1>2, <1>3 DEF Holds

LEMMA HoldsJob ==
    ASSUME NEW pg, NEW jb \in [Requests -> Job], NEW dr, NEW st, NEW ex,
           Holds(pg, jb, dr, st, ex),
           NEW r \in Requests, NEW j, JobOK(j, pg, dr, st, ex),
           NEW k, k = [jb EXCEPT ![r] = j]
    PROVE  Holds(pg, k, dr, st, ex)
<1>1. k[r] = j /\ \A s \in Requests : s # r => k[s] = jb[s]
  OBVIOUS
<1>2. QED
  BY <1>1 DEF Holds

\* A new copy that nobody names but the request that made it.
LEMMA HoldsCopy ==
    ASSUME NEW pg, NEW jb, NEW dr, NEW st, NEW ex, Holds(pg, jb, dr, st, ex),
           NEW u, u \notin DOMAIN dr,
           \A p \in Pages : pg[p].uid # u,
           \A r \in Requests : jb[r].uid # u /\ jb[r].new # u,
           NEW d, DOMAIN d = DOMAIN dr \union {u}, \A v \in DOMAIN dr : d[v] = dr[v]
    PROVE  Holds(pg, jb, d, st, ex)
<1>1. ASSUME NEW p \in Pages PROVE PageHolds(pg[p], d, st, ex)
  <2>1. PageHolds(pg[p], dr, st, ex) /\ pg[p].uid # u
    BY DEF Holds
  <2>2. QED
    BY <2>1 DEF PageHolds
<1>2. ASSUME NEW r \in Requests PROVE JobOK(jb[r], pg, d, st, ex)
  <2> DEFINE j == jb[r]
             x == pg[jb[r].page]
  <2>1. JobOK(j, pg, dr, st, ex) /\ j.uid # u /\ j.new # u
    BY DEF Holds
  <2>2. j.page # None => JobReplies(j, x, dr, st, ex)
    BY <2>1 DEF JobOK
  <2> HIDE DEF j, x
  <2>3. JobHolds(j, d, st, ex)
    BY <2>1 DEF JobOK, JobHolds
  <2>4. JobSent(j, d, st, ex)
    BY <2>1 DEF JobOK, JobSent
  <2>5. j.page # None => JobReplies(j, x, d, st, ex)
    BY <2>1, <2>2 DEF JobReplies
  <2>6. QED
    BY <2>3, <2>4, <2>5 DEF JobOK, j, x
<1>3. QED
  BY <1>1, <1>2 DEF Holds

\* A new file that nobody names yet.
LEMMA HoldsFile ==
    ASSUME NEW pg, NEW jb, NEW dr, NEW st, NEW ex, Holds(pg, jb, dr, st, ex),
           NEW f, \A r \in Requests : jb[r].file # f
    PROVE  Holds(pg, jb, dr, st \union {f}, ex)
<1>1. \A text, g : Res(text, g, st) \subseteq Res(text, g, st \union {f})
  BY DEF Res
<1>2. \A r \in Requests : Res(jb[r].text, jb[r].file, st \union {f}) = Res(jb[r].text, jb[r].file, st)
  BY DEF Res
<1>3. ASSUME NEW p \in Pages PROVE PageHolds(pg[p], dr, st \union {f}, ex)
  <2>1. PageHolds(pg[p], dr, st, ex)
    BY DEF Holds
  <2>2. QED
    BY <1>1, <2>1 DEF PageHolds
<1>4. ASSUME NEW r \in Requests PROVE JobOK(jb[r], pg, dr, st \union {f}, ex)
  <2> DEFINE j == jb[r]
             x == pg[jb[r].page]
  <2>1. JobOK(j, pg, dr, st, ex) /\ j.file # f /\ Res(j.text, j.file, st \union {f}) = Res(j.text, j.file, st)
    BY <1>2 DEF Holds
  <2>2. j.page # None => JobReplies(j, x, dr, st, ex)
    BY <2>1 DEF JobOK
  <2> HIDE DEF j, x
  <2>3. JobHolds(j, dr, st \union {f}, ex)
    BY <1>1, <2>1 DEF JobOK, JobHolds
  <2>4. JobSent(j, dr, st \union {f}, ex)
    BY <2>1 DEF JobOK, JobSent
  <2>5. j.page # None => JobReplies(j, x, dr, st \union {f}, ex)
    BY <1>1, <2>1, <2>2 DEF JobReplies
  <2>6. QED
    BY <2>3, <2>4, <2>5 DEF JobOK, j, x
<1>5. QED
  BY <1>3, <1>4 DEF Holds

\* The invariant, and what a step must show to keep it.
Bounded == edits \in 0 .. MaxEdit /\ sent \in BOOLEAN /\ trouble \in 0 .. MaxTrouble
Debts(ow, ex) == ow \subseteq Part /\ ex \subseteq Part /\ ow \intersect ex = {}
DraftsInv ==
    /\ Args(page, job, drafts, store) /\ Bounded /\ Debts(owed, excused)
    /\ RefsOK
    /\ Holds(page, job, drafts, store, excused)
    /\ Kept(owed, job, drafts)

LEMMA InvNext ==
    ASSUME NEW pg, NEW jb, NEW dr, NEW st, Args(pg, jb, dr, st), Become(pg, jb, dr, st),
           Bounded', Debts(owed', excused'), Holds(pg, jb, dr, st, excused'), Kept(owed', jb, dr)
    PROVE  DraftsInv'
<1>1. Became(pg, jb, dr, st)
  BY BecomeIs
<1>2. /\ \A p \in Pages : PageRefs(page'[p], dr, st)
      /\ \A r \in Requests : JobRefs(job'[r], page', dr, st)
      /\ Holds(page', job', dr, st, excused') /\ Kept(owed', job', dr)
  BY <1>1, BecomeRefs, BecomeHolds, BecomeKept
<1>3. drafts' = dr /\ store' = st /\ page' \in [Pages -> Page] /\ job' \in [Requests -> Job]
  BY <1>1 DEF Became
<1>4. Args(page', job', drafts', store')
  BY <1>3 DEF Args
<1>5. RefsOK'
  BY <1>2, <1>3 DEF RefsOK
<1>6. Holds(page', job', drafts', store', excused') /\ Kept(owed', job', drafts')
  BY <1>2, <1>3
<1>7. QED
  BY <1>4, <1>5, <1>6 DEF DraftsInv

LEMMA TroubleOK == Bounded /\ (Trouble \/ Calm) => trouble' \in 0 .. MaxTrouble
<1> SUFFICES ASSUME Bounded, Trouble \/ Calm PROVE trouble' \in 0 .. MaxTrouble
  OBVIOUS
<1>1. trouble \in Nat /\ trouble <= MaxTrouble /\ MaxTrouble \in Nat
  BY Bounds DEF Bounded
<1>2. QED
  BY <1>1 DEF Trouble, Calm

LEMMA Records ==
    /\ Fresh \in Page /\ Closed \in Page /\ Closed.at = "closed" /\ Closed.uid = 0
    /\ Fresh.at = "open" /\ Fresh.uid = 0 /\ Fresh.file = 0 /\ Fresh.text = {}
    /\ New \in Job /\ Over \in Job /\ Over.at = "done" /\ Over.page = None
    /\ New.at = "new" /\ New.page = None /\ New.auto = FALSE /\ New.uid = 0 /\ New.new = 0
<1>1. Fresh \in Page /\ New \in Job
  BY GoneIs DEF Fresh, New, Page, Job
<1>2. Closed \in Page /\ Over \in Job
  BY <1>1 DEF Closed, Over, Page, Job
<1>3. QED
  BY <1>1, <1>2 DEF Closed, Over, Fresh, New

LEMMA ClosedHolds ==
    ASSUME NEW dr, DOMAIN dr \subseteq 1 .. MaxUid, NEW st, NEW ex
    PROVE  PageHolds(Closed, dr, st, ex)
  BY Records, GoneIs DEF PageHolds

LEMMA OverOK == \A pg, dr, st, ex : JobOK(Over, pg, dr, st, ex)
  BY Records DEF JobOK, JobHolds, JobSent

LEMMA KeptJob ==
    ASSUME NEW ow, NEW jb \in [Requests -> Job], NEW dr, Kept(ow, jb, dr), NEW r \in Requests, NEW j,
           \/ j.at \notin {"find", "supersede"}
           \/ jb[r].at \in {"find", "supersede"} /\ j.uid = jb[r].uid,
           NEW k, k = [jb EXCEPT ![r] = j], NEW o, o \subseteq ow
    PROVE  Kept(o, k, dr)
<1>1. k[r] = j /\ \A s \in Requests : s # r => k[s] = jb[s]
  OBVIOUS
<1>2. \A u \in DOMAIN dr : Stays(u, jb) => Stays(u, k)
  BY <1>1 DEF Stays
<1>3. QED
  BY <1>2 DEF Kept

\* What is not there to be deleted, or is excused, takes nothing that is owed.
LEMMA KeptLess ==
    ASSUME NEW ow, NEW jb, NEW dr, Kept(ow, jb, dr), NEW w,
           \A x \in ow : \A u \in DOMAIN dr : x \in dr[u] /\ Stays(u, jb) => u # w,
           NEW d, d = Restrict(dr, DOMAIN dr \ {w})
    PROVE  Kept(ow, jb, d)
<1>1. DOMAIN d = DOMAIN dr \ {w} /\ \A u \in DOMAIN d : d[u] = dr[u]
  BY DEF Restrict
<1>2. QED
  BY <1>1 DEF Kept

LEMMA InvParts ==
    ASSUME DraftsInv
    PROVE  /\ page \in [Pages -> Page] /\ job \in [Requests -> Job]
           /\ DOMAIN drafts \subseteq 1 .. MaxUid /\ (\A u \in DOMAIN drafts : drafts[u] \subseteq Part)
           /\ store \subseteq 1 .. MaxFile /\ Bounded /\ Debts(owed, excused)
           /\ owed \in SUBSET Part /\ excused \in SUBSET Part /\ owed \intersect excused = {}
           /\ Holds(page, job, drafts, store, excused) /\ Kept(owed, job, drafts)
           /\ \A p \in Pages : page[p] \in Page /\ PageRefs(page[p], drafts, store)
           /\ \A r \in Requests : job[r] \in Job /\ JobRefs(job[r], page, drafts, store)
  BY DEF DraftsInv, Args, RefsOK, Debts

\* The composer of an answer.
LEMMA ShownIs ==
    ASSUME page \in [Pages -> Page], NEW r \in Requests, job[r].page \in Pages \union {None}, NEW x
    PROVE  /\ job[r].page = None => Shown(r, x) = page
           /\ job[r].page # None => /\ job[r].page \in Pages
                                    /\ Shown(r, x) = [page EXCEPT ![job[r].page] = x]
<1>1. job[r].page = None => Waiting(r) = {}
  BY DraftsAssumption DEF Waiting
<1>2. job[r].page # None => job[r].page \in Pages /\ Waiting(r) = {job[r].page}
  BY DEF Waiting
<1>3. Shown(r, x) = [p \in Pages |-> IF p \in Waiting(r) THEN x ELSE page[p]]
  BY DEF Shown
<1>4. CASE job[r].page = None
  BY <1>1, <1>3, <1>4
<1>5. CASE job[r].page # None
  BY <1>2, <1>3, <1>5
<1>6. QED
  BY <1>4, <1>5

LEMMA ClosedIs ==
    ASSUME DraftsInv, NEW r \in Requests, NEW jb \in [Requests -> Job], NEW dr, NEW st, NEW ex,
           DOMAIN dr \subseteq 1 .. MaxUid, Holds(page, jb, dr, st, ex)
    PROVE  Shown(r, Closed) \in [Pages -> Page] /\ Holds(Shown(r, Closed), jb, dr, st, ex)
<1>1. page \in [Pages -> Page] /\ job[r].page \in Pages \union {None} /\ Closed \in Page /\ Closed.at # "open"
  BY InvParts, JobParts, Records
<1>2. CASE job[r].page = None
  BY <1>1, <1>2, ShownIs
<1>3. CASE job[r].page # None
  <2>1. job[r].page \in Pages /\ Shown(r, Closed) = [page EXCEPT ![job[r].page] = Closed]
    BY <1>1, <1>3, ShownIs
  <2>2. Shown(r, Closed) \in [Pages -> Page]
    BY <1>1, <2>1
  <2>3. PageHolds(Closed, dr, st, ex)
    BY ClosedHolds
  <2> DEFINE q == job[r].page
             s == Shown(r, Closed)
  <2>4. q \in Pages /\ s = [page EXCEPT ![q] = Closed]
    BY <2>1
  <2> HIDE DEF q, s
  <2>5. Holds(s, jb, dr, st, ex)
    BY <1>1, <2>3, <2>4, HoldsPage
  <2>6. QED
    BY <2>2, <2>5 DEF s
<1>4. QED
  BY <1>2, <1>3

\* An answer gives a composer a copy of no more than it holds.
LEMMA AnswerHolds ==
    ASSUME DraftsInv, NEW r \in Requests, NEW uid \in 0 .. Gone, NEW a \in Answers(r, uid), NEW dr,
           DOMAIN dr \subseteq 1 .. MaxUid, Holds(page, job, dr, store, excused),
           job[r].auto /\ job[r].page # None /\ uid \in DOMAIN dr
             => dr[uid] \ excused
                  \subseteq Res(page[job[r].page].text, page[job[r].page].file, store)
    PROVE  a \in [Pages -> Page] /\ Holds(a, job, dr, store, excused)
<1>1. /\ page \in [Pages -> Page] /\ job \in [Requests -> Job] /\ job[r].page \in Pages \union {None}
      /\ JobRefs(job[r], page, drafts, store)
  BY InvParts, JobParts
<1>2. CASE a = Shown(r, Closed)
  BY <1>1, <1>2, ClosedIs
<1>3. CASE a # Shown(r, Closed)
  <2>1. PICK p \in IF job[r].auto THEN Waiting(r) ELSE {} :
          a = Shown(r, [page[p] EXCEPT !.uid = IF uid = 0 THEN @ ELSE uid, !.clean = TRUE])
    BY <1>3, Zenon DEF Answers
  <2>2. job[r].auto /\ job[r].page = p /\ p \in Pages /\ job[r].page # None
    BY <2>1, DraftsAssumption DEF Waiting
  <2> DEFINE n == IF uid = 0 THEN page[p].uid ELSE uid
             x == [page[p] EXCEPT !.uid = n, !.clean = TRUE]
  <2>3. a = [page EXCEPT ![p] = x]
    BY <1>1, <2>1, <2>2, ShownIs
  <2>4. page[p] \in Page /\ n \in 0 .. Gone
    BY <1>1, <2>2, PageParts
  <2> HIDE DEF n
  <2>5. x \in Page
    BY <2>4, ZenonT(40) DEF Page
  <2>6. x.at = page[p].at /\ x.text = page[p].text /\ x.file = page[p].file /\ x.uid = n
    BY <2>4 DEF Page
  <2> HIDE DEF x
  <2>7. PageHolds(x, dr, store, excused)
    <3>1. PageHolds(page[p], dr, store, excused)
      BY <2>2 DEF Holds
    <3>2. CASE uid = 0
      <4>1. n = page[p].uid
        BY <3>2 DEF n
      <4>2. QED
        BY <2>6, <3>1, <4>1 DEF PageHolds
    <3>3. CASE uid # 0
      <4>1. n = uid
        BY <3>3 DEF n
      <4>2. QED
        BY <2>2, <2>6, <4>1 DEF PageHolds
    <3>4. QED
      BY <3>2, <3>3
  <2>8. page[p].at = "open"
    BY <1>1, <2>2 DEF JobRefs
  <2>9. Res(page[p].text, page[p].file, store) \ excused \subseteq Res(x.text, x.file, store)
    BY <2>6
  <2>10. Holds(a, job, dr, store, excused)
    BY <1>1, <2>2, <2>3, <2>7, <2>8, <2>9, HoldsPage
  <2>11. a \in [Pages -> Page]
    BY <1>1, <2>2, <2>3, <2>5
  <2>12. QED
    BY <2>10, <2>11
<1>4. QED
  BY <1>2, <1>3

LEMMA TypeTextStep ==
    ASSUME DraftsInv, NEW p \in Pages, Type(p)
    PROVE  DraftsInv'
<1> DEFINE x == [page[p] EXCEPT !.text = @ \union {edits'}, !.clean = FALSE]
           pg == [page EXCEPT ![p] = x]
<1>1. /\ Become(pg, job, drafts, store) /\ page[p].at = "open" /\ edits < MaxEdit /\ edits' = edits + 1
      /\ UNCHANGED <<sent, owed, excused, trouble>>
  BY DEF Type, Only, With, Composer, History, Debt
<1>2. edits' \in 0 .. MaxEdit /\ edits' \in Part
  BY <1>1, Bounds, InvParts DEF Bounded, Part
<1>3. page \in [Pages -> Page] /\ page[p] \in Page /\ Holds(page, job, drafts, store, excused)
      /\ job \in [Requests -> Job]
  BY InvParts
<1>4. x.at = page[p].at /\ x.text = page[p].text \union {edits'} /\ x.file = page[p].file /\ x.uid = page[p].uid
  BY <1>3 DEF Page
<1>5. x \in Page
  <2> DEFINE t == page[p].text \union {edits'}
  <2>1. t \in SUBSET Part
    BY <1>2, <1>3, PageParts
  <2>2. x = [page[p] EXCEPT !.text = t, !.clean = FALSE]
    OBVIOUS
  <2> HIDE DEF t, x
  <2>3. QED
    BY <1>3, <2>1, <2>2, ZenonT(40) DEF Page
<1> HIDE DEF x
<1>6. PageHolds(x, drafts, store, excused)
  BY <1>3, <1>4 DEF Holds, PageHolds, Res
<1>7. Res(page[p].text, page[p].file, store) \ excused \subseteq Res(x.text, x.file, store)
  BY <1>4 DEF Res
<1>8. Holds(pg, job, drafts, store, excused)
  BY <1>1, <1>3, <1>6, <1>7, HoldsPage
<1>9. pg \in [Pages -> Page]
  BY <1>3, <1>5
<1> HIDE DEF pg
<1>10. Args(pg, job, drafts, store)
  BY <1>9, InvParts DEF Args
<1>11. Bounded' /\ Debts(owed', excused') /\ Kept(owed', job, drafts) /\ excused' = excused
  BY <1>1, <1>2, InvParts DEF Bounded
<1>12. QED
  BY <1>1, <1>8, <1>10, <1>11, InvNext

LEMMA FreeFile ==
    ASSUME DraftsInv, FreeFiles # {}
    PROVE  /\ Least(FreeFiles) \in 1 .. MaxFile /\ Least(FreeFiles) \notin store
           /\ \A r \in Requests : job[r].file # Least(FreeFiles)
<1>1. Least(FreeFiles) \in FreeFiles
  BY Bounds, LeastIs DEF FreeFiles
<1>2. \A r \in Requests : job[r].file \in store \union {0, Lost}
  BY InvParts DEF JobRefs
<1>3. QED
  BY <1>1, <1>2, GoneIs DEF FreeFiles

LEMMA AttachStep ==
    ASSUME DraftsInv, NEW p \in Pages, Attach(p)
    PROVE  DraftsInv'
<1> DEFINE f == Least(FreeFiles)
           x == [page[p] EXCEPT !.file = f]
           pg == [page EXCEPT ![p] = x]
           st == store \union {f}
<1>1. /\ Become(pg, job, drafts, st) /\ page[p].at = "open" /\ FreeFiles # {}
      /\ page[p].file = 0 \/ page[p].file \notin store
      /\ UNCHANGED <<edits, sent, owed, excused, trouble>>
  BY DEF Attach, With, Composer, History, Debt, Missing
<1>2. f \in 1 .. MaxFile /\ f \notin store /\ \A r \in Requests : job[r].file # f
  BY <1>1, FreeFile
<1> HIDE DEF f
<1>3. page \in [Pages -> Page] /\ page[p] \in Page /\ Holds(page, job, drafts, store, excused)
      /\ job \in [Requests -> Job] /\ store \subseteq 1 .. MaxFile
  BY InvParts
<1>4. x.at = page[p].at /\ x.text = page[p].text /\ x.file = f /\ x.uid = page[p].uid
  BY <1>3 DEF Page
<1>5. x \in Page
  <2>1. f \in 0 .. Lost
    BY <1>2, GoneIs
  <2>2. QED
    BY <1>3, <2>1, ZenonT(40) DEF Page
<1> HIDE DEF x
<1>6. Holds(page, job, drafts, st, excused)
  BY <1>2, <1>3, HoldsFile
<1>7. PageHolds(page[p], drafts, store, excused)
  BY <1>3 DEF Holds
<1>8. PageHolds(x, drafts, st, excused)
  BY <1>4, <1>7 DEF PageHolds, Res
<1>9. Res(page[p].text, page[p].file, st) \ excused \subseteq Res(x.text, x.file, st)
  BY <1>4 DEF Res
<1>10. Holds(pg, job, drafts, st, excused)
  BY <1>1, <1>3, <1>6, <1>8, <1>9, HoldsPage
<1>11. pg \in [Pages -> Page]
  BY <1>3, <1>5
<1>12. st \subseteq 1 .. MaxFile
  BY <1>2, <1>3
<1> HIDE DEF pg, st
<1>13. Args(pg, job, drafts, st)
  BY <1>11, <1>12, InvParts DEF Args
<1>14. Bounded' /\ Debts(owed', excused') /\ Kept(owed', job, drafts) /\ excused' = excused
  BY <1>1, InvParts DEF Bounded
<1>15. QED
  BY <1>1, <1>10, <1>13, <1>14, InvNext

LEMMA ExcusesOK ==
    ASSUME DraftsInv, NEW S \in SUBSET Part, Excuses(S)
    PROVE  /\ Debts(owed', excused') /\ owed' \subseteq owed /\ excused \subseteq excused'
           /\ S \subseteq excused'
<1>1. owed' = owed \ S /\ excused' = excused \union S
  BY DEF Excuses
<1>2. QED
  BY <1>1, InvParts DEF Debts

LEMMA FileIsPart == {File} \in SUBSET Part
  BY Bounds DEF File, Part

LEMMA RemoveStep ==
    ASSUME DraftsInv, NEW p \in Pages, RemoveFile(p)
    PROVE  DraftsInv'
<1> DEFINE x == [page[p] EXCEPT !.file = 0]
           pg == [page EXCEPT ![p] = x]
           st == store \ {page[p].file}
<1>1. /\ Become(pg, job, drafts, st) /\ page[p].at = "open" /\ Excuses({File})
      /\ UNCHANGED <<edits, sent, trouble>>
  BY DEF RemoveFile, With, Composer
<1>2. /\ Debts(owed', excused') /\ owed' \subseteq owed /\ excused \subseteq excused'
      /\ File \in excused'
  BY <1>1, ExcusesOK, FileIsPart
<1>3. page \in [Pages -> Page] /\ page[p] \in Page /\ Holds(page, job, drafts, store, excused)
      /\ job \in [Requests -> Job] /\ store \subseteq 1 .. MaxFile
  BY InvParts
<1>4. x.at = page[p].at /\ x.text = page[p].text /\ x.file = 0 /\ x.uid = page[p].uid
  BY <1>3 DEF Page
<1>5. x \in Page
  BY <1>3, GoneIs, ZenonT(40) DEF Page
<1> HIDE DEF x
<1>6. Holds(page, job, drafts, st, excused')
  BY <1>2, <1>3, HoldsLess
<1>7. PageHolds(page[p], drafts, st, excused')
  BY <1>6 DEF Holds
<1>8. PageHolds(x, drafts, st, excused')
  BY <1>2, <1>4, <1>7 DEF PageHolds, Res
<1>9. Res(page[p].text, page[p].file, st) \ excused' \subseteq Res(x.text, x.file, st)
  BY <1>2, <1>4 DEF Res
<1>10. Holds(pg, job, drafts, st, excused')
  BY <1>1, <1>3, <1>6, <1>8, <1>9, HoldsPage
<1>11. pg \in [Pages -> Page]
  BY <1>3, <1>5
<1>12. st \subseteq 1 .. MaxFile
  BY <1>3
<1> HIDE DEF pg, st
<1>13. Args(pg, job, drafts, st)
  BY <1>11, <1>12, InvParts DEF Args
<1>14. Bounded'
  BY <1>1, InvParts DEF Bounded
<1>15. Kept(owed', job, drafts)
  BY <1>2, InvParts DEF Kept
<1>16. QED
  BY <1>1, <1>2, <1>10, <1>13, <1>14, <1>15, InvNext

\* A strip without its file leaves the rest held, if the file is excused or was
\* gone.
LEMMA EmptyStep ==
    ASSUME DraftsInv, NEW p \in Pages, AttachRefused(p) \/ AttachTooLarge(p)
    PROVE  DraftsInv'
<1> DEFINE x == [page[p] EXCEPT !.file = 0]
           pg == [page EXCEPT ![p] = x]
<1>1. /\ Become(pg, job, drafts, store) /\ page[p].at = "open"
      /\ UNCHANGED <<edits, sent, trouble>>
      /\ \/ Missing(page[p].file) /\ UNCHANGED <<owed, excused>>
         \/ Excuses({File})
  BY DEF AttachRefused, AttachTooLarge, Only, With, Composer, History, Debt
<1>2. /\ Debts(owed', excused') /\ owed' \subseteq owed /\ excused \subseteq excused'
      /\ page[p].file \notin store \/ File \in excused'
  <2>1. CASE Missing(page[p].file) /\ UNCHANGED <<owed, excused>>
    BY <2>1, InvParts DEF Missing
  <2>2. CASE Excuses({File})
    BY <2>2, ExcusesOK, FileIsPart
  <2>3. QED
    BY <1>1, <2>1, <2>2
<1>3. page \in [Pages -> Page] /\ page[p] \in Page /\ Holds(page, job, drafts, store, excused)
      /\ job \in [Requests -> Job]
  BY InvParts
<1>4. x.at = page[p].at /\ x.text = page[p].text /\ x.file = 0 /\ x.uid = page[p].uid
  BY <1>3 DEF Page
<1>5. x \in Page
  BY <1>3, GoneIs, ZenonT(40) DEF Page
<1> HIDE DEF x
<1>6. Holds(page, job, drafts, store, excused')
  BY <1>2, <1>3, InvParts, HoldsLess
<1>7. PageHolds(page[p], drafts, store, excused')
  BY <1>6 DEF Holds
<1>8. PageHolds(x, drafts, store, excused')
  BY <1>2, <1>4, <1>7 DEF PageHolds, Res
<1>9. Res(page[p].text, page[p].file, store) \ excused' \subseteq Res(x.text, x.file, store)
  BY <1>2, <1>4 DEF Res
<1>10. Holds(pg, job, drafts, store, excused')
  BY <1>1, <1>3, <1>6, <1>8, <1>9, HoldsPage
<1>11. pg \in [Pages -> Page]
  BY <1>3, <1>5
<1> HIDE DEF pg
<1>12. Args(pg, job, drafts, store)
  BY <1>11, InvParts DEF Args
<1>13. Bounded'
  BY <1>1, InvParts DEF Bounded
<1>14. Kept(owed', job, drafts)
  BY <1>2, InvParts DEF Kept
<1>15. QED
  BY <1>1, <1>2, <1>10, <1>12, <1>13, <1>14, InvNext

LEMMA LeaveStep ==
    ASSUME DraftsInv, NEW p \in Pages, LeavePage(p)
    PROVE  DraftsInv'
<1> DEFINE pg == [page EXCEPT ![p] = Closed]
<1>1. /\ Become(pg, job, drafts, store) /\ UNCHANGED <<edits, sent, owed, excused, trouble>>
  BY DEF LeavePage, Only, With, History, Debt
<1>2. page \in [Pages -> Page] /\ Holds(page, job, drafts, store, excused)
      /\ job \in [Requests -> Job] /\ DOMAIN drafts \subseteq 1 .. MaxUid
  BY InvParts
<1>3. PageHolds(Closed, drafts, store, excused) /\ Closed.at # "open" /\ Closed \in Page
  BY <1>2, ClosedHolds, Records
<1>4. Holds(pg, job, drafts, store, excused)
  BY <1>2, <1>3, HoldsPage
<1>5. pg \in [Pages -> Page]
  BY <1>2, <1>3
<1> HIDE DEF pg
<1>6. Args(pg, job, drafts, store)
  BY <1>5, InvParts DEF Args
<1>7. Bounded' /\ Debts(owed', excused') /\ Kept(owed', job, drafts) /\ excused' = excused
  BY <1>1, InvParts DEF Bounded
<1>8. QED
  BY <1>1, <1>4, <1>6, <1>7, InvNext

LEMMA ResumeStep ==
    ASSUME DraftsInv, NEW p \in Pages, NEW u \in DOMAIN drafts, Resume(p, u)
    PROVE  DraftsInv'
<1> DEFINE new == IF File \in drafts[u] THEN {Least(FreeFiles)} ELSE {}
           f == IF new = {} THEN 0 ELSE Least(new)
           t == drafts[u] \ {File}
           x == [Fresh EXCEPT !.text = t, !.uid = u, !.file = f]
           pg == [page EXCEPT ![p] = x]
           st == store \union new
<1>1. /\ Become(pg, job, drafts, st) /\ page[p].at = "unused"
      /\ File \in drafts[u] => FreeFiles # {}
      /\ Trouble \/ Calm
      /\ UNCHANGED <<edits, sent, owed, excused>>
  BY DEF Resume, With, Debt
<1>2. page \in [Pages -> Page] /\ page[p] \in Page /\ Holds(page, job, drafts, store, excused)
      /\ job \in [Requests -> Job] /\ store \subseteq 1 .. MaxFile /\ DOMAIN drafts \subseteq 1 .. MaxUid
      /\ drafts[u] \subseteq Part
  BY InvParts
<1>3. File \in drafts[u] =>
        /\ Least(FreeFiles) \in 1 .. MaxFile /\ new = {Least(FreeFiles)} /\ f = Least(FreeFiles)
        /\ \A r \in Requests : job[r].file # Least(FreeFiles)
  <2> SUFFICES ASSUME File \in drafts[u]
               PROVE  /\ Least(FreeFiles) \in 1 .. MaxFile /\ new = {Least(FreeFiles)} /\ f = Least(FreeFiles)
                      /\ \A r \in Requests : job[r].file # Least(FreeFiles)
    OBVIOUS
  <2> DEFINE l == Least(FreeFiles)
  <2>1. l \in 1 .. MaxFile /\ \A r \in Requests : job[r].file # l
    BY <1>1, FreeFile
  <2> HIDE DEF l
  <2>2. {l} \subseteq 1 .. MaxFile /\ {l} # {}
    BY <2>1
  <2>3. Least({l}) \in {l}
    BY <2>2, Bounds, LeastIs
  <2>4. QED
    BY <2>1, <2>3 DEF l
<1>4. File \notin drafts[u] => new = {} /\ f = 0
  OBVIOUS
<1>5. Holds(page, job, drafts, st, excused) /\ st \subseteq 1 .. MaxFile /\ f \in 0 .. Lost
  <2>1. CASE File \in drafts[u]
    <3>1. f \in 0 .. Lost /\ st \subseteq 1 .. MaxFile
      BY <1>2, <1>3, <2>1, GoneIs
    <3>2. st = store \union {f} /\ \A r \in Requests : job[r].file # f
      BY <1>3, <2>1
    <3> HIDE DEF f, st
    <3>3. QED
      BY <1>2, <3>1, <3>2, HoldsFile
  <2>2. CASE File \notin drafts[u]
    <3>1. st = store /\ f = 0
      BY <1>4, <2>2
    <3> HIDE DEF f, st
    <3>2. QED
      BY <1>2, <3>1, GoneIs
  <2>3. QED
    BY <2>1, <2>2
<1>6. File \in drafts[u] => f \in st
  BY <1>3
<1> HIDE DEF new, f, st
<1>7. t \in SUBSET Part /\ u \in 0 .. Gone
  BY <1>2, GoneIs
<1> HIDE DEF t
<1>8. x \in Page
  BY <1>5, <1>7, Records, ZenonT(40) DEF Page
<1>9. x.text = t /\ x.uid = u /\ x.file = f
  BY Records DEF Page
<1> HIDE DEF x
<1>10. PageHolds(x, drafts, st, excused)
  BY <1>6, <1>9 DEF PageHolds, Res, t
<1>11. \A r \in Requests : job[r].page # p
  BY <1>1, DraftsAssumption, InvParts DEF JobRefs
<1>12. Holds(pg, job, drafts, st, excused)
  BY <1>2, <1>5, <1>10, <1>11, HoldsPage
<1>13. pg \in [Pages -> Page]
  BY <1>2, <1>8
<1> HIDE DEF pg
<1>14. Args(pg, job, drafts, st)
  BY <1>5, <1>13, InvParts DEF Args
<1>15. Bounded' /\ Debts(owed', excused') /\ Kept(owed', job, drafts) /\ excused' = excused
  BY <1>1, InvParts, TroubleOK DEF Bounded
<1>16. QED
  BY <1>1, <1>12, <1>14, <1>15, InvNext

LEMMA PostStep ==
    ASSUME DraftsInv, NEW p \in Pages, NEW r \in Requests, NEW j0 \in Job, NEW y,
           j0.at \in {"append", "deliver"}, j0.new = 0,
           j0.page = None \/ j0.page = p, j0.auto => j0.at = "append" /\ y.at = "open",
           \/ y = Closed
           \/ /\ y \in Page /\ y.at = page[p].at /\ y.text = page[p].text
              /\ y.uid = page[p].uid /\ y.file = page[p].file,
           Post(r, p, j0, y)
    PROVE  DraftsInv'
<1> DEFINE x == page[p]
           j == [j0 EXCEPT !.text = x.text, !.file = x.file, !.uid = x.uid]
           pg == [page EXCEPT ![p] = y]
           jb == [job EXCEPT ![r] = j]
<1>1. /\ Become(pg, jb, drafts, store) /\ x.at = "open"
      /\ Trouble \/ Calm
      /\ UNCHANGED <<edits, sent, owed, excused>>
  BY DEF Post, With, Composer, Debt
<1>2. /\ page \in [Pages -> Page] /\ x \in Page /\ Holds(page, job, drafts, store, excused)
      /\ job \in [Requests -> Job] /\ DOMAIN drafts \subseteq 1 .. MaxUid /\ Kept(owed, job, drafts)
  BY InvParts
<1>3. j \in Job
  <2>1. x.text \in SUBSET Part /\ x.file \in 0 .. Lost /\ x.uid \in 0 .. Gone
    BY <1>2, PageParts
  <2> HIDE DEF x
  <2>2. QED
    BY <2>1, ZenonT(40) DEF Job
<1>4. j.at = j0.at /\ j.new = 0 /\ j.page = j0.page /\ j.auto = j0.auto
      /\ j.text = x.text /\ j.file = x.file /\ j.uid = x.uid
  BY DEF Job
<1>5. PageHolds(x, drafts, store, excused)
  BY <1>2 DEF Holds
<1> HIDE DEF j, x
<1>6. PageHolds(y, drafts, store, excused) /\ y \in Page
  <2>1. CASE y = Closed
    BY <1>2, <2>1, ClosedHolds, Records
  <2>2. CASE y.text = x.text /\ y.uid = x.uid /\ y.file = x.file /\ y \in Page
    BY <1>5, <2>2 DEF PageHolds
  <2>3. QED
    BY <2>1, <2>2 DEF x
<1>7. y.at # "open" \/ (x.at = "open" /\ Res(x.text, x.file, store) \ excused \subseteq Res(y.text, y.file, store))
  <2>1. CASE y = Closed
    BY <2>1, Records
  <2>2. CASE y.text = x.text /\ y.file = x.file
    BY <1>1, <2>2
  <2>3. QED
    BY <2>1, <2>2 DEF x
<1>8. Holds(pg, job, drafts, store, excused)
  BY <1>2, <1>6, <1>7, HoldsPage DEF x
<1>9. pg[p] = y /\ pg \in [Pages -> Page]
  BY <1>2, <1>6
<1>10. JobOK(j, pg, drafts, store, excused)
  <2>1. JobHolds(j, drafts, store, excused)
    BY <1>4, <1>5 DEF JobHolds, PageHolds
  <2>2. JobSent(j, drafts, store, excused)
    BY <1>4 DEF JobSent
  <2>3. ASSUME j.page # None PROVE JobReplies(j, pg[j.page], drafts, store, excused)
    <3>1. j.page = p
      BY <1>4, <2>3
    <3>2. JobReplies(j, y, drafts, store, excused)
      <4>1. CASE y = Closed
        BY <4>1, Records DEF JobReplies
      <4>2. CASE y.text = x.text /\ y.file = x.file
        BY <1>4, <4>2 DEF JobReplies
      <4>3. QED
        BY <4>1, <4>2 DEF x
    <3>3. QED
      BY <1>9, <3>1, <3>2
  <2>4. QED
    BY <2>1, <2>2, <2>3 DEF JobOK
<1>11. Holds(pg, jb, drafts, store, excused)
  BY <1>2, <1>8, <1>10, HoldsJob
<1>12. Kept(owed, jb, drafts)
  BY <1>2, <1>4, KeptJob
<1>13. jb \in [Requests -> Job]
  BY <1>2, <1>3
<1> HIDE DEF pg, jb
<1>14. Args(pg, jb, drafts, store)
  BY <1>9, <1>13, InvParts DEF Args
<1>15. Bounded' /\ Debts(owed', excused') /\ Kept(owed', jb, drafts) /\ excused' = excused
  BY <1>1, <1>12, InvParts, TroubleOK DEF Bounded
<1>16. QED
  BY <1>1, <1>11, <1>14, <1>15, InvNext

LEMMA FollowStep ==
    ASSUME DraftsInv, NEW p \in Pages, NEW r \in Requests, FollowLink(r, p)
    PROVE  DraftsInv'
<1> DEFINE j == [New EXCEPT !.at = "append", !.page = p, !.auto = TRUE]
<1>1. Post(r, p, j, page[p]) /\ page[p].at = "open"
  BY DEF FollowLink, Post, Composer
<1>2. j \in Job
  BY Records, ZenonT(40) DEF Job
<1>3. j.at = "append" /\ j.page = p /\ j.new = 0
  BY Records DEF Job
<1>4. page[p] \in Page
  BY InvParts
<1> HIDE DEF j
<1>5. QED
  BY <1>1, <1>2, <1>3, <1>4, PostStep

LEMMA HideStep ==
    ASSUME DraftsInv, NEW p \in Pages, NEW r \in Requests, PageHide(r, p)
    PROVE  DraftsInv'
<1> DEFINE j == [New EXCEPT !.at = "append"]
<1>1. Post(r, p, j, Closed)
  BY DEF PageHide
<1>2. j \in Job
  BY Records, ZenonT(40) DEF Job
<1>3. j.at = "append" /\ j.page = None /\ j.new = 0 /\ j.auto = FALSE
  BY Records DEF Job
<1> HIDE DEF j
<1>4. QED
  BY <1>1, <1>2, <1>3, PostStep

LEMMA PressStep ==
    ASSUME DraftsInv, NEW p \in Pages, NEW r \in Requests, NEW at \in {"append", "deliver"}, Press(r, p, at)
    PROVE  DraftsInv'
<1> DEFINE j == [New EXCEPT !.at = at, !.page = p]
           y == [page[p] EXCEPT !.sending = TRUE]
<1>1. Post(r, p, j, y)
  BY DEF Press
<1>2. j \in Job
  BY Records, ZenonT(40) DEF Job
<1>3. j.at = at /\ j.page = p /\ j.new = 0 /\ j.auto = FALSE
  BY Records DEF Job
<1>4. page[p] \in Page
  BY InvParts
<1>5. y \in Page
  BY <1>4, ZenonT(40) DEF Page
<1>6. y.at = page[p].at /\ y.text = page[p].text /\ y.uid = page[p].uid /\ y.file = page[p].file
  BY <1>4 DEF Page
<1> HIDE DEF j, y
<1>7. QED
  BY <1>1, <1>2, <1>3, <1>5, <1>6, PostStep

LEMMA FormIs == \A r : Form(r) = Res(job[r].text, job[r].file, store)
  BY DEF Form, Resolved, Res

LEMMA FormIsPart ==
    ASSUME DraftsInv, NEW r \in Requests
    PROVE  Form(r) \in SUBSET Part
  BY InvParts, JobParts, FileIsPart DEF Form, Resolved

\* A copy that APPEND made: nobody names it yet.
LEMMA AppendedIs ==
    ASSUME DraftsInv, NEW r \in Requests, FreeUids # {}
    PROVE  /\ Least(FreeUids) \in 1 .. MaxUid /\ Least(FreeUids) \notin DOMAIN drafts
           /\ DOMAIN Appended(r) = DOMAIN drafts \union {Least(FreeUids)}
           /\ DOMAIN Appended(r) \subseteq 1 .. MaxUid
           /\ \A u \in DOMAIN Appended(r) : Appended(r)[u] \subseteq Part
           /\ \A u \in DOMAIN drafts : Appended(r)[u] = drafts[u]
           /\ Appended(r)[Least(FreeUids)] = Form(r)
           /\ \A p \in Pages : page[p].uid # Least(FreeUids)
           /\ \A q \in Requests : job[q].uid # Least(FreeUids) /\ job[q].new # Least(FreeUids)
           /\ Holds(page, job, Appended(r), store, excused)
<1> DEFINE n == Least(FreeUids)
           d == Appended(r)
<1>1. n \in FreeUids
  BY Bounds, LeastIs DEF FreeUids
<1>2. n \in 1 .. MaxUid /\ n \notin DOMAIN drafts
  BY <1>1 DEF FreeUids
<1>3. d = [u \in DOMAIN drafts \union {n} |-> IF u \in DOMAIN drafts THEN drafts[u] ELSE Form(r)]
  BY DEF Appended
<1> HIDE DEF n, d
<1>4. /\ DOMAIN d = DOMAIN drafts \union {n} /\ DOMAIN d \subseteq 1 .. MaxUid
      /\ \A u \in DOMAIN drafts : d[u] = drafts[u]
      /\ d[n] = Form(r)
  BY <1>2, <1>3, InvParts
<1>5. \A u \in DOMAIN d : d[u] \subseteq Part
  BY <1>4, FormIsPart, InvParts
<1>6. n # 0 /\ n # Gone
  BY <1>2, GoneIs
<1>7. \A p \in Pages : page[p].uid # n
  BY <1>2, <1>6, InvParts DEF PageRefs
<1>8. \A q \in Requests : job[q].uid # n /\ job[q].new # n
  BY <1>2, <1>6, InvParts DEF JobRefs
<1>9. Holds(page, job, drafts, store, excused)
  BY InvParts
<1>10. Holds(page, job, d, store, excused)
  BY <1>2, <1>4, <1>7, <1>8, <1>9, HoldsCopy
<1>11. QED
  BY <1>2, <1>4, <1>5, <1>7, <1>8, <1>10 DEF n, d

\* What the new copy holds is owed with the rest, and kept.
LEMMA OwesOK ==
    ASSUME DraftsInv, NEW r \in Requests, FreeUids # {}, Owes(Form(r))
    PROVE  Debts(owed', excused') /\ excused' = excused /\ Kept(owed', job, Appended(r))
<1>1. owed' = owed \union (Form(r) \ excused) /\ excused' = excused
  BY DEF Owes
<1>2. Debts(owed', excused')
  BY <1>1, FormIsPart, InvParts DEF Debts
<1>3. Stays(Least(FreeUids), job)
  BY AppendedIs DEF Stays
<1>4. Kept(owed', job, Appended(r))
  <2> SUFFICES ASSUME NEW x \in owed'
               PROVE  \E u \in DOMAIN Appended(r) : x \in Appended(r)[u] /\ Stays(u, job)
    BY DEF Kept
  <2>1. CASE x \in owed
    <3>1. PICK u \in DOMAIN drafts : x \in drafts[u] /\ Stays(u, job)
      BY <2>1, InvParts DEF Kept
    <3>2. u \in DOMAIN Appended(r) /\ Appended(r)[u] = drafts[u]
      BY AppendedIs
    <3>3. QED
      BY <3>1, <3>2
  <2>2. CASE x \in Form(r)
    <3>1. Least(FreeUids) \in DOMAIN Appended(r) /\ Appended(r)[Least(FreeUids)] = Form(r)
      BY AppendedIs
    <3>2. QED
      BY <1>3, <2>2, <3>1
  <2>3. QED
    BY <1>1, <2>1, <2>2
<1>5. QED
  BY <1>1, <1>2, <1>4

LEMMA AppendStep ==
    ASSUME DraftsInv, NEW r \in Requests, NEW then \in {"find", "supersede"}, Append(r, then)
    PROVE  DraftsInv'
<1> DEFINE n == Least(FreeUids)
           d == Appended(r)
           x == job[r]
           j == [x EXCEPT !.text = {}, !.file = 0, !.new = n, !.at = then]
           jb == [job EXCEPT ![r] = j]
<1>1. /\ x.at = "append" /\ FreeUids # {} /\ Become(page, jb, d, store) /\ Owes(Form(r))
      /\ UNCHANGED <<edits, sent, trouble>>
  BY DEF Append
<1>2. /\ n \in 1 .. MaxUid /\ n \notin DOMAIN drafts
      /\ DOMAIN d = DOMAIN drafts \union {n} /\ DOMAIN d \subseteq 1 .. MaxUid
      /\ \A u \in DOMAIN d : d[u] \subseteq Part
      /\ \A u \in DOMAIN drafts : d[u] = drafts[u]
      /\ d[n] = Res(x.text, x.file, store)
      /\ \A q \in Requests : job[q].uid # n
      /\ Holds(page, job, d, store, excused)
  BY <1>1, AppendedIs, FormIs
<1>3. Debts(owed', excused') /\ excused' = excused /\ Kept(owed', job, d) /\ owed' = owed \union (Form(r) \ excused)
  BY <1>1, OwesOK DEF Owes
<1>4. Form(r) = Res(x.text, x.file, store)
  BY FormIs
<1> HIDE DEF n, d
<1>5. page \in [Pages -> Page] /\ job \in [Requests -> Job] /\ x \in Job
      /\ JobRefs(x, page, drafts, store) /\ Holds(page, job, drafts, store, excused)
  BY InvParts
<1>6. j \in Job
  <2>1. n \in 0 .. Gone /\ 0 \in 0 .. Lost
    BY <1>2, GoneIs
  <2> HIDE DEF x
  <2>2. x \in Job
    BY <1>5 DEF x
  <2>3. QED
    BY <2>1, <2>2, ZenonT(40) DEF Job
<1>7. j.at = then /\ j.new = n /\ j.page = x.page /\ j.auto = x.auto /\ j.uid = x.uid
  BY <1>5 DEF Job
<1> HIDE DEF j
<1>8. JobOK(j, page, d, store, excused)
  <2>1. JobHolds(j, d, store, excused) /\ JobSent(j, d, store, excused)
    BY <1>7 DEF JobHolds, JobSent
  <2>2. ASSUME j.page # None PROVE JobReplies(j, page[j.page], d, store, excused)
    <3>1. JobReplies(x, page[x.page], drafts, store, excused)
      BY <1>5, <1>7, <2>2 DEF Holds, JobOK
    <3>2. QED
      BY <1>1, <1>2, <1>7, <3>1 DEF JobReplies
  <2>3. QED
    BY <2>1, <2>2 DEF JobOK
<1>9. Holds(page, jb, d, store, excused)
  BY <1>2, <1>5, <1>8, HoldsJob
<1>10. Kept(owed', jb, d)
  <2> SUFFICES ASSUME NEW y \in owed'
               PROVE  \E u \in DOMAIN d : y \in d[u] /\ Stays(u, jb)
    BY DEF Kept
  <2>1. jb[r] = j /\ \A s \in Requests : s # r => jb[s] = job[s]
    BY <1>5
  <2>2. \A u : Stays(u, job) /\ u # x.uid => Stays(u, jb)
    BY <1>7, <2>1 DEF Stays
  <2>3. Stays(n, jb)
    BY <1>2, <1>7, <2>1 DEF Stays
  <2>4. CASE y \in d[n]
    BY <1>2, <2>3, <2>4
  <2>5. CASE y \notin d[n]
    <3>1. y \notin excused
      BY <1>3 DEF Debts
    <3>2. PICK u \in DOMAIN d : y \in d[u] /\ Stays(u, job)
      BY <1>3 DEF Kept
    <3>3. u \in DOMAIN drafts /\ y \in drafts[u]
      BY <1>2, <2>5, <3>2
    <3>4. JobHolds(x, drafts, store, excused)
      BY <1>5 DEF Holds, JobOK
    <3>5. u # x.uid
      BY <1>1, <1>2, <2>5, <3>1, <3>3, <3>4 DEF JobHolds
    <3>6. QED
      BY <2>2, <3>2, <3>5
  <2>6. QED
    BY <2>4, <2>5
<1>11. jb \in [Requests -> Job]
  BY <1>5, <1>6
<1> HIDE DEF jb
<1>12. Args(page, jb, d, store)
  BY <1>2, <1>11, InvParts DEF Args
<1>13. Bounded'
  BY <1>1, InvParts DEF Bounded
<1>14. QED
  BY <1>1, <1>3, <1>9, <1>10, <1>12, <1>13, InvNext

\* Requests that end, or lose the composer they answer.
LEMMA JobsLess ==
    ASSUME NEW pg, NEW jb \in [Requests -> Job], NEW dr, NEW st, NEW ex, Holds(pg, jb, dr, st, ex),
           NEW k, k = [q \in Requests |-> k[q]],
           \A q \in Requests : k[q] = Over \/ k[q] = jb[q] \/ k[q] = [jb[q] EXCEPT !.page = None],
           NEW ow, NEW o, Kept(ow, jb, dr), o \subseteq ow
    PROVE  k \in [Requests -> Job] /\ Holds(pg, k, dr, st, ex) /\ Kept(o, k, dr)
<1>1. ASSUME NEW q \in Requests
      PROVE  /\ k[q] \in Job /\ JobOK(k[q], pg, dr, st, ex)
             /\ k[q].at \in {"find", "supersede"} => k[q].at = jb[q].at /\ k[q].uid = jb[q].uid
  <2>1. jb[q] \in Job /\ JobOK(jb[q], pg, dr, st, ex)
    BY DEF Holds
  <2>2. CASE k[q] = Over
    BY <2>2, Records, OverOK
  <2>3. CASE k[q] = jb[q]
    BY <2>1, <2>3
  <2>4. CASE k[q] = [jb[q] EXCEPT !.page = None]
    <3> DEFINE x == jb[q]
               y == k[q]
    <3>1. x \in Job /\ y = [x EXCEPT !.page = None] /\ JobHolds(x, dr, st, ex) /\ JobSent(x, dr, st, ex)
      BY <2>1, <2>4 DEF JobOK
    <3> HIDE DEF x, y
    <3>2. y \in Job
      BY <3>1, ZenonT(40) DEF Job
    <3>3. y.at = x.at /\ y.uid = x.uid /\ y.text = x.text /\ y.file = x.file /\ y.page = None
      BY <3>1 DEF Job
    <3>4. JobOK(y, pg, dr, st, ex)
      BY <3>1, <3>3 DEF JobOK, JobHolds, JobSent
    <3>5. QED
      BY <3>2, <3>3, <3>4 DEF x, y
  <2>5. QED
    BY <2>2, <2>3, <2>4
<1>2. k \in [Requests -> Job]
  BY <1>1
<1>3. Holds(pg, k, dr, st, ex)
  BY <1>1 DEF Holds
<1>4. \A u \in DOMAIN dr : Stays(u, jb) => Stays(u, k)
  BY <1>1 DEF Stays
<1>5. Kept(o, k, dr)
  BY <1>4 DEF Kept
<1>6. QED
  BY <1>2, <1>3, <1>5

LEMMA DoneStep ==
    ASSUME DraftsInv, NEW r \in Requests, NEW a \in [Pages -> Page], NEW dr, NEW st,
           DOMAIN dr \subseteq 1 .. MaxUid, \A u \in DOMAIN dr : dr[u] \subseteq Part,
           st \subseteq 1 .. MaxFile, Holds(a, job, dr, st, excused'), Kept(owed', job, dr),
           Become(a, Done(r), dr, st), Bounded', Debts(owed', excused')
    PROVE  DraftsInv'
<1> DEFINE k == Done(r)
<1>1. job \in [Requests -> Job]
  BY InvParts
<1>2. k = [job EXCEPT ![r] = Over]
  BY DEF Done
<1>3. k = [q \in Requests |-> k[q]] /\ \A q \in Requests : k[q] = Over \/ k[q] = job[q]
  BY <1>1, <1>2
<1> HIDE DEF k
<1>4. k \in [Requests -> Job] /\ Holds(a, k, dr, st, excused') /\ Kept(owed', k, dr)
  BY <1>1, <1>3, JobsLess
<1>5. Args(a, k, dr, st)
  BY <1>4 DEF Args
<1>6. Become(a, k, dr, st)
  BY DEF k
<1>7. QED
  BY <1>4, <1>5, <1>6, InvNext

\* What a request knows of the composer it answers.
LEMMA Answered ==
    ASSUME DraftsInv, NEW r \in Requests
    PROVE  /\ job[r] \in Job /\ JobHolds(job[r], drafts, store, excused) /\ JobSent(job[r], drafts, store, excused)
           /\ job[r].page # None => page[job[r].page].at = "open"
                                    /\ JobReplies(job[r], page[job[r].page], drafts, store, excused)
  BY InvParts DEF Holds, JobOK, JobRefs

LEMMA AppendFailsStep ==
    ASSUME DraftsInv, NEW r \in Requests, AppendFails(r)
    PROVE  DraftsInv'
<1>1. PICK a \in Answers(r, job[r].uid) :
         \/ FreeUids # {} /\ Become(a, Done(r), Appended(r), store) /\ Owes(Form(r))
         \/ Become(a, Done(r), drafts, store) /\ UNCHANGED Debt
  BY DEF AppendFails
<1>2. job[r].at = "append" /\ UNCHANGED <<edits, sent>> /\ Trouble
  BY DEF AppendFails
<1>3. Bounded'
  BY <1>2, InvParts, TroubleOK DEF Bounded
<1>4. job[r].auto /\ job[r].page # None /\ job[r].uid \in DOMAIN drafts
         => drafts[job[r].uid] \ excused
              \subseteq Res(page[job[r].page].text, page[job[r].page].file, store)
  BY <1>2, Answered DEF JobHolds, JobReplies
<1>5. job[r].uid \in 0 .. Gone
  BY Answered, JobParts
<1>6. CASE FreeUids # {} /\ Become(a, Done(r), Appended(r), store) /\ Owes(Form(r))
  <2> DEFINE d == Appended(r)
             n == Least(FreeUids)
  <2>1. /\ DOMAIN d = DOMAIN drafts \union {n} /\ job[r].uid # n
        /\ DOMAIN d \subseteq 1 .. MaxUid /\ \A u \in DOMAIN d : d[u] \subseteq Part
        /\ \A u \in DOMAIN drafts : d[u] = drafts[u]
        /\ Holds(page, job, d, store, excused)
    BY <1>6, AppendedIs
  <2>2. Debts(owed', excused') /\ excused' = excused /\ Kept(owed', job, d)
    BY <1>6, OwesOK
  <2> HIDE DEF d, n
  <2>3. job[r].auto /\ job[r].page # None /\ job[r].uid \in DOMAIN d
         => d[job[r].uid] \ excused
              \subseteq Res(page[job[r].page].text, page[job[r].page].file, store)
    BY <1>4, <2>1
  <2>4. a \in [Pages -> Page] /\ Holds(a, job, d, store, excused)
    BY <1>1, <1>5, <2>1, <2>3, AnswerHolds
  <2>5. Become(a, Done(r), d, store)
    BY <1>6 DEF d
  <2>6. QED
    BY <1>3, <2>1, <2>2, <2>4, <2>5, InvParts, DoneStep
<1>7. CASE Become(a, Done(r), drafts, store) /\ UNCHANGED Debt
  <2>1. Holds(page, job, drafts, store, excused) /\ DOMAIN drafts \subseteq 1 .. MaxUid
    BY InvParts
  <2>2. a \in [Pages -> Page] /\ Holds(a, job, drafts, store, excused)
    BY <1>1, <1>4, <1>5, <2>1, AnswerHolds
  <2>3. Debts(owed', excused') /\ excused' = excused /\ Kept(owed', job, drafts)
    BY <1>7, InvParts DEF Debt
  <2>4. QED
    BY <1>3, <1>7, <2>2, <2>3, InvParts, DoneStep
<1>8. QED
  BY <1>1, <1>6, <1>7

LEMMA FoundStep ==
    ASSUME DraftsInv, NEW r \in Requests, NEW uid, uid = 0 \/ uid = job[r].new,
           Found(r, uid), Trouble \/ Calm
    PROVE  DraftsInv'
<1> DEFINE x == job[r]
           j == [x EXCEPT !.at = "supersede", !.new = uid]
           jb == [job EXCEPT ![r] = j]
<1>1. /\ x.at = "find" /\ Become(page, [job EXCEPT ![r].at = "supersede", ![r].new = uid], drafts, store)
      /\ UNCHANGED <<edits, sent, owed, excused>>
  BY DEF Found, Debt
<1>2. page \in [Pages -> Page] /\ job \in [Requests -> Job] /\ x \in Job
      /\ Holds(page, job, drafts, store, excused) /\ Kept(owed, job, drafts)
      /\ DOMAIN drafts \subseteq 1 .. MaxUid
  BY InvParts
<1>3. [job EXCEPT ![r].at = "supersede", ![r].new = uid] = jb
  BY <1>2, Zenon
<1>4. uid \in 0 .. Gone
  BY <1>2, GoneIs, JobParts
<1>5. j \in Job
  BY <1>2, <1>4, ZenonT(40) DEF Job
<1>6. j.at = "supersede" /\ j.new = uid /\ j.page = x.page /\ j.auto = x.auto /\ j.uid = x.uid
  BY <1>2 DEF Job
<1> HIDE DEF j
<1>7. JobOK(j, page, drafts, store, excused)
  <2>1. JobHolds(j, drafts, store, excused) /\ JobSent(j, drafts, store, excused)
    BY <1>6 DEF JobHolds, JobSent
  <2>2. ASSUME j.page # None PROVE JobReplies(j, page[j.page], drafts, store, excused)
    <3>1. JobReplies(x, page[x.page], drafts, store, excused)
      BY <1>6, <2>2, Answered
    <3>2. uid \in DOMAIN drafts => uid = x.new
      BY <1>2, GoneIs
    <3>3. QED
      BY <1>1, <1>6, <3>1, <3>2 DEF JobReplies
  <2>3. QED
    BY <2>1, <2>2 DEF JobOK
<1>8. Holds(page, jb, drafts, store, excused)
  BY <1>2, <1>7, HoldsJob
<1>9. Kept(owed, jb, drafts)
  BY <1>1, <1>2, <1>6, KeptJob
<1>10. jb \in [Requests -> Job] /\ Become(page, jb, drafts, store)
  BY <1>1, <1>2, <1>3, <1>5
<1> HIDE DEF jb
<1>11. Args(page, jb, drafts, store)
  BY <1>10, InvParts DEF Args
<1>12. Bounded' /\ Debts(owed', excused') /\ Kept(owed', jb, drafts) /\ excused' = excused
  BY <1>1, <1>9, InvParts, TroubleOK DEF Bounded
<1>13. QED
  BY <1>8, <1>10, <1>11, <1>12, InvNext

LEMMA WithoutIs ==
    ASSUME DraftsInv, NEW w
    PROVE  /\ DOMAIN Without(w) = DOMAIN drafts \ {w} /\ \A u \in DOMAIN Without(w) : Without(w)[u] = drafts[u]
           /\ DOMAIN Without(w) \subseteq 1 .. MaxUid /\ \A u \in DOMAIN Without(w) : Without(w)[u] \subseteq Part
<1>1. DOMAIN Without(w) = DOMAIN drafts \ {w} /\ \A u \in DOMAIN Without(w) : Without(w)[u] = drafts[u]
  BY DEF Without, Restrict
<1>2. QED
  BY <1>1, InvParts

\* The older copy deleted: what of it is owed, another holds.
LEMMA SupersededIs ==
    ASSUME DraftsInv, NEW r \in Requests, job[r].at = "supersede", NEW d, d = Superseded(r)
    PROVE  /\ DOMAIN d \subseteq DOMAIN drafts /\ DOMAIN d \subseteq 1 .. MaxUid
           /\ \A u \in DOMAIN d : d[u] = drafts[u] /\ d[u] \subseteq Part
           /\ Holds(page, job, d, store, excused) /\ Kept(owed, job, d)
<1>1. Holds(page, job, drafts, store, excused) /\ Kept(owed, job, drafts)
      /\ DOMAIN drafts \subseteq 1 .. MaxUid /\ \A u \in DOMAIN drafts : drafts[u] \subseteq Part
  BY InvParts
<1>2. CASE job[r].uid = job[r].new
  BY <1>1, <1>2 DEF Superseded
<1>3. CASE job[r].uid # job[r].new
  <2>1. d = Without(job[r].uid)
    BY <1>3 DEF Superseded
  <2>2. /\ DOMAIN d \subseteq DOMAIN drafts /\ DOMAIN d \subseteq 1 .. MaxUid
        /\ \A u \in DOMAIN d : d[u] = drafts[u] /\ d[u] \subseteq Part
    BY <2>1, WithoutIs
  <2>3. Holds(page, job, d, store, excused)
    BY <1>1, <2>2, HoldsLess
  <2>4. \A x \in owed : \A u \in DOMAIN drafts : x \in drafts[u] /\ Stays(u, job) => u # job[r].uid
    BY DEF Stays
  <2>5. Kept(owed, job, d)
    BY <1>1, <2>1, <2>4, KeptLess DEF Without
  <2>6. QED
    BY <2>2, <2>3, <2>5
<1>4. QED
  BY <1>2, <1>3

LEMMA SupersedeStep ==
    ASSUME DraftsInv, NEW r \in Requests, Supersede(r) \/ SupersedeFails(r)
    PROVE  DraftsInv'
<1>1. /\ job[r].at = "supersede"
      /\ Trouble \/ Calm
      /\ UNCHANGED <<edits, sent, owed, excused>>
      /\ \/ \E a \in Answers(r, job[r].new), d \in {drafts, Superseded(r)} : Become(a, Done(r), d, store)
         \/ Become(page, Done(r), Superseded(r), store)
  BY DEF Supersede, SupersedeFails, History, Debt, Calm
<1>2. Bounded' /\ Debts(owed', excused') /\ owed' = owed /\ excused' = excused
  BY <1>1, InvParts, TroubleOK DEF Bounded
<1>3. ASSUME NEW d, d = drafts \/ d = Superseded(r)
      PROVE  /\ DOMAIN d \subseteq DOMAIN drafts /\ DOMAIN d \subseteq 1 .. MaxUid
             /\ \A u \in DOMAIN d : d[u] = drafts[u] /\ d[u] \subseteq Part
             /\ Holds(page, job, d, store, excused) /\ Kept(owed, job, d)
  <2>1. CASE d = drafts
    BY <2>1, InvParts
  <2>2. CASE d = Superseded(r)
    BY <1>1, <2>2, SupersededIs
  <2>3. QED
    BY <1>3, <2>1, <2>2
<1>4. ASSUME NEW a \in Answers(r, job[r].new), NEW d, d = drafts \/ d = Superseded(r), Become(a, Done(r), d, store)
      PROVE  DraftsInv'
  <2>1. /\ DOMAIN d \subseteq DOMAIN drafts /\ DOMAIN d \subseteq 1 .. MaxUid
        /\ \A u \in DOMAIN d : d[u] = drafts[u] /\ d[u] \subseteq Part
        /\ Holds(page, job, d, store, excused) /\ Kept(owed, job, d)
    BY <1>3, <1>4
  <2>2. job[r].auto /\ job[r].page # None /\ job[r].new \in DOMAIN d
         => d[job[r].new] \ excused
              \subseteq Res(page[job[r].page].text, page[job[r].page].file, store)
    BY <1>1, <2>1, Answered DEF JobReplies
  <2>3. job[r].new \in 0 .. Gone
    BY Answered, JobParts
  <2>4. a \in [Pages -> Page] /\ Holds(a, job, d, store, excused)
    BY <2>1, <2>2, <2>3, AnswerHolds
  <2>5. QED
    BY <1>2, <1>4, <2>1, <2>4, InvParts, DoneStep
<1>5. ASSUME Become(page, Done(r), Superseded(r), store)
      PROVE  DraftsInv'
  <2> DEFINE d == Superseded(r)
  <2>1. /\ DOMAIN d \subseteq 1 .. MaxUid /\ \A u \in DOMAIN d : d[u] \subseteq Part
        /\ Holds(page, job, d, store, excused) /\ Kept(owed, job, d) /\ Become(page, Done(r), d, store)
    BY <1>3, <1>5
  <2> HIDE DEF d
  <2>2. QED
    BY <1>2, <2>1, InvParts, DoneStep
<1>6. QED
  BY <1>1, <1>4, <1>5

\* The composer comes back with what the request held.
LEMMA RefuseStep ==
    ASSUME DraftsInv, NEW r \in Requests, job[r].at = "deliver", Refuse(r),
           Bounded', Debts(owed', excused'), owed' \subseteq owed, excused \subseteq excused'
    PROVE  DraftsInv'
<1> DEFINE x == job[r]
           f == IF Missing(x.file) THEN 0 ELSE x.file
           back == [Fresh EXCEPT !.text = x.text, !.uid = x.uid, !.file = f]
           pg == Shown(r, back)
           k == [q \in Requests |->
                  IF q = r THEN Over
                  ELSE IF job[q].page \in Waiting(r) THEN [job[q] EXCEPT !.page = None]
                  ELSE job[q]]
<1>1. Become(pg, k, drafts, store)
  BY DEF Refuse
<1>2. /\ page \in [Pages -> Page] /\ job \in [Requests -> Job] /\ x \in Job
      /\ Holds(page, job, drafts, store, excused) /\ Kept(owed, job, drafts)
      /\ DOMAIN drafts \subseteq 1 .. MaxUid
  BY InvParts
<1>3. x.text \in SUBSET Part /\ x.file \in 0 .. Lost /\ x.uid \in 0 .. Gone /\ x.page \in Pages \union {None}
  BY <1>2, JobParts
<1>4. f \in 0 .. Lost /\ Res(x.text, f, store) = Res(x.text, x.file, store)
  <2>1. 0 \notin store
    BY InvParts, GoneIs
  <2>2. QED
    BY <1>3, <2>1, GoneIs DEF Missing, Res
<1> HIDE DEF f
<1>5. JobHolds(x, drafts, store, excused)
  BY Answered
<1> DEFINE g == x.page
<1>6. (g = None => pg = page /\ Waiting(r) = {})
      /\ (g # None => g \in Pages /\ pg = [page EXCEPT ![g] = back] /\ Waiting(r) = {g})
  BY <1>2, <1>3, ShownIs, DraftsAssumption DEF Waiting
<1> HIDE DEF x
<1>7. back \in Page
  BY <1>3, <1>4, Records, ZenonT(40) DEF Page
<1>8. back.text = x.text /\ back.uid = x.uid /\ back.file = f
  BY Records DEF Page
<1> HIDE DEF back, pg, g
<1>9. PageHolds(back, drafts, store, excused)
  BY <1>4, <1>5, <1>8 DEF PageHolds, JobHolds, x
<1>10. k \in [Requests -> Job] /\ Holds(page, k, drafts, store, excused) /\ Kept(owed', k, drafts)
  <2>1. \A q \in Requests : k[q] = Over \/ k[q] = job[q] \/ k[q] = [job[q] EXCEPT !.page = None]
    OBVIOUS
  <2>2. k = [q \in Requests |-> k[q]]
    OBVIOUS
  <2> HIDE DEF k
  <2>3. QED
    BY <1>2, <2>1, <2>2, JobsLess
<1>11. g # None => \A q \in Requests : k[q].page # g
  <2> SUFFICES ASSUME g # None, NEW q \in Requests PROVE k[q].page # g
    OBVIOUS
  <2>1. CASE q = r
    BY <2>1, Records
  <2>2. CASE q # r /\ job[q].page = g
    <3>1. k[q] = [job[q] EXCEPT !.page = None] /\ job[q] \in Job
      BY <1>2, <1>6, <2>2
    <3>2. k[q].page = None
      BY <3>1 DEF Job
    <3>3. QED
      BY <3>2
  <2>3. CASE q # r /\ job[q].page # g
    <3>1. k[q] = job[q]
      BY <1>6, <2>3
    <3>2. QED
      BY <2>3, <3>1
  <2>4. QED
    BY <2>1, <2>2, <2>3
<1> HIDE DEF k
<1>12. pg \in [Pages -> Page] /\ Holds(pg, k, drafts, store, excused)
  <2>1. CASE g = None
    BY <1>2, <1>6, <1>10, <2>1
  <2>2. CASE g # None
    <3>1. g \in Pages /\ pg = [page EXCEPT ![g] = back] /\ \A q \in Requests : k[q].page # g
      BY <1>6, <1>11, <2>2
    <3>2. Holds(pg, k, drafts, store, excused)
      BY <1>2, <1>9, <1>10, <3>1, HoldsPage
    <3>3. QED
      BY <1>2, <1>7, <3>1, <3>2
  <2>3. QED
    BY <2>1, <2>2
<1>13. Holds(pg, k, drafts, store, excused')
  BY <1>12, HoldsLess
<1>14. Args(pg, k, drafts, store)
  BY <1>10, <1>12, InvParts DEF Args
<1>15. QED
  BY <1>1, <1>10, <1>13, <1>14, InvNext

LEMMA RefuseShortStep ==
    ASSUME DraftsInv, NEW r \in Requests, RefuseShort(r)
    PROVE  DraftsInv'
<1>1. job[r].at = "deliver" /\ Refuse(r) /\ UNCHANGED <<edits, sent, owed, excused, trouble>>
  BY DEF RefuseShort, History, Debt
<1>2. Bounded' /\ Debts(owed', excused') /\ owed' = owed /\ excused' = excused
  BY <1>1, InvParts DEF Bounded
<1>3. QED
  BY <1>1, <1>2, RefuseStep

LEMMA DeliverFailsStep ==
    ASSUME DraftsInv, NEW r \in Requests, DeliverFails(r)
    PROVE  DraftsInv'
<1>1. /\ job[r].at = "deliver" /\ Refuse(r) /\ UNCHANGED edits /\ Trouble
      /\ Accepted(r) \/ UNCHANGED <<sent, Debt>>
  BY DEF DeliverFails
<1>2. sent' \in BOOLEAN /\ Debts(owed', excused') /\ owed' \subseteq owed /\ excused \subseteq excused'
  <2>1. CASE Accepted(r)
    BY <2>1, FormIsPart, ExcusesOK DEF Accepted
  <2>2. CASE UNCHANGED <<sent, Debt>>
    BY <2>2, InvParts DEF Debt, Bounded
  <2>3. QED
    BY <1>1, <2>1, <2>2
<1>3. Bounded'
  BY <1>1, <1>2, InvParts, TroubleOK DEF Bounded
<1>4. QED
  BY <1>1, <1>2, <1>3, RefuseStep

LEMMA DeliverStep ==
    ASSUME DraftsInv, NEW r \in Requests, Deliver(r)
    PROVE  DraftsInv'
<1> DEFINE x == job[r]
           j == [x EXCEPT !.at = "conclude", !.text = {}]
           jb == [job EXCEPT ![r] = j]
<1>1. /\ x.at = "deliver" /\ Excuses(Form(r)) /\ sent' = TRUE /\ UNCHANGED <<edits, trouble>>
      /\ Become(page, [job EXCEPT ![r].at = "conclude", ![r].text = {}], drafts, store)
  BY DEF Deliver, Accepted
<1>2. /\ page \in [Pages -> Page] /\ job \in [Requests -> Job] /\ x \in Job
      /\ Holds(page, job, drafts, store, excused) /\ Kept(owed, job, drafts)
  BY InvParts
<1>3. Debts(owed', excused') /\ owed' \subseteq owed /\ excused \subseteq excused' /\ Form(r) \subseteq excused'
  BY <1>1, FormIsPart, ExcusesOK
<1>4. [job EXCEPT ![r].at = "conclude", ![r].text = {}] = jb
  BY <1>2, Zenon
<1>5. j \in Job
  BY <1>2, ZenonT(40) DEF Job
<1>6. j.at = "conclude" /\ j.uid = x.uid /\ j.file = x.file /\ j.page = x.page /\ j.auto = x.auto
  BY <1>2 DEF Job
<1> HIDE DEF j
<1>7. Holds(page, job, drafts, store, excused')
  BY <1>2, <1>3, HoldsLess
<1>8. JobOK(j, page, drafts, store, excused')
  <2>1. JobHolds(x, drafts, store, excused)
    BY Answered
  <2>2. Form(r) = Res(x.text, x.file, store)
    BY FormIs
  <2>3. JobSent(j, drafts, store, excused')
    BY <1>1, <1>3, <1>6, <2>1, <2>2 DEF JobHolds, JobSent, Res
  <2>4. JobHolds(j, drafts, store, excused') /\ (j.page # None => JobReplies(j, page[j.page], drafts, store, excused'))
    BY <1>6 DEF JobHolds, JobReplies
  <2>5. QED
    BY <2>3, <2>4 DEF JobOK
<1>9. Holds(page, jb, drafts, store, excused')
  BY <1>2, <1>7, <1>8, HoldsJob
<1>10. Kept(owed', jb, drafts)
  BY <1>2, <1>3, <1>6, KeptJob
<1>11. jb \in [Requests -> Job] /\ Become(page, jb, drafts, store)
  BY <1>1, <1>2, <1>4, <1>5
<1> HIDE DEF jb
<1>12. Args(page, jb, drafts, store)
  BY <1>11, InvParts DEF Args
<1>13. Bounded'
  BY <1>1, InvParts DEF Bounded
<1>14. QED
  BY <1>3, <1>9, <1>10, <1>11, <1>12, <1>13, InvNext

LEMMA ConcludeStep ==
    ASSUME DraftsInv, NEW r \in Requests, Conclude(r) \/ ConcludeFails(r)
    PROVE  DraftsInv'
<1>1. PICK d, st : /\ Concluded(r, d, st) /\ d \in {drafts, Without(job[r].uid)} /\ st \in {store, Forgotten(r)}
                   /\ Trouble \/ Calm
  BY DEF Conclude, ConcludeFails
<1>2. /\ job[r].at = "conclude" /\ Become(Shown(r, Closed), Done(r), d, st)
      /\ UNCHANGED <<edits, sent, owed, excused>>
  BY <1>1 DEF Concluded, Debt
<1>3. /\ Holds(page, job, drafts, store, excused) /\ Kept(owed, job, drafts) /\ owed \intersect excused = {}
      /\ job \in [Requests -> Job] /\ store \subseteq 1 .. MaxFile
  BY InvParts
<1>4. /\ job[r].uid \in DOMAIN drafts => drafts[job[r].uid] \subseteq excused
      /\ job[r].file \in store => File \in excused
  BY <1>2, Answered DEF JobSent
<1>5. st \subseteq store /\ (st = store \/ File \in excused)
  BY <1>1, <1>4 DEF Forgotten
<1>6. /\ DOMAIN d \subseteq DOMAIN drafts /\ DOMAIN d \subseteq 1 .. MaxUid
      /\ \A u \in DOMAIN d : d[u] = drafts[u] /\ d[u] \subseteq Part
  BY <1>1, InvParts, WithoutIs
<1>7. Holds(page, job, d, st, excused)
  BY <1>3, <1>5, <1>6, HoldsLess
<1>8. Kept(owed, job, d)
  <2>1. CASE d = drafts
    BY <1>3, <2>1
  <2>2. CASE d = Without(job[r].uid)
    <3>1. \A x \in owed : \A u \in DOMAIN drafts : x \in drafts[u] /\ Stays(u, job) => u # job[r].uid
      BY <1>3, <1>4
    <3>2. QED
      BY <1>3, <2>2, <3>1, KeptLess DEF Without
  <2>3. QED
    BY <1>1, <2>1, <2>2
<1>9. Shown(r, Closed) \in [Pages -> Page] /\ Holds(Shown(r, Closed), job, d, st, excused)
  BY <1>3, <1>6, <1>7, ClosedIs
<1> DEFINE a == Shown(r, Closed)
<1>10. a \in [Pages -> Page] /\ Holds(a, job, d, st, excused) /\ Become(a, Done(r), d, st)
  BY <1>2, <1>9
<1> HIDE DEF a
<1>11. Bounded' /\ Debts(owed', excused') /\ owed' = owed /\ excused' = excused
  BY <1>1, <1>2, InvParts, TroubleOK DEF Bounded
<1>12. QED
  BY <1>3, <1>5, <1>6, <1>8, <1>10, <1>11, DoneStep

\* The store loses files, or all that is in flight.
LEMMA StoreStep ==
    ASSUME DraftsInv, (\E f \in store : AgeOut(f)) \/ Restart
    PROVE  DraftsInv'
<1>1. PICK k, st :
        /\ Become(page, k, drafts, st) /\ st \subseteq store
        /\ k = [q \in Requests |-> k[q]] /\ \A q \in Requests : k[q] = Over \/ k[q] = job[q]
        /\ Excuses({File}) /\ UNCHANGED <<edits, sent>>
        /\ Trouble \/ Calm
  <2>1. CASE \E f \in store : AgeOut(f)
    <3>1. PICK f \in store : AgeOut(f)
      BY <2>1
    <3>2. /\ Become(page, job, drafts, store \ {f}) /\ store \ {f} \subseteq store
          /\ Excuses({File}) /\ UNCHANGED <<edits, sent, trouble>>
      BY <3>1 DEF AgeOut
    <3>3. job = [q \in Requests |-> job[q]]
      BY InvParts
    <3>4. QED
      BY <3>2, <3>3 DEF Calm
  <2>2. CASE Restart
    <3> DEFINE k == [q \in Requests |-> IF q \in Busy THEN Over ELSE job[q]]
    <3>1. Become(page, k, drafts, {}) /\ Excuses({File}) /\ UNCHANGED <<edits, sent>> /\ Trouble
      BY <2>2 DEF Restart
    <3>2. k = [q \in Requests |-> k[q]] /\ \A q \in Requests : k[q] = Over \/ k[q] = job[q]
      OBVIOUS
    <3> HIDE DEF k
    <3>3. QED
      BY <3>1, <3>2
  <2>3. QED
    BY <2>1, <2>2
<1>2. /\ Holds(page, job, drafts, store, excused) /\ Kept(owed, job, drafts)
      /\ job \in [Requests -> Job] /\ store \subseteq 1 .. MaxFile
  BY InvParts
<1>3. /\ Debts(owed', excused') /\ owed' \subseteq owed /\ excused \subseteq excused' /\ File \in excused'
  BY <1>1, FileIsPart, ExcusesOK
<1>4. Holds(page, job, drafts, st, excused')
  BY <1>1, <1>2, <1>3, HoldsLess
<1>5. k \in [Requests -> Job] /\ Holds(page, k, drafts, st, excused') /\ Kept(owed', k, drafts)
  BY <1>1, <1>2, <1>3, <1>4, JobsLess
<1>6. Args(page, k, drafts, st)
  BY <1>1, <1>5, InvParts DEF Args
<1>7. Bounded'
  BY <1>1, InvParts, TroubleOK DEF Bounded
<1>8. QED
  BY <1>1, <1>3, <1>5, <1>6, <1>7, InvNext

LEMMA WriterStep ==
    ASSUME DraftsInv, NEW p \in Pages, Writer(p)
    PROVE  DraftsInv'
<1>1. CASE Type(p)
  BY <1>1, TypeTextStep
<1>2. CASE Attach(p)
  BY <1>2, AttachStep
<1>3. CASE RemoveFile(p)
  BY <1>3, RemoveStep
<1>4. CASE LeavePage(p)
  BY <1>4, LeaveStep
<1>5. CASE \E u \in DOMAIN drafts : Resume(p, u)
  BY <1>5, ResumeStep
<1>6. ASSUME NEW r \in Requests, FollowLink(r, p) PROVE DraftsInv'
  BY <1>6, FollowStep
<1>7. ASSUME NEW r \in Requests, PageHide(r, p) PROVE DraftsInv'
  BY <1>7, HideStep
<1>8. ASSUME NEW r \in Requests, NEW at \in {"append", "deliver"}, Press(r, p, at) PROVE DraftsInv'
  BY <1>8, PressStep
<1>9. CASE AttachRefused(p) \/ AttachTooLarge(p)
  BY <1>9, EmptyStep
<1>10. QED
  BY <1>1, <1>2, <1>3, <1>4, <1>5, <1>6, <1>7, <1>8, <1>9 DEF Writer

LEMMA HandlerStep ==
    ASSUME DraftsInv, NEW r \in Requests, Handler(r)
    PROVE  DraftsInv'
<1>1. CASE Append(r, "supersede") \/ Append(r, "find")
  BY <1>1, AppendStep
<1>2. CASE AppendFails(r)
  BY <1>2, AppendFailsStep
<1>3. CASE Find(r) \/ FindFails(r)
  <2>1. PICK uid : (uid = 0 \/ uid = job[r].new) /\ Found(r, uid) /\ (Trouble \/ Calm)
    BY <1>3 DEF Find, FindFails
  <2>2. QED
    BY <2>1, FoundStep
<1>4. CASE Supersede(r) \/ SupersedeFails(r)
  BY <1>4, SupersedeStep
<1>5. CASE RefuseShort(r)
  BY <1>5, RefuseShortStep
<1>6. CASE Deliver(r)
  BY <1>6, DeliverStep
<1>7. CASE DeliverFails(r)
  BY <1>7, DeliverFailsStep
<1>8. CASE Conclude(r) \/ ConcludeFails(r)
  BY <1>8, ConcludeStep
<1>9. QED
  BY <1>1, <1>2, <1>3, <1>4, <1>5, <1>6, <1>7, <1>8 DEF Handler

LEMMA DraftsBegin == DraftsInit => DraftsInv
<1> SUFFICES ASSUME DraftsInit PROVE DraftsInv
  OBVIOUS
<1>1. Unused \in Page /\ Unused.uid = 0 /\ Unused.file = 0
  BY Records DEF Unused, Fresh, Page
<1>2. /\ page \in [Pages -> Page] /\ job \in [Requests -> Job]
      /\ \A p \in Pages : page[p].uid = 0 /\ page[p].file = 0
      /\ \A r \in Requests : job[r] = New
      /\ store = {} /\ DOMAIN drafts = {} /\ edits = 0 /\ sent = FALSE
      /\ owed = {} /\ excused = {} /\ trouble = 0
  BY <1>1, Records DEF DraftsInit
<1>3. Args(page, job, drafts, store)
  BY <1>2 DEF Args
<1>4. 0 \in 0 .. MaxEdit /\ 0 \in 0 .. MaxTrouble
  BY Bounds
<1>5. Bounded /\ Debts(owed, excused) /\ Kept(owed, job, drafts)
  BY <1>2, <1>4 DEF Bounded, Debts, Kept
<1>6. New.file = 0 /\ New.uid = 0 /\ New.new = 0 /\ New.page = None /\ New.at = "new"
  BY DEF New
<1>7. RefsOK
  BY <1>2, <1>6 DEF RefsOK, PageRefs, JobRefs
<1>8. Holds(page, job, drafts, store, excused)
  BY <1>2, <1>6 DEF Holds, PageHolds, JobOK, JobHolds, JobSent
<1>9. QED
  BY <1>3, <1>5, <1>7, <1>8 DEF DraftsInv

LEMMA DraftsKeep == DraftsInv /\ [DraftsNext]_draftsVars => DraftsInv'
<1> SUFFICES ASSUME DraftsInv, [DraftsNext]_draftsVars PROVE DraftsInv'
  OBVIOUS
<1>1. CASE \E p \in Pages : Writer(p)
  BY <1>1, WriterStep
<1>2. CASE \E r \in Requests : Handler(r)
  BY <1>2, HandlerStep
<1>3. CASE (\E f \in store : AgeOut(f)) \/ Restart
  BY <1>3, StoreStep
<1>4. CASE UNCHANGED draftsVars
  BY <1>4 DEF draftsVars, DraftsInv, Args, Bounded, RefsOK
<1>5. QED
  BY <1>1, <1>2, <1>3, <1>4 DEF DraftsNext

\* A composer, and what it posts, holds all that is owed of the copy it names,
\* and what is owed is in a copy that no request is about to delete
\* (handleDraftSave, handleSend, AttachStore).
THEOREM DraftsInvariant == DraftsSpec => []DraftsInv
<1>1. QED
  BY DraftsBegin, DraftsKeep, PTL DEF DraftsSpec

\* Whatever a stored copy has held is still in Drafts, unless it went out, was
\* taken off, or is a file the store has lost or an upload over the limit has
\* left out of the strip (handleDraftSave).
THEOREM NothingUnsaidTheorem == DraftsSpec => []NothingUnsaid
<1>1. DraftsInv => NothingUnsaid
  BY DEF DraftsInv, Kept, NothingUnsaid
<1>2. QED
  BY <1>1, DraftsInvariant, PTL

\* While nothing overlaps or fails: at most one composer is open and one
\* request in flight, which answers it; and the copies there are the one the
\* composer and the request name, and the one the request has made.
IsBusy(j) == j.at \notin {"new", "done"}
AloneBusy(j, pg, dr, se) ==
    /\ \A p \in Pages : pg[p].at = "open" => j.page = p /\ pg[p].uid = j.uid
    /\ j.at \in {"append", "deliver", "conclude"} => DOMAIN dr \subseteq {j.uid}
    /\ j.at \in {"find", "supersede"} => DOMAIN dr \subseteq {j.uid, j.new} /\ j.new \in DOMAIN dr
    /\ se => j.at = "conclude"
AloneIdle(pg, dr, se) ==
    /\ \A p \in Pages : pg[p].at = "open" => DOMAIN dr \subseteq {pg[p].uid} /\ ~ se
    /\ \A u, v \in DOMAIN dr : u = v /\ ~ se
OneOpen(pg) == \A p, q \in Pages : pg[p].at = "open" /\ pg[q].at = "open" => p = q
Alone(pg, jb, dr, se) ==
    /\ OneOpen(pg)
    /\ \A r, s \in Requests : IsBusy(jb[r]) /\ IsBusy(jb[s]) => r = s
    /\ \A r \in Requests : IsBusy(jb[r]) => AloneBusy(jb[r], pg, dr, se)
    /\ (\A r \in Requests : ~ IsBusy(jb[r])) => AloneIdle(pg, dr, se)
AloneInv == trouble = 0 => Alone(page, job, drafts, sent)

LEMMA NamedPage ==
    ASSUME NEW dr, NEW st, NEW x, NEW y \in Page, y = Named(x, dr, st)
    PROVE  y.at = x.at /\ y.uid = UidIn(x.uid, dr)
<1> DEFINE u == UidIn(x.uid, dr)
           f == FileIn(x.file, st)
<1>1. y = [x EXCEPT !.uid = u, !.file = f]
  BY DEF Named, UidIn, FileIn
<1> HIDE DEF u, f
<1>2. "at" \in DOMAIN y /\ "uid" \in DOMAIN y
  BY DEF Page
<1>3. y.at = x.at /\ y.uid = u
  BY <1>1, <1>2
<1>4. QED
  BY <1>3 DEF u

RequestNamed(x, y, pg, dr, st) ==
    y = [Named(x, dr, st) EXCEPT
           !.new = IF @ \in DOMAIN dr \union {0} THEN @ ELSE Gone,
           !.page = IF @ # None /\ pg[@].at # "open" THEN None ELSE @]

LEMMA NamedJob ==
    ASSUME NEW dr, NEW st, NEW pg, NEW x, NEW y \in Job, RequestNamed(x, y, pg, dr, st)
    PROVE  /\ y.at = x.at /\ y.uid = UidIn(x.uid, dr) /\ y.new = UidIn(x.new, dr)
           /\ y.page = IF x.page # None /\ pg[x.page].at # "open" THEN None ELSE x.page
<1> DEFINE u == UidIn(x.uid, dr)
           f == FileIn(x.file, st)
           z == [x EXCEPT !.uid = u, !.file = f]
           n == UidIn(z.new, dr)
           g == IF z.page # None /\ pg[z.page].at # "open" THEN None ELSE z.page
<1>1. z = Named(x, dr, st)
  BY DEF Named, UidIn, FileIn
<1>2. y = [z EXCEPT !.new = IF @ \in DOMAIN dr \union {0} THEN @ ELSE Gone,
                    !.page = IF @ # None /\ pg[@].at # "open" THEN None ELSE @]
  BY <1>1 DEF RequestNamed
<1>3. y = [z EXCEPT !.new = n, !.page = g]
  BY <1>2 DEF UidIn
<1>4. {"at", "uid", "new", "page"} \subseteq DOMAIN y
  BY DEF Job
<1> HIDE DEF n, g
<1>5. DOMAIN z = DOMAIN y /\ y.at = z.at /\ y.uid = z.uid /\ y.new = n /\ y.page = g
  BY <1>3, <1>4
<1> HIDE DEF u, f
<1>6. z.at = x.at /\ z.uid = u /\ z.new = x.new /\ z.page = x.page
  BY <1>4, <1>5
<1>7. QED
  BY <1>5, <1>6 DEF u, n, g

LEMMA AloneNext ==
    ASSUME NEW pg, NEW jb, NEW dr, NEW st, Become(pg, jb, dr, st), DraftsInv', NEW se,
           Alone(pg, jb, dr, se)
    PROVE  Alone(page', job', drafts', se)
<1>1. drafts' = dr /\ page' \in [Pages -> Page] /\ job' \in [Requests -> Job] /\ DOMAIN dr \subseteq 1 .. MaxUid
  BY DEF Become, DraftsInv, Args
<1>2. ASSUME NEW p \in Pages PROVE page'[p].at = pg[p].at /\ page'[p].uid = UidIn(pg[p].uid, dr)
  <2>1. page'[p] = Named(pg[p], dr, st) /\ page'[p] \in Page
    BY <1>1 DEF Become
  <2>2. QED
    BY <2>1, NamedPage
<1>3. ASSUME NEW r \in Requests
      PROVE  /\ job'[r].at = jb[r].at /\ job'[r].uid = UidIn(jb[r].uid, dr) /\ job'[r].new = UidIn(jb[r].new, dr)
             /\ job'[r].page = IF jb[r].page # None /\ pg[jb[r].page].at # "open" THEN None ELSE jb[r].page
  <2>1. job'[r] \in Job
    BY <1>1
  <2>2. RequestNamed(jb[r], job'[r], pg, dr, st)
    BY Zenon DEF Become, RequestNamed
  <2>3. QED
    BY <2>1, <2>2, NamedJob
<1>4. \A u \in DOMAIN dr : UidIn(u, dr) = u
  BY DEF UidIn
<1>5. OneOpen(page')
  BY <1>2 DEF Alone, OneOpen
<1>6. \A r \in Requests : IsBusy(job'[r]) <=> IsBusy(jb[r])
  BY <1>3 DEF IsBusy
<1>7. ASSUME NEW r \in Requests, IsBusy(job'[r]) PROVE AloneBusy(job'[r], page', dr, se)
  <2>1. AloneBusy(jb[r], pg, dr, se)
    BY <1>6, <1>7 DEF Alone
  <2> DEFINE x == jb[r]
             y == job'[r]
  <2>2. /\ y.at = x.at /\ y.uid = UidIn(x.uid, dr) /\ y.new = UidIn(x.new, dr)
        /\ y.page = IF x.page # None /\ pg[x.page].at # "open" THEN None ELSE x.page
        /\ AloneBusy(x, pg, dr, se)
    BY <1>3, <2>1
  <2> HIDE DEF x, y
  <2>3. \A p \in Pages : page'[p].at = "open" => y.page = p /\ page'[p].uid = y.uid
    BY <1>2, <2>2 DEF AloneBusy
  <2>4. y.at \in {"append", "deliver", "conclude"} => DOMAIN dr \subseteq {y.uid}
    BY <1>4, <2>2 DEF AloneBusy
  <2>5. y.at \in {"find", "supersede"} => DOMAIN dr \subseteq {y.uid, y.new} /\ y.new \in DOMAIN dr
    BY <1>4, <2>2 DEF AloneBusy
  <2>6. QED
    BY <2>2, <2>3, <2>4, <2>5 DEF AloneBusy, y
<1>8. (\A r \in Requests : ~ IsBusy(job'[r])) => AloneIdle(page', dr, se)
  <2> SUFFICES ASSUME \A r \in Requests : ~ IsBusy(job'[r]) PROVE AloneIdle(page', dr, se)
    OBVIOUS
  <2>1. AloneIdle(pg, dr, se)
    BY <1>6 DEF Alone
  <2>2. QED
    BY <1>2, <1>4, <2>1 DEF AloneIdle
<1>9. Alone(page', job', dr, se)
  BY <1>5, <1>6, <1>7, <1>8 DEF Alone
<1>10. QED
  BY <1>1, <1>9

\* Composers that stay open carry the same copy; others may close.
LEMMA AloneStay ==
    ASSUME NEW pg, NEW jb, NEW dr, NEW se, Alone(page, jb, dr, se),
           \A p \in Pages : pg[p].at = "open" => page[p].at = "open" /\ pg[p].uid = page[p].uid
    PROVE  Alone(pg, jb, dr, se)
  BY DEF Alone, OneOpen, AloneBusy, AloneIdle

\* A request in flight goes on, alone.
LEMMA AloneGoesOn ==
    ASSUME NEW jb \in [Requests -> Job], NEW pg, NEW dr, NEW se,
           NEW d, NEW s, NEW r \in Requests, Alone(pg, jb, dr, se), IsBusy(jb[r]),
           NEW j, IsBusy(j), AloneBusy(j, pg, d, s),
           NEW k, k = [jb EXCEPT ![r] = j]
    PROVE  Alone(pg, k, d, s)
<1>1. k[r] = j /\ \A q \in Requests : q # r => k[q] = jb[q]
  OBVIOUS
<1>2. \A q \in Requests : IsBusy(k[q]) => q = r
  BY <1>1 DEF Alone
<1>3. QED
  BY <1>1, <1>2 DEF Alone

\* The only request in flight ends.
LEMMA AloneEnds ==
    ASSUME NEW jb \in [Requests -> Job], NEW pg, NEW dr, NEW se, NEW r \in Requests,
           Alone(pg, jb, dr, se), IsBusy(jb[r]),
           NEW g, NEW d, NEW s, OneOpen(g), AloneIdle(g, d, s),
           NEW k, k[r] = Over, \A q \in Requests : k[q] # Over => k[q].at = jb[q].at /\ q # r
    PROVE  Alone(g, k, d, s)
<1>1. \A q \in Requests : ~ IsBusy(k[q])
  BY Records DEF Alone, IsBusy
<1>2. QED
  BY <1>1 DEF Alone

LEMMA EditAlone ==
    ASSUME DraftsInv, DraftsInv', Alone(page, job, drafts, sent), NEW p \in Pages, NEW x,
           x.at # "open" \/ (x.at = page[p].at /\ x.uid = page[p].uid),
           NEW st, Become([page EXCEPT ![p] = x], job, drafts, st), sent' = sent
    PROVE  Alone(page', job', drafts', sent')
<1> DEFINE pg == [page EXCEPT ![p] = x]
<1>1. \A q \in Pages : pg[q].at = "open" => page[q].at = "open" /\ pg[q].uid = page[q].uid
  BY InvParts
<1>2. Become(pg, job, drafts, st)
  OBVIOUS
<1> HIDE DEF pg
<1>3. Alone(pg, job, drafts, sent)
  BY <1>1, AloneStay
<1>4. QED
  BY <1>2, <1>3, AloneNext

LEMMA WriteAlone ==
    ASSUME DraftsInv, DraftsInv', Alone(page, job, drafts, sent), NEW p \in Pages,
           \/ Type(p) \/ Attach(p) \/ AttachRefused(p) \/ AttachTooLarge(p)
           \/ RemoveFile(p) \/ LeavePage(p)
    PROVE  Alone(page', job', drafts', sent')
<1>1. page[p] \in Page
  BY InvParts
<1>2. CASE Type(p)
  <2> DEFINE x == [page[p] EXCEPT !.text = @ \union {edits'}, !.clean = FALSE]
  <2>1. Become([page EXCEPT ![p] = x], job, drafts, store) /\ sent' = sent
    BY <1>2 DEF Type, Only, With, History
  <2>2. x.at = page[p].at /\ x.uid = page[p].uid
    BY <1>1 DEF Page
  <2> HIDE DEF x
  <2>3. QED
    BY <2>1, <2>2, EditAlone
<1>3. CASE Attach(p)
  <2> DEFINE x == [page[p] EXCEPT !.file = Least(FreeFiles)]
             st == store \union {Least(FreeFiles)}
  <2>1. Become([page EXCEPT ![p] = x], job, drafts, st) /\ sent' = sent
    BY <1>3 DEF Attach, With, History
  <2>2. x.at = page[p].at /\ x.uid = page[p].uid
    BY <1>1 DEF Page
  <2> HIDE DEF x, st
  <2>3. QED
    BY <2>1, <2>2, EditAlone
<1>4. CASE RemoveFile(p)
  <2> DEFINE x == [page[p] EXCEPT !.file = 0]
             st == store \ {page[p].file}
  <2>1. Become([page EXCEPT ![p] = x], job, drafts, st) /\ sent' = sent
    BY <1>4 DEF RemoveFile, With
  <2>2. x.at = page[p].at /\ x.uid = page[p].uid
    BY <1>1 DEF Page
  <2> HIDE DEF x, st
  <2>3. QED
    BY <2>1, <2>2, EditAlone
<1>5. CASE LeavePage(p)
  <2>1. Become([page EXCEPT ![p] = Closed], job, drafts, store) /\ sent' = sent
    BY <1>5 DEF LeavePage, Only, With, History
  <2>2. QED
    BY <2>1, Records, EditAlone
<1>6. CASE AttachRefused(p) \/ AttachTooLarge(p)
  <2> DEFINE x == [page[p] EXCEPT !.file = 0]
  <2>1. Become([page EXCEPT ![p] = x], job, drafts, store) /\ sent' = sent
    BY <1>6 DEF AttachRefused, AttachTooLarge, Only, With, History
  <2>2. x.at = page[p].at /\ x.uid = page[p].uid
    BY <1>1 DEF Page
  <2> HIDE DEF x
  <2>3. QED
    BY <2>1, <2>2, EditAlone
<1>7. QED
  BY <1>2, <1>3, <1>4, <1>5, <1>6

LEMMA ResumeAlone ==
    ASSUME DraftsInv, DraftsInv', Alone(page, job, drafts, sent), NEW p \in Pages, NEW u \in DOMAIN drafts,
           Resume(p, u), trouble = 0, trouble' = 0
    PROVE  Alone(page', job', drafts', sent')
<1> DEFINE new == IF File \in drafts[u] THEN {Least(FreeFiles)} ELSE {}
           f == IF new = {} THEN 0 ELSE Least(new)
           x == [Fresh EXCEPT !.text = drafts[u] \ {File}, !.uid = u, !.file = f]
           pg == [page EXCEPT ![p] = x]
           st == store \union new
<1>1. Become(pg, job, drafts, st) /\ sent' = sent
      /\ (IF Busy = {} /\ \A q \in Pages : ~Composer(q) THEN Calm ELSE Trouble)
  BY DEF Resume, With
<1>2. Busy = {} /\ \A q \in Pages : page[q].at # "open"
  BY <1>1 DEF Trouble, Composer
<1>3. x.uid = u
  BY Records DEF Page
<1>4. pg[p] = x /\ \A q \in Pages : q # p => pg[q] = page[q]
  BY InvParts
<1> HIDE DEF x, pg, st
<1>5. \A r \in Requests : ~ IsBusy(job[r])
  BY <1>2 DEF Busy, IsBusy
<1>6. \A v, w \in DOMAIN drafts : v = w /\ ~ sent
  BY <1>5 DEF Alone, AloneIdle
<1>7. AloneIdle(pg, drafts, sent) /\ OneOpen(pg)
  BY <1>2, <1>3, <1>4, <1>6 DEF AloneIdle, OneOpen
<1>8. Alone(pg, job, drafts, sent)
  BY <1>5, <1>7 DEF Alone
<1>9. QED
  BY <1>1, <1>8, AloneNext

LEMMA PostAlone ==
    ASSUME DraftsInv, DraftsInv', Alone(page, job, drafts, sent), NEW p \in Pages, NEW r \in Requests,
           NEW j0 \in Job, NEW y, j0.at \in {"append", "deliver"},
           y.at # "open" \/ (y.uid = page[p].uid /\ j0.page = p),
           Post(r, p, j0, y), trouble = 0, trouble' = 0
    PROVE  Alone(page', job', drafts', sent')
<1> DEFINE j == [j0 EXCEPT !.text = page[p].text, !.file = page[p].file, !.uid = page[p].uid]
           pg == [page EXCEPT ![p] = y]
           jb == [job EXCEPT ![r] = j]
<1>1. /\ Become(pg, jb, drafts, store) /\ sent' = sent /\ page[p].at = "open"
      /\ IF Busy = {} THEN Calm ELSE Trouble
  BY DEF Post, With, Composer
<1>2. \A q \in Requests : ~ IsBusy(job[q])
  BY <1>1 DEF Trouble, Busy, IsBusy
<1>3. j.at = j0.at /\ j.page = j0.page /\ j.uid = page[p].uid
  BY DEF Job
<1>4. /\ pg[p] = y /\ \A q \in Pages : q # p => pg[q] = page[q]
      /\ jb[r] = j /\ \A q \in Requests : q # r => jb[q] = job[q]
  BY InvParts
<1> HIDE DEF j, pg, jb
<1>5. \A q \in Pages : page[q].at = "open" => q = p
  BY <1>1 DEF Alone, OneOpen
<1>6. DOMAIN drafts \subseteq {page[p].uid} /\ ~ sent
  BY <1>1, <1>2 DEF Alone, AloneIdle
<1>7. \A q \in Pages : pg[q].at = "open" => q = p
  BY <1>4, <1>5
<1>8. AloneBusy(j, pg, drafts, sent)
  BY <1>3, <1>4, <1>6, <1>7 DEF AloneBusy
<1>9. Alone(pg, jb, drafts, sent)
  BY <1>2, <1>3, <1>4, <1>7, <1>8 DEF Alone, OneOpen, IsBusy
<1>10. QED
  BY <1>1, <1>9, AloneNext

LEMMA AskAlone ==
    ASSUME DraftsInv, DraftsInv', Alone(page, job, drafts, sent), NEW p \in Pages, NEW r \in Requests,
           \/ FollowLink(r, p) \/ PageHide(r, p) \/ Press(r, p, "append") \/ Press(r, p, "deliver"),
           trouble = 0, trouble' = 0
    PROVE  Alone(page', job', drafts', sent')
<1>1. page[p] \in Page
  BY InvParts
<1>2. CASE FollowLink(r, p)
  <2> DEFINE j == [New EXCEPT !.at = "append", !.page = p, !.auto = TRUE]
  <2>1. Post(r, p, j, page[p])
    BY <1>2 DEF FollowLink
  <2>2. j \in Job
    BY Records, ZenonT(40) DEF Job
  <2>3. j.at = "append" /\ j.page = p
    BY Records DEF Job
  <2> HIDE DEF j
  <2>4. QED
    BY <2>1, <2>2, <2>3, PostAlone
<1>3. CASE PageHide(r, p)
  <2> DEFINE j == [New EXCEPT !.at = "append"]
  <2>1. Post(r, p, j, Closed)
    BY <1>3 DEF PageHide
  <2>2. j \in Job
    BY Records, ZenonT(40) DEF Job
  <2>3. j.at = "append"
    BY Records DEF Job
  <2> HIDE DEF j
  <2>4. QED
    BY <2>1, <2>2, <2>3, Records, PostAlone
<1>4. ASSUME NEW at \in {"append", "deliver"}, Press(r, p, at)
      PROVE  Alone(page', job', drafts', sent')
  <2> DEFINE j == [New EXCEPT !.at = at, !.page = p]
             y == [page[p] EXCEPT !.sending = TRUE]
  <2>1. Post(r, p, j, y)
    BY <1>4 DEF Press
  <2>2. j \in Job
    BY Records, ZenonT(40) DEF Job
  <2>3. j.at = at /\ j.page = p /\ y.uid = page[p].uid
    BY <1>1, Records DEF Job, Page
  <2> HIDE DEF j, y
  <2>4. QED
    BY <2>1, <2>2, <2>3, PostAlone
<1>5. QED
  BY <1>2, <1>3, <1>4

LEMMA AppendAlone ==
    ASSUME DraftsInv, DraftsInv', Alone(page, job, drafts, sent), NEW r \in Requests,
           NEW then \in {"find", "supersede"}, Append(r, then)
    PROVE  Alone(page', job', drafts', sent')
<1> DEFINE n == Least(FreeUids)
           d == Appended(r)
           x == job[r]
           j == [x EXCEPT !.text = {}, !.file = 0, !.new = n, !.at = then]
           jb == [job EXCEPT ![r] = j]
<1>1. x.at = "append" /\ FreeUids # {} /\ Become(page, jb, d, store) /\ sent' = sent
  BY DEF Append
<1>2. DOMAIN d = DOMAIN drafts \union {n}
  BY <1>1, AppendedIs
<1> HIDE DEF n, d
<1>3. j.at = then /\ j.new = n /\ j.page = x.page /\ j.uid = x.uid
  BY InvParts DEF Job
<1>4. AloneBusy(x, page, drafts, sent) /\ IsBusy(x)
  BY <1>1 DEF Alone, IsBusy
<1> HIDE DEF j
<1>5. AloneBusy(j, page, d, sent) /\ IsBusy(j)
  BY <1>1, <1>2, <1>3, <1>4 DEF AloneBusy, IsBusy
<1>6. Alone(page, jb, d, sent)
  BY <1>4, <1>5, InvParts, AloneGoesOn
<1> HIDE DEF jb
<1>7. QED
  BY <1>1, <1>6, AloneNext

LEMMA FindAlone ==
    ASSUME DraftsInv, DraftsInv', Alone(page, job, drafts, sent), NEW r \in Requests, Find(r)
    PROVE  Alone(page', job', drafts', sent')
<1> DEFINE x == job[r]
           uid == IF x.new = Gone THEN 0 ELSE x.new
           j == [x EXCEPT !.at = "supersede", !.new = uid]
           jb == [job EXCEPT ![r] = j]
<1>1. /\ x.at = "find" /\ sent' = sent
      /\ Become(page, [job EXCEPT ![r].at = "supersede", ![r].new = uid], drafts, store)
  BY DEF Find, Found
<1>2. AloneBusy(x, page, drafts, sent) /\ IsBusy(x)
  BY <1>1 DEF Alone, IsBusy
<1>3. uid = x.new
  <2>1. x.new \in DOMAIN drafts
    BY <1>1, <1>2 DEF AloneBusy
  <2>2. x.new # Gone
    BY <2>1, GoneIs, InvParts
  <2>3. QED
    BY <2>2
<1> HIDE DEF uid
<1>4. [job EXCEPT ![r].at = "supersede", ![r].new = uid] = jb
  BY InvParts, Zenon
<1>5. j.at = "supersede" /\ j.new = x.new /\ j.page = x.page /\ j.uid = x.uid
  BY <1>3, InvParts DEF Job
<1> HIDE DEF j
<1>6. AloneBusy(j, page, drafts, sent) /\ IsBusy(j)
  BY <1>1, <1>2, <1>5 DEF AloneBusy, IsBusy
<1>7. Alone(page, jb, drafts, sent)
  BY <1>2, <1>6, InvParts, AloneGoesOn
<1>8. Become(page, jb, drafts, store)
  BY <1>1, <1>4
<1> HIDE DEF jb
<1>9. QED
  BY <1>1, <1>7, <1>8, AloneNext

LEMMA DeliverAlone ==
    ASSUME DraftsInv, DraftsInv', Alone(page, job, drafts, sent), NEW r \in Requests, Deliver(r)
    PROVE  Alone(page', job', drafts', sent')
<1> DEFINE x == job[r]
           j == [x EXCEPT !.at = "conclude", !.text = {}]
           jb == [job EXCEPT ![r] = j]
<1>1. /\ x.at = "deliver" /\ sent' = TRUE
      /\ Become(page, [job EXCEPT ![r].at = "conclude", ![r].text = {}], drafts, store)
  BY DEF Deliver, Accepted
<1>2. [job EXCEPT ![r].at = "conclude", ![r].text = {}] = jb
  BY InvParts, Zenon
<1>3. j.at = "conclude" /\ j.page = x.page /\ j.uid = x.uid
  BY InvParts DEF Job
<1>4. AloneBusy(x, page, drafts, sent) /\ IsBusy(x)
  BY <1>1 DEF Alone, IsBusy
<1> HIDE DEF j
<1>5. AloneBusy(j, page, drafts, sent') /\ IsBusy(j)
  BY <1>1, <1>3, <1>4 DEF AloneBusy, IsBusy
<1>6. Alone(page, jb, drafts, sent')
  BY <1>4, <1>5, InvParts, AloneGoesOn
<1>7. Become(page, jb, drafts, store)
  BY <1>1, <1>2
<1> HIDE DEF jb
<1>8. QED
  BY <1>6, <1>7, AloneNext

\* What the reply of the only request leaves open is the composer it answers.
LEMMA ShownAlone ==
    ASSUME NEW r \in Requests, NEW se, AloneBusy(job[r], page, drafts, se), NEW x, NEW a, a = Shown(r, x),
           NEW p \in Pages, a[p].at = "open"
    PROVE  a[p] = x /\ job[r].page = p
<1>1. a[p] = IF p \in Waiting(r) THEN x ELSE page[p]
  BY DEF Shown
<1>2. CASE p \in Waiting(r)
  BY <1>1, <1>2 DEF Waiting
<1>3. CASE p \notin Waiting(r)
  <2>1. job[r].page = p
    BY <1>1, <1>3 DEF AloneBusy
  <2>2. QED
    BY <1>3, <2>1 DEF Waiting
<1>4. QED
  BY <1>2, <1>3

LEMMA SupersedeAlone ==
    ASSUME DraftsInv, DraftsInv', Alone(page, job, drafts, sent), NEW r \in Requests, Supersede(r)
    PROVE  Alone(page', job', drafts', sent')
<1> DEFINE x == job[r]
           d == Superseded(r)
           k == Done(r)
<1>1. PICK a \in Answers(r, x.new) : Become(a, k, d, store)
  BY DEF Supersede
<1>2. x.at = "supersede" /\ sent' = sent
  BY DEF Supersede, History
<1>3. AloneBusy(x, page, drafts, sent) /\ IsBusy(x)
  BY <1>2 DEF Alone, IsBusy
<1>4. DOMAIN drafts \subseteq {x.uid, x.new} /\ x.new \in DOMAIN drafts /\ ~ sent
  BY <1>2, <1>3 DEF AloneBusy
<1>5. DOMAIN d \subseteq {x.new}
  BY <1>4, WithoutIs DEF Superseded
<1>6. x.new # 0
  BY <1>4, InvParts, GoneIs
<1>7. \A p \in Pages : a[p].at = "open" => p = x.page /\ a[p].uid = x.new
  <2>1. CASE a = Shown(r, Closed)
    <3>1. Closed.at # "open"
      BY Records
    <3>2. QED
      BY <1>3, <2>1, <3>1, ShownAlone
  <2>2. CASE a # Shown(r, Closed)
    <3> DEFINE y(q) == [page[q] EXCEPT !.uid = IF x.new = 0 THEN @ ELSE x.new, !.clean = TRUE]
    <3>1. PICK q \in IF x.auto THEN Waiting(r) ELSE {} : a = Shown(r, y(q))
      BY <1>1, <2>2, Zenon DEF Answers
    <3>2. q \in Pages /\ page[q] \in Page
      BY <3>1, InvParts DEF Waiting
    <3>3. y(q).uid = x.new
      BY <1>6, <3>2 DEF Page
    <3> HIDE DEF y
    <3>4. QED
      BY <1>3, <3>1, <3>3, ShownAlone
  <2>3. QED
    BY <2>1, <2>2
<1>8. OneOpen(a) /\ AloneIdle(a, d, sent)
  BY <1>4, <1>5, <1>7 DEF OneOpen, AloneIdle
<1>9. k[r] = Over /\ \A q \in Requests : k[q] # Over => k[q].at = job[q].at /\ q # r
  BY InvParts DEF Done
<1> HIDE DEF d, k
<1>10. Alone(a, k, d, sent)
  BY <1>3, <1>8, <1>9, InvParts, AloneEnds
<1>11. QED
  BY <1>1, <1>2, <1>10, AloneNext

LEMMA RefuseAlone ==
    ASSUME DraftsInv, DraftsInv', Alone(page, job, drafts, sent), NEW r \in Requests, RefuseShort(r)
    PROVE  Alone(page', job', drafts', sent')
<1> DEFINE x == job[r]
           back == [Fresh EXCEPT !.text = x.text, !.uid = x.uid,
                                 !.file = IF Missing(x.file) THEN 0 ELSE x.file]
           a == Shown(r, back)
           k == [q \in Requests |->
                  IF q = r THEN Over
                  ELSE IF job[q].page \in Waiting(r) THEN [job[q] EXCEPT !.page = None]
                  ELSE job[q]]
<1>1. x.at = "deliver" /\ Become(a, k, drafts, store) /\ sent' = sent
  BY DEF RefuseShort, Refuse, History
<1>2. AloneBusy(x, page, drafts, sent) /\ IsBusy(x)
  BY <1>1 DEF Alone, IsBusy
<1>3. DOMAIN drafts \subseteq {x.uid} /\ ~ sent
  BY <1>1, <1>2 DEF AloneBusy
<1>4. back.uid = x.uid
  BY Records DEF Page
<1> HIDE DEF back
<1>5. \A p \in Pages : a[p].at = "open" => p = x.page /\ a[p].uid = x.uid
  BY <1>2, <1>4, ShownAlone
<1>6. OneOpen(a) /\ AloneIdle(a, drafts, sent)
  BY <1>3, <1>5 DEF OneOpen, AloneIdle
<1>7. k[r] = Over /\ \A q \in Requests : k[q] # Over => k[q].at = job[q].at /\ q # r
  <2> SUFFICES ASSUME NEW q \in Requests, q # r PROVE k[q].at = job[q].at
    OBVIOUS
  <2>1. job[q] \in Job
    BY InvParts
  <2>2. [job[q] EXCEPT !.page = None].at = job[q].at
    BY <2>1 DEF Job
  <2>3. QED
    BY <2>2
<1> HIDE DEF a, k
<1>8. Alone(a, k, drafts, sent)
  BY <1>2, <1>6, <1>7, InvParts, AloneEnds
<1>9. QED
  BY <1>1, <1>8, AloneNext

LEMMA ConcludeAlone ==
    ASSUME DraftsInv, DraftsInv', Alone(page, job, drafts, sent), NEW r \in Requests, Conclude(r)
    PROVE  Alone(page', job', drafts', sent')
<1> DEFINE x == job[r]
           a == Shown(r, Closed)
           d == Without(x.uid)
           k == Done(r)
           st == Forgotten(r)
<1>1. x.at = "conclude" /\ Become(a, k, d, st) /\ sent' = sent
  BY DEF Conclude, Concluded
<1>2. AloneBusy(x, page, drafts, sent) /\ IsBusy(x)
  BY <1>1 DEF Alone, IsBusy
<1>3. DOMAIN d = {}
  BY <1>1, <1>2, WithoutIs DEF AloneBusy
<1>4. \A p \in Pages : a[p].at # "open"
  BY <1>2, Records, ShownAlone
<1>5. OneOpen(a) /\ AloneIdle(a, d, sent)
  BY <1>3, <1>4 DEF OneOpen, AloneIdle
<1>6. k[r] = Over /\ \A q \in Requests : k[q] # Over => k[q].at = job[q].at /\ q # r
  BY InvParts DEF Done
<1> HIDE DEF a, d, k, st
<1>7. Alone(a, k, d, sent)
  BY <1>2, <1>5, <1>6, InvParts, AloneEnds
<1>8. QED
  BY <1>1, <1>7, AloneNext

LEMMA AgeAlone ==
    ASSUME DraftsInv, DraftsInv', Alone(page, job, drafts, sent), NEW f \in store, AgeOut(f)
    PROVE  Alone(page', job', drafts', sent')
<1> DEFINE st == store \ {f}
<1>1. Become(page, job, drafts, st) /\ sent' = sent
  BY DEF AgeOut
<1> HIDE DEF st
<1>2. QED
  BY <1>1, AloneNext

LEMMA AloneKeeps == DraftsInv /\ AloneInv /\ [DraftsNext]_draftsVars => AloneInv'
<1> SUFFICES ASSUME DraftsInv, AloneInv, [DraftsNext]_draftsVars, trouble' = 0
             PROVE  Alone(page', job', drafts', sent')
  BY DEF AloneInv
<1>1. DraftsInv'
  BY DraftsKeep
<1>2. Trouble => trouble' # 0
  BY Bounds, InvParts DEF Trouble, Bounded
<1>3. ASSUME trouble = 0, NEW p \in Pages, Writer(p) PROVE Alone(page', job', drafts', sent')
  <2>1. Alone(page, job, drafts, sent)
    BY <1>3 DEF AloneInv
  <2>2. CASE \/ Type(p) \/ Attach(p) \/ AttachRefused(p) \/ AttachTooLarge(p)
             \/ RemoveFile(p) \/ LeavePage(p)
    BY <1>1, <2>1, <2>2, WriteAlone
  <2>3. CASE \E u \in DOMAIN drafts : Resume(p, u)
    BY <1>1, <1>3, <2>1, <2>3, ResumeAlone
  <2>4. CASE \E r \in Requests : FollowLink(r, p) \/ PageHide(r, p)
                                  \/ Press(r, p, "append") \/ Press(r, p, "deliver")
    BY <1>1, <1>3, <2>1, <2>4, AskAlone
  <2>5. QED
    BY <1>3, <2>2, <2>3, <2>4 DEF Writer
<1>4. ASSUME trouble = 0, NEW r \in Requests, Handler(r) PROVE Alone(page', job', drafts', sent')
  <2>1. Alone(page, job, drafts, sent)
    BY <1>4 DEF AloneInv
  <2>2. CASE Append(r, "supersede") \/ Append(r, "find")
    BY <1>1, <2>1, <2>2, AppendAlone
  <2>3. CASE Find(r)
    BY <1>1, <2>1, <2>3, FindAlone
  <2>4. CASE Supersede(r)
    BY <1>1, <2>1, <2>4, SupersedeAlone
  <2>5. CASE RefuseShort(r)
    BY <1>1, <2>1, <2>5, RefuseAlone
  <2>6. CASE Deliver(r)
    BY <1>1, <2>1, <2>6, DeliverAlone
  <2>7. CASE Conclude(r)
    BY <1>1, <2>1, <2>7, ConcludeAlone
  <2>8. CASE AppendFails(r) \/ FindFails(r) \/ SupersedeFails(r) \/ DeliverFails(r) \/ ConcludeFails(r)
    BY <1>2, <2>8 DEF AppendFails, FindFails, SupersedeFails, DeliverFails, ConcludeFails
  <2>9. QED
    BY <1>4, <2>2, <2>3, <2>4, <2>5, <2>6, <2>7, <2>8 DEF Handler
<1>5. ASSUME trouble = 0, NEW f \in store, AgeOut(f) PROVE Alone(page', job', drafts', sent')
  BY <1>1, <1>5, AgeAlone DEF AloneInv
<1>6. CASE Restart
  BY <1>2, <1>6 DEF Restart
<1>7. CASE UNCHANGED draftsVars
  BY <1>7 DEF draftsVars, AloneInv
<1>8. CASE DraftsNext
  <2>1. trouble' = trouble \/ Trouble
    <3>1. ASSUME NEW p \in Pages, Writer(p) PROVE trouble' = trouble \/ Trouble
      BY <3>1 DEF Writer, Type, Attach, AttachRefused, AttachTooLarge, RemoveFile, LeavePage, Resume,
                  FollowLink, PageHide, Press, Post, Calm, History
    <3>2. ASSUME NEW r \in Requests, Handler(r) PROVE trouble' = trouble \/ Trouble
      BY <3>2 DEF Handler, Append, AppendFails, Find, FindFails, Supersede, SupersedeFails, RefuseShort,
                  Deliver, DeliverFails, Conclude, ConcludeFails, Calm, History
    <3>3. QED
      BY <1>8, <3>1, <3>2 DEF DraftsNext, AgeOut, Restart
  <2>2. trouble = 0
    BY <1>2, <2>1
  <2>3. QED
    BY <1>3, <1>4, <1>5, <1>6, <1>8, <2>2 DEF DraftsNext
<1>9. QED
  BY <1>7, <1>8

\* While nothing overlaps or fails one composer at most is open, and Drafts has
\* no copy but those its request and it can name, or none once the message is
\* sent (handleDraftSave, handleSend).
THEOREM AloneInvariant == DraftsSpec => []AloneInv
<1>1. DraftsInit => AloneInv
  <2> SUFFICES ASSUME DraftsInit PROVE Alone(page, job, drafts, sent)
    BY DEF AloneInv
  <2>1. /\ \A p \in Pages : page[p].at = "open" => p = First
        /\ \A r \in Requests : job[r].at = "new"
        /\ DOMAIN drafts = {} /\ sent = FALSE
    BY DEF DraftsInit, Unused, Fresh, New
  <2>2. QED
    BY <2>1 DEF Alone, OneOpen, IsBusy, AloneIdle
<1>2. QED
  BY <1>1, DraftsInvariant, AloneKeeps, DraftsKeep, PTL DEF DraftsSpec

\* Saves and sends that neither overlap nor fail leave one copy in Drafts, and
\* none once the message is sent, whether or not the server names the UIDs it
\* gives (handleDraftSave, handleSend).
THEOREM NothingStacksUpTheorem == DraftsSpec => []NothingStacksUp
<1>1. AloneInv => NothingStacksUp
  BY DEF AloneInv, Alone, AloneIdle, IsBusy, Busy, NothingStacksUp
<1>2. QED
  BY <1>1, AloneInvariant, PTL
=============================================================================
