----------------------------- MODULE PartsProofs -----------------------------
(***************************************************************************)
(* Proofs about the parts that share no state and are checked together     *)
(* (MCParts): the key check, contacts, the key pair, the Sent scan, the    *)
(* folders, the assistant's chat, what a browser is sent, and the pictures *)
(* of a message.                                                           *)
(***************************************************************************)
EXTENDS KeyCheck, Contacts, OpenPGP, SentScan, Folders, ClaudeChat, Delivery,
        Pictures, WellFoundedInduction, TLAPS

(* KeyCheck: one key, from the first value sealed to the last server.       *)

\* Before step 14 nothing looks at a key, and a process under way has one.
KeyStages ==
    /\ version # Latest => /\ probe = NoKey /\ tool.pc = "off"
                           /\ server.pc \in {"off", "migrate"}
    /\ server.pc # "off" => server.key \in Key
    /\ tool.pc # "off" => tool.key \in Key
    /\ server.pc \in {"seed", "insert"} => probe = NoKey

\* Until mailctl seals with nothing to show it the key, what is sampled is
\* sealed under the owner, and whoever has compared keys has the owner's, or
\* was refused for having another.  A database without a probe is one nothing
\* was discarded from.
OneKey ==
    /\ \A kind \in Sampled : sealed[kind] \subseteq {owner}
    /\ probe \in {NoKey, owner}
    /\ probe = NoKey /\ owner # NoKey => Holds(Sampled) # {}
    /\ server.pc = "insert" => owner \in {NoKey, server.key}
    /\ server.pc = "serving" => owner = server.key /\ probe = server.key
    /\ server.pc = "refused" => owner # server.key
    /\ tool.pc = "ready" /\ ~ tool.blind => tool.key = owner

KeyIInv == KeyTypeOK /\ KeyStages /\ (blind \/ OneKey)

\* The steps are finite, so the next one is one of those due.
LEMMA NextStepIsDue ==
    ASSUME version \in Versions, Due # {}
    PROVE  NextStep \in Due
<1>1. \E v \in Due : \A w \in Due : v <= w
  BY SMT DEF Due, Steps, Versions
<1>2. QED
  BY <1>1 DEF NextStep

\* A sample is of what is there, and there is none only where nothing is.
LEMMA SampleIsAKey ==
    ASSUME KeyTypeOK, NEW kinds \in SUBSET Kinds, NEW s \in SampleOf(kinds)
    PROVE  \/ s = NoKey /\ Holds(kinds) = {}
           \/ s \in Key /\ \E kind \in kinds : s \in sealed[kind]
BY DEF KeyTypeOK, SampleOf, Holds

LEMMA KeyInitIInv == KeyInit => KeyIInv
<1> SUFFICES ASSUME KeyInit PROVE KeyIInv
  OBVIOUS
<1> USE NoKeyAssumption DEF KeyInit, Off, CtlOff, Latest, Versions
<1>1. KeyTypeOK
  BY DEF KeyTypeOK, Server, ServerStep, Command
<1>2. KeyStages
  BY DEF KeyStages
<1>3. OneKey
  BY DEF OneKey, Holds, Kinds, Sampled
<1>4. QED
  BY <1>1, <1>2, <1>3 DEF KeyIInv

LEMMA KeyTypeStep == KeyTypeOK /\ KeyStages /\ [KeyNext]_keyVars => KeyTypeOK'
<1> SUFFICES ASSUME KeyTypeOK, KeyStages, [KeyNext]_keyVars PROVE KeyTypeOK'
  OBVIOUS
<1> USE DEF KeyTypeOK, Server, ServerStep, Command
<1>1. ASSUME NEW k \in Key, Start(k) PROVE KeyTypeOK'
  BY <1>1 DEF Start
<1>2. CASE Migrate
  BY <1>2, NextStepIsDue DEF Migrate, Due, Steps, Versions, Nothing
<1>3. CASE Migrated
  BY <1>3 DEF Migrated
<1>4. CASE CheckProbe
  BY <1>4 DEF CheckProbe, Refused
<1>5. CASE Sample
  BY <1>5 DEF Sample, Refused
<1>6. CASE Seed
  BY <1>6 DEF Seed
<1>7. CASE Stop
  BY <1>7 DEF Stop, Off
<1>8. ASSUME NEW kind \in Kinds, Store(kind) PROVE KeyTypeOK'
  BY <1>8 DEF Store, With, KeyStages
<1>9. ASSUME NEW kind \in Kinds, NEW k \in Key, Discard(kind, k) PROVE KeyTypeOK'
  BY <1>9 DEF Discard
<1>10. ASSUME NEW k \in Key, CtlOpen(k) PROVE KeyTypeOK'
  BY <1>10 DEF CtlOpen
<1>11. CASE CtlOpenSealer
  <2>1. PICK s \in CtlSample, b \in BOOLEAN :
          tool' = IF s \in {NoKey, tool.key} THEN [tool EXCEPT !.pc = "ready", !.blind = b]
                                             ELSE CtlOff
    BY <1>11 DEF CtlOpenSealer
  <2>2. QED
    BY <1>11, <2>1 DEF CtlOpenSealer, CtlOff
<1>12. CASE CtlSeal
  BY <1>12 DEF CtlSeal, With, CtlOff, Kinds, KeyStages
<1>13. CASE CtlQuit
  BY <1>13 DEF CtlQuit, CtlOff
<1>14. CASE UNCHANGED keyVars
  BY <1>14 DEF keyVars
<1>15. QED
  BY <1>1, <1>2, <1>3, <1>4, <1>5, <1>6, <1>7, <1>8, <1>9, <1>10, <1>11, <1>12, <1>13,
     <1>14 DEF KeyNext

LEMMA KeyStagesStep == KeyTypeOK /\ KeyStages /\ [KeyNext]_keyVars => KeyStages'
<1> SUFFICES ASSUME KeyTypeOK, KeyStages, [KeyNext]_keyVars PROVE KeyStages'
  OBVIOUS
<1> USE DEF KeyTypeOK, KeyStages, Server, Command, Latest
<1>1. ASSUME NEW k \in Key, Start(k) PROVE KeyStages'
  BY <1>1 DEF Start
<1>2. CASE Migrate
  BY <1>2, NextStepIsDue DEF Migrate, Due, Steps
<1>3. CASE Migrated
  BY <1>3 DEF Migrated, Due, Steps, Versions
<1>4. CASE CheckProbe
  BY <1>4 DEF CheckProbe, Refused
<1>5. CASE Sample
  BY <1>5 DEF Sample, Refused
<1>6. CASE Seed
  BY <1>6 DEF Seed
<1>7. CASE Stop
  BY <1>7 DEF Stop, Off
<1>8. ASSUME NEW kind \in Kinds, Store(kind) PROVE KeyStages'
  BY <1>8 DEF Store
<1>9. ASSUME NEW kind \in Kinds, NEW k \in Key, Discard(kind, k) PROVE KeyStages'
  BY <1>9 DEF Discard
<1>10. ASSUME NEW k \in Key, CtlOpen(k) PROVE KeyStages'
  BY <1>10 DEF CtlOpen
<1>11. CASE CtlOpenSealer
  BY <1>11 DEF CtlOpenSealer, CtlOff
<1>12. CASE CtlSeal
  BY <1>12 DEF CtlSeal, CtlOff
<1>13. CASE CtlQuit
  BY <1>13 DEF CtlQuit, CtlOff
<1>14. CASE UNCHANGED keyVars
  BY <1>14 DEF keyVars
<1>15. QED
  BY <1>1, <1>2, <1>3, <1>4, <1>5, <1>6, <1>7, <1>8, <1>9, <1>10, <1>11, <1>12, <1>13,
     <1>14 DEF KeyNext

\* A start whose sample opens has the owner's key, one whose sample does not
\* has another; and so for mailctl.
LEMMA OneKeyStep ==
    KeyTypeOK /\ KeyStages /\ (blind \/ OneKey) /\ [KeyNext]_keyVars => blind' \/ OneKey'
<1> SUFFICES ASSUME KeyTypeOK, KeyStages, blind \/ OneKey, [KeyNext]_keyVars, ~ blind'
             PROVE  OneKey'
  OBVIOUS
<1>0. ~ blind /\ OneKey
  BY DEF KeyTypeOK, Command, KeyNext, Start, Migrate, Migrated, CheckProbe, Sample, Seed, Stop,
         Store, Discard, CtlOpen, CtlOpenSealer, CtlSeal, CtlQuit, keyVars
<1> USE <1>0, NoKeyAssumption DEF KeyTypeOK, KeyStages, OneKey, Holds, Server, Command, Latest
<1>1. ASSUME NEW k \in Key, Start(k) PROVE OneKey'
  BY <1>1 DEF Start
<1>2. CASE Migrate
  <2>1. version # Latest
    BY <1>2 DEF Migrate, Due, Steps
  <2>2. CASE NextStep = 11
    BY <1>2, <2>1, <2>2 DEF Migrate, Nothing, Kinds, Sampled
  <2>3. CASE NextStep # 11
    BY <1>2, <2>1, <2>3 DEF Migrate
  <2>4. QED
    BY <2>2, <2>3
<1>3. CASE Migrated
  BY <1>3 DEF Migrated
<1>4. CASE CheckProbe
  BY <1>4 DEF CheckProbe, OpensProbe, Refused
<1>5. CASE Sample
  <2>1. PICK s \in SampleOf(Sampled) :
          server' = IF SampleOpens(s, server.key) THEN [server EXCEPT !.pc = "insert"]
                                                  ELSE Refused
    BY <1>5 DEF Sample
  <2>2. (s = NoKey /\ owner = NoKey) \/ (s \in Key /\ s = owner)
    BY <2>1, <1>5, SampleIsAKey DEF Sample, Kinds, Sampled
  <2>3. QED
    BY <1>5, <2>1, <2>2 DEF Sample, SampleOpens, Refused
<1>6. CASE Seed
  BY <1>6 DEF Seed, Kinds, Sampled
<1>7. CASE Stop
  BY <1>7 DEF Stop, Off
<1>8. ASSUME NEW kind \in Kinds, Store(kind) PROVE OneKey'
  BY <1>8 DEF Store, With, Kinds, Sampled
<1>9. ASSUME NEW kind \in Kinds, NEW k \in Key, Discard(kind, k) PROVE OneKey'
  BY <1>9 DEF Discard, Kinds, Sampled
<1>10. ASSUME NEW k \in Key, CtlOpen(k) PROVE OneKey'
  BY <1>10 DEF CtlOpen
<1>11. CASE CtlOpenSealer
  <2>1. PICK s \in CtlSample :
          tool' = IF s \in {NoKey, tool.key}
                  THEN [tool EXCEPT !.pc = "ready", !.blind = (s = NoKey)] ELSE CtlOff
    BY <1>11 DEF CtlOpenSealer
  <2>2. s \in {NoKey, owner}
    BY <2>1, SampleIsAKey DEF CtlSample, CtlSampled, Kinds, Sampled
  <2>3. QED
    BY <1>11, <2>1, <2>2 DEF CtlOpenSealer, CtlOff
<1>12. CASE CtlSeal
  BY <1>12 DEF CtlSeal, With, CtlOff, Kinds, Sampled
<1>13. CASE CtlQuit
  BY <1>13 DEF CtlQuit, CtlOff
<1>14. CASE UNCHANGED keyVars
  BY <1>14 DEF keyVars
<1>15. QED
  BY <1>1, <1>2, <1>3, <1>4, <1>5, <1>6, <1>7, <1>8, <1>9, <1>10, <1>11, <1>12, <1>13,
     <1>14 DEF KeyNext

\* The invariant holds in every state of every behaviour.
THEOREM KeyInvariant == KeySpec => []KeyIInv
<1>1. KeyIInv /\ [KeyNext]_keyVars => KeyIInv'
  BY KeyTypeStep, KeyStagesStep, OneKeyStep DEF KeyIInv
<1> QED
  BY <1>1, KeyInitIInv, PTL DEF KeySpec

\* Whatever starts, steps, keys and kills came before, a server that serves
\* reads all that is sampled, and the data's own key is never the one refused,
\* unless mailctl sealed blind (keycheck.go:60).
THEOREM KeyServesTheorem == KeySpec => []KeyServesItsData
<1>1. KeyIInv => KeyServesItsData
  BY DEF KeyIInv, OneKey, KeyServesItsData, ServingReads, OriginalStarts, Readable
<1> QED
  BY <1>1, KeyInvariant, PTL

-----------------------------------------------------------------------------
\* A set of naturals has a least member,
LEMMA LeastOfNaturals ==
    ASSUME NEW T, T \subseteq Nat, T # {}
    PROVE  \E x \in T : \A y \in T : x <= y
<1>1. PICK x \in T : \A y \in T : ~ (<<y, x>> \in OpToRel(<, Nat))
  BY WFMin, NatLessThanWellFounded, Zenon
<1>2. \A y \in T : x <= y
  <2> TAKE y \in T
  <2>1. x \in Nat /\ y \in Nat
    OBVIOUS
  <2>2. ~ (y < x)
    BY <1>1, <2>1 DEF OpToRel
  <2>3. QED
    BY <2>1, <2>2
<1>3. QED
  BY <1>2

\* and one below a bound a greatest.
LEMMA GreatestUpTo ==
    ASSUME NEW n \in Nat, NEW T, T \subseteq 1 .. n, T # {}
    PROVE  \E x \in T : \A y \in T : y <= x
<1> DEFINE U == {k \in Nat : n - k \in T}
<1>1. U # {}
  <2>1. PICK t \in T : TRUE
    OBVIOUS
  <2>2. n - t \in Nat /\ n - (n - t) = t
    BY <2>1
  <2>3. QED
    BY <2>1, <2>2
<1>2. PICK k \in U : \A j \in U : k <= j
  BY <1>1, LeastOfNaturals
<1>3. ASSUME NEW y \in T PROVE y <= n - k
  <2>1. y \in Nat /\ n - y \in Nat /\ n - (n - y) = y
    OBVIOUS
  <2>2. k <= n - y
    BY <2>1, <1>2
  <2>3. QED
    BY <2>1, <2>2
<1>4. QED
  BY <1>2, <1>3

-----------------------------------------------------------------------------
(* Contacts: what the owner did, and what the walk still carries. *)

\* A row stays once it is there, and what was set by hand says so.
RowsStay ==
    /\ gone \subseteq Listed /\ RemovedStays
    /\ \A p \in Person : byHand[p] # "" =>
         p \in Listed /\ book[p].key = byHand[p] /\ book[p].from = "manual"

\* A key on its way to the book, and one in it that nobody put there, stands
\* in the inbox, from its address or with no From.
Announced(mail, p, k) ==
    \E i \in DOMAIN mail : mail[i] \in {From(f, p, k) : f \in {p, NoSender}}
WalkCarriesTheirs ==
    \A p \in Person : walk.keys[p] # NoneKept => Announced(inbox, p, walk.keys[p])
KeysAnnounced ==
    \A p \in Listed : book[p].key # NoneKept /\ byHand[p] = "" => Announced(inbox, p, book[p].key)

BookIInv == BookTypeOK /\ RowsStay /\ WalkCarriesTheirs /\ KeysAnnounced

\* The key the walk harvests is one a header it heeds announced.
LEMMA HarvestedIsAnnounced ==
    ASSUME BookTypeOK, NEW p \in Person
    PROVE  /\ Harvested(p) \in KeptKey
           /\ Harvested(p) # NoneKept => Announced(inbox, p, Harvested(p))
<1> DEFINE I == {i \in DOMAIN inbox : inbox[i].addr = p /\ Announces(inbox[i])}
           m == CHOOSE i \in I : \A j \in I : j <= i
<1>1. CASE I = {}
  BY <1>1 DEF Harvested, KeptKey
<1>2. CASE I # {}
  <2>0. Len(inbox) \in Nat /\ I \subseteq 1 .. Len(inbox)
    <3>1. inbox \in Seq(Header)
      BY DEF BookTypeOK
    <3>2. QED
      BY <3>1
  <2>1. m \in I
    <3>1. \E i \in I : \A j \in I : j <= i
      BY <1>2, <2>0, GreatestUpTo
    <3> HIDE DEF I
    <3>2. QED
      BY <3>1
  <2>2. Harvested(p) = inbox[m].key
    BY <1>2 DEF Harvested
  <2> HIDE DEF m
  <2>3. inbox[m] \in Header /\ inbox[m].addr = p /\ inbox[m].from \in {p, NoSender}
    <3>1. inbox \in Seq(Header)
      BY DEF BookTypeOK
    <3>2. inbox[m] \in Header
      BY <3>1, <2>1
    <3>3. QED
      BY <3>2, <2>1 DEF Announces
  <2>4. inbox[m] = From(inbox[m].from, p, inbox[m].key) /\ inbox[m].key \in PublicKey
    BY <2>3 DEF Header, From
  <2>5. m \in DOMAIN inbox
    BY <2>1
  <2>6. QED
    BY <2>2, <2>3, <2>4, <2>5 DEF Announced, KeptKey
<1>3. QED
  BY <1>1, <1>2

LEMMA EmptySeq == ASSUME NEW S PROVE << >> \in Seq(S) /\ Len(<< >>) = 0
OBVIOUS

LEMMA AppendedSeq ==
    ASSUME NEW S, NEW s \in Seq(S), NEW x \in S
    PROVE  Append(s, x) \in Seq(S) /\ Len(Append(s, x)) = Len(s) + 1 /\ Len(s) \in Nat
OBVIOUS

LEMMA KeySet ==
    ASSUME NEW P, book \in [P -> Entry], NEW p \in P, NEW k \in KeptKey,
           NEW f \in {"", "autocrypt", "manual"}
    PROVE  /\ WithKey(p, k, f) \in [P -> Entry]
           /\ DOMAIN WithKey(p, k, f) = P
           /\ WithKey(p, k, f)[p].key = k
           /\ WithKey(p, k, f)[p].from = f
           /\ WithKey(p, k, f)[p].removed = book[p].removed
           /\ \A q \in P : q # p => WithKey(p, k, f)[q] = book[q]
BY DEF WithKey, Entry

\* A key written to a row leaves its tombstone, and every other row, alone.
LEMMA KeyWritten ==
    ASSUME BookTypeOK, NEW p \in Listed, NEW k \in KeptKey,
           NEW f \in {"", "autocrypt", "manual"}, book' = WithKey(p, k, f)
    PROVE  /\ DOMAIN book' = DOMAIN book
           /\ book'[p].key = k /\ book'[p].from = f /\ book'[p].removed = book[p].removed
           /\ \A q \in DOMAIN book : q # p => book'[q] = book[q]
<1>1. PICK P \in SUBSET Person : book \in [P -> Entry]
  BY DEF BookTypeOK
<1>2. P = DOMAIN book /\ p \in P
  BY <1>1 DEF Listed
<1>3. QED
  BY <1>1, <1>2 DEF WithKey, Entry

LEMMA InboxAtFirst ==
    ASSUME inbox = << >> PROVE inbox \in Seq(Header) /\ Len(inbox) <= MaxMail
<1>1. inbox \in Seq(Header) /\ Len(inbox) = 0
  BY EmptySeq, Zenon
<1>2. QED
  BY <1>1, MaxMailAssumption

LEMMA InboxGrows ==
    ASSUME inbox \in Seq(Header), NEW h \in Header, Arrive(h)
    PROVE  inbox' \in Seq(Header) /\ Len(inbox') <= MaxMail
<1>1. Len(inbox) < MaxMail /\ inbox' = Append(inbox, h)
  BY DEF Arrive
<1>2. /\ Append(inbox, h) \in Seq(Header) /\ Len(Append(inbox, h)) = Len(inbox) + 1
      /\ Len(inbox) \in Nat
  BY AppendedSeq, Zenon
<1>3. QED
  BY <1>1, <1>2, MaxMailAssumption

LEMMA NewIsEntry == NewEntry \in Entry
BY DEF NewEntry, Entry, KeptKey

LEMMA KeptIsEntry ==
    ASSUME NEW e \in Entry PROVE [e EXCEPT !.removed = FALSE] \in Entry
BY DEF Entry

LEMMA BookInitIInv == BookInit => BookIInv
<1> SUFFICES ASSUME BookInit PROVE BookIInv
  OBVIOUS
<1> USE NoneKeptAssumption, MaxMailAssumption DEF BookInit, NoWalk, NoKeys, KeptKey
<1>1. BookTypeOK
  <2>4. inbox \in Seq(Header) /\ Len(inbox) <= MaxMail
    BY InboxAtFirst
  <2>2. \E P \in SUBSET Person : book \in [P -> Entry]
    <3>1. book \in [{} -> Entry]
      OBVIOUS
    <3>2. QED
      BY <3>1
  <2>5. QED
    BY <2>4, <2>2 DEF BookTypeOK, Walk
<1>2. RowsStay
  BY DEF RowsStay, RemovedStays, Listed
<1>3. WalkCarriesTheirs /\ KeysAnnounced
  BY DEF WalkCarriesTheirs, KeysAnnounced, Listed
<1>4. QED
  BY <1>1, <1>2, <1>3 DEF BookIInv

\* The book after a row, or several, were put in it.
LEMMA BookTypeStep == BookTypeOK /\ [BookNext]_bookVars => BookTypeOK'
<1> SUFFICES ASSUME BookTypeOK, [BookNext]_bookVars PROVE BookTypeOK'
  OBVIOUS
<1>0. PICK P \in SUBSET Person : book \in [P -> Entry]
  BY DEF BookTypeOK
<1>a. Listed = P
  BY <1>0 DEF Listed
<1> USE DEF BookTypeOK, Walk, NoWalk, NoKeys, KeptKey
<1>1. CASE Visit
  BY <1>1 DEF Visit
<1>2. CASE WalkFails
  BY <1>2 DEF WalkFails
<1>3. CASE ListSent
  BY <1>3 DEF ListSent
<1>4. CASE ReadSent
  BY <1>4 DEF ReadSent
<1>5. CASE Learn
  <2>1. book' \in [P \union walk.found -> Entry] /\ P \union walk.found \in SUBSET Person
    BY <1>0, <1>a, <1>5 DEF Learn, InsertedOnly, NewEntry, Entry
  <2>2. QED
    BY <2>1, <1>5 DEF Learn
<1>6. CASE ReadHeaders
  <2>1. \A p \in Person : Harvested(p) \in KeptKey
    BY HarvestedIsAnnounced
  <2>2. QED
    BY <2>1, <1>6 DEF ReadHeaders
<1>7. CASE WalkEnds
  BY <1>7 DEF WalkEnds
<1>8. CASE RestartBook
  BY <1>8 DEF RestartBook
<1>9. ASSUME NEW p \in Person, HarvestKey(p) PROVE BookTypeOK'
  <2>0. walk.keys[p] \in KeptKey
    OBVIOUS
  <2>1. book' \in [P -> Entry]
    <3>1. CASE Fills(p)
      <4>1. WithKey(p, walk.keys[p], "autocrypt") \in [P -> Entry]
        BY <1>0, <1>a, <2>0, <3>1, KeySet DEF Fills
      <4>2. QED
        BY <1>0, <4>1, <1>9 DEF HarvestKey
    <3>2. CASE ~ Fills(p)
      BY <1>0, <3>2, <1>9 DEF HarvestKey
    <3>3. QED
      BY <3>1, <3>2
  <2>2. QED
    BY <2>1, <1>9 DEF HarvestKey
<1>10. ASSUME NEW p \in Person, SaveContact(p) PROVE BookTypeOK'
  <2>0. NewEntry \in Entry /\ \A q \in P : [book[q] EXCEPT !.removed = FALSE] \in Entry
    BY <1>0, NewIsEntry, KeptIsEntry
  <2>1. book' \in [P \union {p} -> Entry] /\ P \union {p} \in SUBSET Person
    BY <1>0, <1>a, <1>10, <2>0 DEF SaveContact
  <2>2. QED
    BY <2>1, <1>10 DEF SaveContact
<1>11. ASSUME NEW p \in Person, RemoveContact(p) PROVE BookTypeOK'
  <2>1. book' \in [P -> Entry]
    BY <1>0, <1>11 DEF RemoveContact, Buried, Entry
  <2>2. QED
    BY <2>1, <1>11 DEF RemoveContact
<1>12. ASSUME NEW p \in Person, RestoreContact(p) PROVE BookTypeOK'
  <2>1. book' \in [P -> Entry]
    BY <1>0, <1>12 DEF RestoreContact, Entry
  <2>2. QED
    BY <2>1, <1>12 DEF RestoreContact
<1>13. ASSUME NEW p \in Person, WriteTo(p) PROVE BookTypeOK'
  BY <1>13 DEF WriteTo
<1>14. ASSUME NEW p \in Person, NEW k \in KeptKey, SaveKey(p, k) PROVE BookTypeOK'
  <2>1. book' \in [P -> Entry]
    BY <1>0, <1>a, <1>14, KeySet DEF SaveKey, KeptKey
  <2>2. QED
    BY <2>1, <1>14 DEF SaveKey
<1>15. ASSUME NEW h \in Header, Arrive(h) PROVE BookTypeOK'
  <2>1. inbox' \in Seq(Header) /\ Len(inbox') <= MaxMail
    BY <1>15, InboxGrows
  <2>2. QED
    BY <2>1, <1>15 DEF Arrive
<1>16. CASE UNCHANGED bookVars
  BY <1>16 DEF bookVars
<1>17. QED
  BY <1>1, <1>2, <1>3, <1>4, <1>5, <1>6, <1>7, <1>8, <1>9, <1>10, <1>11, <1>12, <1>13,
     <1>14, <1>15, <1>16 DEF BookNext

\* Nobody but the owner clears a tombstone, and the walk's WHERE passes over
\* what was set by hand.
LEMMA RowsStayStep == BookTypeOK /\ RowsStay /\ [BookNext]_bookVars => RowsStay'
<1> SUFFICES ASSUME BookTypeOK, RowsStay, [BookNext]_bookVars PROVE RowsStay'
  OBVIOUS
<1>0. PICK P \in SUBSET Person : book \in [P -> Entry]
  BY DEF BookTypeOK
<1>a. byHand \in [Person -> KeptKey \union {""}] /\ gone \subseteq Person
  BY DEF BookTypeOK
<1> USE <1>0, <1>a DEF RowsStay, RemovedStays, Listed
<1>1. ASSUME UNCHANGED <<book, gone, byHand>> PROVE RowsStay'
  BY <1>1
<1>2. CASE Visit \/ WalkFails \/ ListSent \/ ReadSent \/ ReadHeaders \/ WalkEnds \/ RestartBook
  BY <1>1, <1>2 DEF Visit, WalkFails, ListSent, ReadSent, ReadHeaders, WalkEnds, RestartBook
<1>5. CASE Learn
  BY <1>5 DEF Learn, InsertedOnly
<1>9. ASSUME NEW p \in Person, HarvestKey(p) PROVE RowsStay'
  <2>1. CASE book' = book
    BY <1>1, <1>9, <2>1 DEF HarvestKey
  <2>2. CASE book' = WithKey(p, walk.keys[p], "autocrypt") /\ Fills(p)
    <3>1. p \in P /\ book[p].from # "manual" /\ walk.keys[p] \in KeptKey
      BY <2>2 DEF Fills, BookTypeOK, Walk
    <3>2. /\ DOMAIN book' = P /\ \A q \in P : q # p => book'[q] = book[q]
          /\ book'[p].removed = book[p].removed
      <4>1. p \in Listed
        BY <3>1
      <4>2. QED
        BY <2>2, <3>1, <4>1, KeyWritten
    <3>3. QED
      BY <1>9, <3>1, <3>2 DEF HarvestKey
  <2>3. QED
    BY <1>9, <2>1, <2>2 DEF HarvestKey
<1>10. ASSUME NEW p \in Person, SaveContact(p) PROVE RowsStay'
  BY <1>10 DEF SaveContact, Entry
<1>11. ASSUME NEW p \in Person, RemoveContact(p) PROVE RowsStay'
  BY <1>11 DEF RemoveContact, Buried, Entry
<1>12. ASSUME NEW p \in Person, RestoreContact(p) PROVE RowsStay'
  BY <1>12 DEF RestoreContact, Entry
<1>13. ASSUME NEW p \in Person, WriteTo(p) PROVE RowsStay'
  BY <1>1, <1>13 DEF WriteTo
<1>14. ASSUME NEW p \in Person, NEW k \in KeptKey, SaveKey(p, k) PROVE RowsStay'
  <2>1. /\ p \in P /\ DOMAIN book' = P
        /\ \A q \in P : q # p => book'[q] = book[q]
        /\ book'[p].removed = book[p].removed
        /\ book'[p].key = k /\ book'[p].from = "manual"
    <3>1. p \in Listed /\ book' = WithKey(p, k, "manual")
      BY <1>14 DEF SaveKey
    <3>2. QED
      BY <3>1, KeyWritten
  <2>2. QED
    BY <1>14, <2>1 DEF SaveKey
<1>15. ASSUME NEW h \in Header, Arrive(h) PROVE RowsStay'
  BY <1>1, <1>15 DEF Arrive
<1>16. CASE UNCHANGED bookVars
  BY <1>1, <1>16 DEF bookVars
<1>17. QED
  BY <1>2, <1>5, <1>9, <1>10, <1>11, <1>12, <1>13, <1>14, <1>15, <1>16 DEF BookNext

\* The inbox only grows.
LEMMA StillAnnounced ==
    ASSUME BookTypeOK, [BookNext]_bookVars, NEW p, NEW k, Announced(inbox, p, k)
    PROVE  Announced(inbox', p, k)
<1>1. PICK i \in DOMAIN inbox : inbox[i] \in {From(f, p, k) : f \in {p, NoSender}}
  BY DEF Announced
<1>2. i \in DOMAIN inbox' /\ inbox'[i] = inbox[i]
  <2>1. inbox \in Seq(Header)
    BY DEF BookTypeOK
  <2>2. CASE \E h \in Header : Arrive(h)
    BY <2>1, <2>2 DEF Arrive
  <2>3. CASE UNCHANGED inbox
    BY <2>3
  <2>4. QED
    BY <2>2, <2>3 DEF BookNext, Visit, WalkFails, ListSent, ReadSent, Learn, ReadHeaders,
       WalkEnds, RestartBook, HarvestKey, SaveContact, RemoveContact, RestoreContact,
       WriteTo, SaveKey, bookVars
<1>3. QED
  BY <1>1, <1>2 DEF Announced

LEMMA WalkCarriesStep ==
    BookTypeOK /\ WalkCarriesTheirs /\ [BookNext]_bookVars => WalkCarriesTheirs'
<1> SUFFICES ASSUME BookTypeOK, WalkCarriesTheirs, [BookNext]_bookVars,
                    NEW p \in Person, walk'.keys[p] # NoneKept
             PROVE  Announced(inbox', p, walk'.keys[p])
  BY DEF WalkCarriesTheirs
<1>1. CASE walk.keys[p] = walk'.keys[p]
  BY <1>1, StillAnnounced DEF WalkCarriesTheirs
<1>2. CASE ReadHeaders
  <2>1. walk'.keys[p] = Harvested(p)
    BY <1>2 DEF ReadHeaders, BookTypeOK, Walk
  <2>2. QED
    BY <2>1, HarvestedIsAnnounced, StillAnnounced
<1>3. CASE Visit \/ WalkFails \/ WalkEnds \/ RestartBook
  BY <1>3 DEF Visit, WalkFails, WalkEnds, RestartBook, NoWalk, NoKeys
<1>4. ASSUME NEW q \in Person, HarvestKey(q) PROVE Announced(inbox', p, walk'.keys[p])
  BY <1>1, <1>4 DEF HarvestKey, BookTypeOK, Walk
<1>5. CASE ListSent \/ ReadSent \/ Learn
  BY <1>1, <1>5 DEF ListSent, ReadSent, Learn, BookTypeOK, Walk
<1>6. QED
  BY <1>1, <1>2, <1>3, <1>4, <1>5 DEF BookNext, SaveContact, RemoveContact, RestoreContact,
     WriteTo, SaveKey, Arrive, bookVars

LEMMA KeysAnnouncedStep ==
    BookTypeOK /\ RowsStay /\ WalkCarriesTheirs /\ KeysAnnounced /\ [BookNext]_bookVars
        => KeysAnnounced'
<1> SUFFICES ASSUME BookTypeOK, RowsStay, WalkCarriesTheirs, KeysAnnounced, [BookNext]_bookVars,
                    NEW p \in Listed', book'[p].key # NoneKept, byHand'[p] = ""
             PROVE  Announced(inbox', p, book'[p].key)
  BY DEF KeysAnnounced
<1>0. PICK P \in SUBSET Person : book \in [P -> Entry]
  BY DEF BookTypeOK
<1>a. byHand \in [Person -> KeptKey \union {""}]
  BY DEF BookTypeOK
<1>1. CASE p \in Listed /\ book[p].key = book'[p].key /\ byHand[p] = byHand'[p]
  BY <1>1, StillAnnounced DEF KeysAnnounced
<1> USE <1>0, <1>a, NoneKeptAssumption DEF Listed, Entry, NewEntry
<1>2. CASE Learn
  BY <1>1, <1>2 DEF Learn, InsertedOnly
<1>3. ASSUME NEW q \in Person, HarvestKey(q) PROVE Announced(inbox', p, book'[p].key)
  <2>1. CASE book' = book
    BY <1>1, <1>3, <2>1 DEF HarvestKey
  <2>2. CASE book' = WithKey(q, walk.keys[q], "autocrypt") /\ Fills(q)
    <3>1. q \in P /\ walk.keys[q] \in KeptKey
      BY <2>2 DEF Fills, BookTypeOK, Walk
    <3>2. /\ DOMAIN book' = P /\ \A r \in P : r # q => book'[r] = book[r]
          /\ book'[q].key = walk.keys[q]
      <4>1. q \in Listed
        BY <3>1
      <4>2. QED
        BY <2>2, <3>1, <4>1, KeyWritten
    <3>3. CASE p # q
      BY <1>1, <1>3, <3>2, <3>3 DEF HarvestKey
    <3>4. CASE p = q
      BY <1>3, <3>2, <3>4, StillAnnounced DEF WalkCarriesTheirs, HarvestKey
    <3>5. QED
      BY <3>3, <3>4
  <2>3. QED
    BY <1>3, <2>1, <2>2 DEF HarvestKey
<1>4. ASSUME NEW q \in Person, SaveContact(q) PROVE Announced(inbox', p, book'[p].key)
  BY <1>1, <1>4 DEF SaveContact
<1>5. ASSUME NEW q \in Person, RemoveContact(q) PROVE Announced(inbox', p, book'[p].key)
  BY <1>1, <1>5 DEF RemoveContact, Buried
<1>6. ASSUME NEW q \in Person, RestoreContact(q) PROVE Announced(inbox', p, book'[p].key)
  BY <1>1, <1>6 DEF RestoreContact
<1>7. ASSUME NEW q \in Person, NEW k \in KeptKey, SaveKey(q, k)
      PROVE  Announced(inbox', p, book'[p].key)
  <2>1. q \in P /\ DOMAIN book' = P /\ \A r \in P : r # q => book'[r] = book[r]
    <3>1. q \in Listed /\ book' = WithKey(q, k, "manual")
      BY <1>7 DEF SaveKey
    <3>2. QED
      BY <1>0, <3>1, KeyWritten
  <2>2. p # q
    <3>1. byHand'[q] = k /\ k # ""
      BY <1>7 DEF SaveKey, KeptKey
    <3>2. QED
      BY <3>1
  <2>3. QED
    BY <1>1, <1>7, <2>1, <2>2 DEF SaveKey
<1>8. QED
  BY <1>1, <1>2, <1>3, <1>4, <1>5, <1>6, <1>7 DEF BookNext, Visit, WalkFails, ListSent,
     ReadSent, ReadHeaders, WalkEnds, RestartBook, WriteTo, Arrive, bookVars

\* The invariant holds in every state of every behaviour.
THEOREM BookInvariant == BookSpec => []BookIInv
<1>1. BookIInv /\ [BookNext]_bookVars => BookIInv'
  BY BookTypeStep, RowsStayStep, WalkCarriesStep, KeysAnnouncedStep DEF BookIInv
<1> QED
  BY <1>1, BookInitIInv, PTL DEF BookSpec

\* However the walk and the owner interleave and whatever of the walk fails, a
\* contact removed stays removed, a key set by hand stands, and every other key
\* was announced in a message from its own address or in one without a From
\* (contacts.go:28, mail.go:1066).
THEOREM BookTheorem == BookSpec => []BookIsOwners
<1>1. BookIInv => BookIsOwners
  BY DEF BookIInv, RowsStay, KeysAnnounced, Announced, BookIsOwners, HandKeyStands,
         KeysAreAnnounced, BookTypeOK, Listed
<1> QED
  BY <1>1, BookInvariant, PTL

-----------------------------------------------------------------------------
(* OpenPGP: where the private half of every pair is.                        *)

\* A letter has the keys it will need, of pairs there have been.
LetterStands ==
    /\ letter.encrypt /\ letter.pc \in {"own", "deliver"} => letter.readers = letter.to
    /\ letter.encrypt /\ letter.pc = "deliver" => letter.mine # 0
    /\ posted.sealed => posted.readers = posted.to /\ posted.mine # 0
    /\ letter.mine <= pairs /\ posted.mine <= pairs

\* No key is of a pair still to come, and the private key is written last.
InOrder(s, n) ==
    /\ ~ s.busy => s.todo = << >> /\ s.give = 0
    /\ \A k \in 1 .. Len(s.todo) :
          /\ s.todo[k].of = "public" => s.todo[k].val <= n
          /\ s.todo[k].of = "private" => k = Len(s.todo)

Requests == [busy : BOOLEAN, todo : Seq(PrefRow), give : Pairs]

PairsKnown ==
    /\ press \in [Windows -> Requests]
    /\ own.public <= pairs
    /\ \A w \in Windows : InOrder(press[w], pairs)

AllLost == 1 .. MaxPair \subseteq letGo

Spare(n, forgot) == n = 0 \/ n \in forgot

\* The rows that tell what becomes of a private key.
Moves(r) == r.of = "inBrowser" /\ r.val = TRUE
MovesBack(r) == r.of = "inBrowser" /\ r.val = FALSE
Stores(r) == r.of = "private" /\ r.val # 0

\* What a request will write over can be spared: a private key it replaces or
\* moves to the browser, and the browser's own copy it replaces or moves back.
WritesSpare(s, o, copy, forgot) ==
    /\ \A r \in Range(s.todo) : r.of = "private" \/ Moves(r) => Spare(o.private, forgot)
    /\ \A r \in Range(s.todo) : MovesBack(r) => Spare(copy, forgot) /\ s.give = 0
    /\ \A r \in Range(s.todo) : Stores(r) =>
          /\ \A q \in Range(s.todo) : ~ Moves(q)
          /\ o.inBrowser => \E q \in Range(s.todo) : MovesBack(q)
    /\ s.give # 0 => /\ Spare(copy, forgot)
                     /\ o.inBrowser \/ \E q \in Range(s.todo) : Moves(q)

\* One request at a time, one place for a private key, and in the browser none
\* to lose where there is no public half.
OneKeeps ==
    /\ \A v, w \in Windows : press[v].busy /\ press[w].busy => v = w
    /\ own.inBrowser => Spare(own.private, Excused)
    /\ own.inBrowser => own.public # 0 \/ Spare(kept, Excused)
    /\ ~ own.inBrowser => Spare(kept, Excused)
    /\ \A w \in Windows : WritesSpare(press[w], own, kept, Excused)

PgpIInv ==
    /\ PgpTypeOK /\ LetterStands /\ PairsKnown /\ NothingLostUnasked
    /\ AllLost \/ OneKeeps

-----------------------------------------------------------------------------

\* The rows a sequence of rows is, once its first is taken.
LEMMA TailRows ==
    ASSUME NEW t \in Seq(PrefRow), t # << >>
    PROVE  /\ Head(t) \in PrefRow /\ Tail(t) \in Seq(PrefRow)
           /\ Len(Tail(t)) = Len(t) - 1 /\ Len(t) \in Nat \ {0}
           /\ Range(t) = {Head(t)} \union Range(Tail(t))
           /\ \A k \in 1 .. Len(Tail(t)) : Tail(t)[k] = t[k + 1] /\ k + 1 \in 1 .. Len(t)
<1>1. /\ Head(t) \in PrefRow /\ Tail(t) \in Seq(PrefRow)
      /\ Len(Tail(t)) = Len(t) - 1 /\ Len(t) \in Nat \ {0}
  OBVIOUS
<1>2. \A k \in 1 .. Len(Tail(t)) : Tail(t)[k] = t[k + 1] /\ k + 1 \in 1 .. Len(t)
  BY <1>1
<1>3. Head(t) = t[1] /\ 1 \in 1 .. Len(t)
  BY <1>1
<1>4. \A k \in 1 .. Len(t) : k = 1 \/ (k - 1 \in 1 .. Len(Tail(t)) /\ t[k] = Tail(t)[k - 1])
  BY <1>1, <1>2
<1>5. DOMAIN t = 1 .. Len(t) /\ DOMAIN Tail(t) = 1 .. Len(Tail(t))
  BY <1>1
<1>6. Range(t) \subseteq {Head(t)} \union Range(Tail(t))
  BY <1>3, <1>4, <1>5 DEF Range
<1>7. {Head(t)} \union Range(Tail(t)) \subseteq Range(t)
  BY <1>2, <1>3, <1>5 DEF Range
<1>8. QED
  BY <1>1, <1>2, <1>6, <1>7

LEMMA NoRows == << >> \in Seq(PrefRow) /\ Range(<< >>) = {} /\ Len(<< >>) = 0
  BY DEF Range

\* What the rows a request writes are about.
LEMMA RowIsOf ==
    /\ \A r \in PrefRow : r.of \in {"enabled", "inBrowser", "public", "private"}
    /\ \A r \in PrefRow : r.of \in {"enabled", "inBrowser"} => r.val \in BOOLEAN
    /\ \A r \in PrefRow : r.of \in {"public", "private"} => r.val \in Pairs
  BY DEF PrefRow

LEMMA SwitchRow ==
    ASSUME NEW on \in BOOLEAN
    PROVE  [of |-> "enabled", val |-> on] \in PrefRow
  BY DEF PrefRow

LEMMA PlaceRow ==
    ASSUME NEW on \in BOOLEAN
    PROVE  [of |-> "inBrowser", val |-> on] \in PrefRow
  BY DEF PrefRow

LEMMA KeyRow ==
    ASSUME NEW n \in Pairs
    PROVE  [of |-> "public", val |-> n] \in PrefRow /\ [of |-> "private", val |-> n] \in PrefRow
  BY DEF PrefRow

LEMMA AtRestIsRequest == AtRest \in Requests /\ InOrder(AtRest, pairs)
<1>1. 0 \in Pairs
  BY MaxPairAssumption DEF Pairs
<1>2. QED
  BY <1>1, NoRows DEF AtRest, Requests, InOrder

LEMMA PgpInitIInv == PgpInit => PgpIInv
<1> SUFFICES ASSUME PgpInit PROVE PgpIInv
  OBVIOUS
<1>0. 0 \in Pairs
  BY MaxPairAssumption DEF Pairs
<1>1. own \in Own /\ kept \in Pairs /\ pairs \in Pairs
  BY <1>0 DEF PgpInit, Own
<1>2. letter \in Letter /\ posted \in Posted
  BY <1>0 DEF PgpInit, Letter, NoLetter, Posted, NothingPosted
<1>3. press \in [Windows -> Requests] /\ \A w \in Windows : press[w] = AtRest
  BY AtRestIsRequest DEF PgpInit
<1>4. \A w \in Windows : press[w].todo = << >> /\ press[w].give = 0 /\ press[w].busy = FALSE
  BY <1>3 DEF AtRest
<1>5. PgpTypeOK
  <2>1. /\ DOMAIN press = Windows /\ onFile \subseteq Correspondent
        /\ letGo \subseteq Pairs /\ bare \subseteq Pairs
    BY DEF PgpInit
  <2>2. \A w \in Windows : press[w].busy \in BOOLEAN /\ press[w].give \in Pairs
    BY <1>3 DEF Requests
  <2>3. \A w \in Windows : Len(press[w].todo) = 0 /\ 1 .. Len(press[w].todo) = {}
    BY <1>4, NoRows
  <2>4. QED
    BY <1>1, <1>2, <2>1, <2>2, <2>3 DEF PgpTypeOK
<1>6. LetterStands
  BY DEF LetterStands, PgpInit, NoLetter, NothingPosted
<1>7. PairsKnown
  BY <1>3, AtRestIsRequest DEF PairsKnown, PgpInit
<1>8. NothingLostUnasked
  <2>1. pairs = 0
    BY DEF PgpInit
  <2>2. 1 .. pairs = {}
    BY <2>1
  <2>3. QED
    BY <2>2 DEF NothingLostUnasked
<1>9. OneKeeps
  <2>1. own.private = 0 /\ kept = 0 /\ own.inBrowser = FALSE
    BY DEF PgpInit
  <2>2. \A w \in Windows : WritesSpare(press[w], own, kept, Excused)
    BY <1>4, NoRows DEF WritesSpare
  <2>3. QED
    BY <1>4, <2>1, <2>2 DEF OneKeeps, Spare
<1>10. QED
  BY <1>5, <1>6, <1>7, <1>8, <1>9 DEF PgpIInv

-----------------------------------------------------------------------------

\* The rows of a press of the button, and of the settings form.
LEMMA TwoRows ==
    ASSUME NEW a \in PrefRow, NEW b \in PrefRow
    PROVE  /\ <<a, b>> \in Seq(PrefRow) /\ Len(<<a, b>>) = 2
           /\ Range(<<a, b>>) = {a, b}
           /\ <<a, b>>[1] = a /\ <<a, b>>[2] = b
<1>1. /\ <<a, b>> \in Seq(PrefRow) /\ Len(<<a, b>>) = 2 /\ DOMAIN <<a, b>> = {1, 2}
      /\ <<a, b>>[1] = a /\ <<a, b>>[2] = b
  OBVIOUS
<1>2. QED
  BY <1>1 DEF Range

LEMMA ThreeRows ==
    ASSUME NEW a \in PrefRow, NEW b \in PrefRow, NEW c \in PrefRow,
           NEW s, s = <<a, b, c>> \o << >>
    PROVE  /\ s \in Seq(PrefRow) /\ Len(s) = 3 /\ Range(s) = {a, b, c}
           /\ s[1] = a /\ s[2] = b /\ s[3] = c
<1>1. /\ s \in Seq(PrefRow) /\ Len(s) = 3 /\ DOMAIN s = {1, 2, 3}
      /\ s[1] = a /\ s[2] = b /\ s[3] = c
  OBVIOUS
<1>2. QED
  BY <1>1 DEF Range

FourIn(s, a, b, c, d) ==
    /\ s \in Seq(PrefRow) /\ Len(s) = 4 /\ Range(s) = {a, b, c, d}
    /\ s[1] = a /\ s[2] = b /\ s[3] = c /\ s[4] = d

LEMMA FourRows ==
    ASSUME NEW a \in PrefRow, NEW b \in PrefRow, NEW c \in PrefRow, NEW d \in PrefRow,
           NEW s, s = <<a, b, c>> \o <<d>>
    PROVE  FourIn(s, a, b, c, d)
<1>1. /\ s \in Seq(PrefRow) /\ Len(s) = 4 /\ DOMAIN s = {1, 2, 3, 4}
      /\ s[1] = a /\ s[2] = b /\ s[3] = c /\ s[4] = d
  OBVIOUS
<1>2. QED
  BY <1>1 DEF Range, FourIn

\* A request that starts beside another puts every pair at risk; one that is
\* alone and spares what it writes over leaves the rest as they were.
LEMMA RequestStarts ==
    ASSUME PgpIInv, NEW w \in Windows, ~ press[w].busy, NEW s \in Requests,
           press' = [press EXCEPT ![w] = s],
           own' = own, pairs' \in Pairs, pairs <= pairs', InOrder(s, pairs'),
           letGo \union AtRisk(w) \subseteq letGo', bare' = bare, kept' \in {kept, 0},
           AllLost \/ (WritesSpare(s, own', kept', Excused') /\ (own.inBrowser \/ Spare(kept', Excused')))
    PROVE  PairsKnown' /\ (AllLost' \/ OneKeeps')
<1>0. press \in [Windows -> Requests] /\ own \in Own /\ pairs \in Pairs
  BY DEF PgpIInv, PgpTypeOK, PairsKnown
<1>1. \A v \in Windows : press'[v] = IF v = w THEN s ELSE press[v]
  BY <1>0
<1>2. PairsKnown'
  <2>1. \A v \in Windows : InOrder(press[v], pairs)
    BY DEF PgpIInv, PairsKnown
  <2>2. press' \in [Windows -> Requests]
    BY <1>0
  <2>3. ASSUME NEW v \in Windows PROVE InOrder(press'[v], pairs')
    <3>1. CASE v = w
      BY <1>1, <3>1
    <3>2. CASE v # w
      <4>1. \A k \in 1 .. Len(press[v].todo) : press[v].todo[k] \in PrefRow
        BY <1>0 DEF Requests
      <4>2. \A n \in Pairs : n <= pairs => n <= pairs'
        BY <1>0 DEF Pairs
      <4>3. InOrder(press[v], pairs')
        BY <2>1, <4>1, <4>2, RowIsOf DEF InOrder
      <4>4. QED
        BY <1>1, <3>2, <4>3
    <3>3. QED
      BY <3>1, <3>2
  <2>4. own'.public <= pairs'
    <3>1. own.public \in Pairs /\ own.public <= pairs
      BY <1>0 DEF PgpIInv, PairsKnown, Own
    <3>2. QED
      BY <1>0, <3>1 DEF Pairs
  <2>5. QED
    BY <2>2, <2>3, <2>4 DEF PairsKnown
<1>3. CASE AllLost
  BY <1>2, <1>3 DEF AllLost
<1>4. CASE ~ Alone(w)
  BY <1>2, <1>4 DEF AllLost, AtRisk
<1>5. CASE Alone(w) /\ ~ AllLost
  <2>1. OneKeeps
    BY <1>5 DEF PgpIInv
  <2>2. \A v \in Windows \ {w} : ~ press[v].busy /\ press[v].todo = << >> /\ press[v].give = 0
    BY <1>5 DEF Alone, PgpIInv, PairsKnown, InOrder
  <2>3. \A v, u \in Windows : press'[v].busy /\ press'[u].busy => v = u
    BY <1>1, <2>2
  <2>4. /\ own'.inBrowser => Spare(own'.private, Excused')
        /\ own'.inBrowser => own'.public # 0 \/ Spare(kept', Excused')
    <3>1. Excused \subseteq Excused'
      BY DEF Excused
    <3>2. QED
      BY <2>1, <3>1 DEF OneKeeps, Spare
  <2>5. ~ own'.inBrowser => Spare(kept', Excused')
    BY <1>5
  <2>6. ASSUME NEW v \in Windows PROVE WritesSpare(press'[v], own', kept', Excused')
    <3>1. CASE v = w
      <4>1. press'[v] = s /\ WritesSpare(s, own', kept', Excused')
        BY <1>1, <1>5, <3>1
      <4>2. QED
        BY <4>1 DEF WritesSpare
    <3>2. CASE v # w
      <4>1. press'[v].todo = << >> /\ press'[v].give = 0
        BY <1>1, <2>2, <3>2
      <4>2. QED
        BY <4>1, NoRows DEF WritesSpare
    <3>3. QED
      BY <3>1, <3>2
  <2>7. QED
    BY <1>2, <2>3, <2>4, <2>5, <2>6 DEF OneKeeps
<1>6. QED
  BY <1>2, <1>3, <1>4, <1>5


\* The button: a pair is made, and its rows are due, the private key last.
LEMMA GenerateStep ==
    ASSUME PgpIInv, NEW w \in Windows, Generate(w)
    PROVE  PgpTypeOK' /\ PairsKnown' /\ (AllLost' \/ OneKeeps') /\ NothingLostUnasked'
<1> DEFINE n == pairs + 1
           v == IF own.inBrowser THEN 0 ELSE n
           g == IF own.inBrowser THEN n ELSE 0
           a == [of |-> "public", val |-> n]
           b == [of |-> "private", val |-> v]
           s == [busy |-> TRUE, todo |-> <<a, b>>, give |-> g]
<1>1. /\ pairs \in Nat /\ pairs \in Pairs /\ n \in Pairs /\ 0 \in Pairs /\ n # 0 /\ pairs <= n
      /\ pairs < MaxPair /\ own \in Own /\ press \in [Windows -> Requests]
      /\ letGo \subseteq Pairs /\ kept \in Pairs
  BY MaxPairAssumption DEF PgpIInv, PgpTypeOK, PairsKnown, Pairs, Generate
<1>2. v \in Pairs /\ g \in Pairs
  BY <1>1
<1>3. /\ a \in PrefRow /\ a.of = "public" /\ a.val = n
      /\ b \in PrefRow /\ b.of = "private" /\ b.val = v
  BY <1>1, <1>2, KeyRow
<1> HIDE DEF a, b
<1>4. /\ <<a, b>> \in Seq(PrefRow) /\ Len(<<a, b>>) = 2 /\ Range(<<a, b>>) = {a, b}
      /\ <<a, b>>[1] = a /\ <<a, b>>[2] = b
  BY <1>3, TwoRows
<1>5. s.busy = TRUE /\ s.todo = <<a, b>> /\ s.give = g /\ s \in Requests
  BY <1>2, <1>4 DEF Requests
<1>6. /\ ~ press[w].busy /\ NoKeyYet /\ pairs' = n /\ press' = [press EXCEPT ![w] = s]
      /\ UNCHANGED <<own, kept, onFile, letter, posted, bare>>
      /\ letGo' = letGo \union AtRisk(w)
  BY DEF Generate, a, b
<1> HIDE DEF s
<1>7. InOrder(s, pairs')
  <2>0. Len(s.todo) = 2 /\ s.todo[1] = a /\ s.todo[2] = b
    BY <1>4, <1>5
  <2>1. \A k \in 1 .. Len(s.todo) :
           (k = 1 /\ s.todo[k] = a) \/ (k = Len(s.todo) /\ s.todo[k] = b)
    BY <2>0
  <2>2. n <= pairs'
    BY <1>1, <1>6
  <2>3. QED
    BY <1>3, <1>5, <2>1, <2>2 DEF InOrder
<1>u. Excused \subseteq Excused'
  BY <1>6 DEF Excused
<1>8. AllLost \/ (own.inBrowser => Spare(kept', Excused'))
  <2>1. own.public = 0
    BY <1>6 DEF NoKeyYet
  <2>2. QED
    BY <1>6, <1>u, <2>1 DEF PgpIInv, OneKeeps, Spare
<1>9. WritesSpare(s, own', kept', Excused') \/ AllLost
  <2>1. CASE OneKeeps /\ ~ AllLost
    <3>1. \A r \in Range(s.todo) : ~ Moves(r) /\ ~ MovesBack(r)
      BY <1>3, <1>4, <1>5 DEF Moves, MovesBack
    <3>2. Spare(own'.private, Excused')
      BY <1>6, <1>u, <2>1 DEF OneKeeps, NoKeyYet, Spare
    <3>3. \A r \in Range(s.todo) : Stores(r) => ~ own.inBrowser
      BY <1>3, <1>4, <1>5 DEF Stores
    <3>4. s.give # 0 => own.inBrowser /\ Spare(kept', Excused')
      BY <1>5, <1>8, <2>1
    <3>5. own' = own
      BY <1>6
    <3>6. QED
      BY <3>1, <3>2, <3>3, <3>4, <3>5 DEF WritesSpare
  <2>2. QED
    BY <2>1 DEF PgpIInv
<1>10. own.inBrowser \/ Spare(kept', Excused') \/ AllLost
  BY <1>6, <1>u DEF PgpIInv, OneKeeps, Spare
<1>11. /\ own' = own /\ pairs' \in Pairs /\ pairs <= pairs'
       /\ letGo \union AtRisk(w) \subseteq letGo' /\ bare' = bare /\ kept' \in {kept, 0}
  BY <1>1, <1>6
<1>12. PairsKnown' /\ (AllLost' \/ OneKeeps')
  BY <1>5, <1>6, <1>7, <1>9, <1>10, <1>11, RequestStarts
<1>13. PgpTypeOK'
  <2>1. /\ press' \in [Windows -> Requests]
       /\ \A u \in Windows : press'[u] = IF u = w THEN s ELSE press[u]
    BY <1>1, <1>5, <1>6
  <2>2. \A u \in Windows : Len(press'[u].todo) <= 4
    <3>1. Len(s.todo) = 2
      BY <1>4, <1>5
    <3>2. \A u \in Windows : Len(press[u].todo) <= 4
      BY DEF PgpIInv, PgpTypeOK
    <3>3. ASSUME NEW u \in Windows PROVE Len(press'[u].todo) <= 4
      <4>1. CASE u = w
        <5>1. Len(press'[u].todo) = 2
          BY <2>1, <3>1, <4>1
        <5>2. QED
          BY <5>1
      <4>2. CASE u # w
        BY <2>1, <3>2, <4>2
      <4>3. QED
        BY <4>1, <4>2
    <3>4. QED
      BY <3>3
  <2>3. AtRisk(w) \subseteq Pairs
    BY MaxPairAssumption DEF AtRisk, Pairs
  <2>4. letGo' \subseteq Pairs /\ bare' \subseteq Pairs
    BY <1>1, <1>6, <2>3 DEF PgpIInv, PgpTypeOK
  <2>5. \A u \in Windows : press'[u] \in Requests
    BY <2>1
  <2>6. own' \in Own /\ kept' \in Pairs /\ onFile' \subseteq Correspondent /\ letter' \in Letter
        /\ posted' \in Posted /\ DOMAIN press' = Windows /\ pairs' \in Pairs
    BY <1>1, <1>6, <2>1 DEF PgpIInv, PgpTypeOK
  <2>7. QED
    BY <2>2, <2>4, <2>5, <2>6 DEF PgpTypeOK, Requests
<1>14. NothingLostUnasked'
  <2>1. ASSUME NEW k \in 1 .. pairs, k \notin Excused PROVE k \in Held'
    <3>1. k \in Held /\ k # 0
      BY <1>1, <2>1 DEF PgpIInv, NothingLostUnasked
    <3>2. \A u \in Windows : press[u].busy \/ (press[u].todo = << >> /\ press[u].give = 0)
      BY DEF PgpIInv, PairsKnown, InOrder
    <3>3. press[w].give = 0 /\ Range(press[w].todo) = {}
      BY <1>6, <3>2, NoRows
    <3>4. \A u \in Windows \ {w} : press'[u] = press[u]
      BY <1>1, <1>6
    <3>5. QED
      BY <1>6, <3>1, <3>3, <3>4 DEF Held
  <2>2. n \in Held'
    <3>1. press'[w] = s
      BY <1>1, <1>6
    <3>2. CASE own.inBrowser
      <4>1. press'[w].give = n
        BY <1>5, <3>1, <3>2
      <4>2. QED
        BY <4>1 DEF Held
    <3>3. CASE ~ own.inBrowser
      <4>1. b \in Range(press'[w].todo) /\ b.of = "private" /\ b.val = n
        BY <1>3, <1>4, <1>5, <3>1, <3>3
      <4>2. QED
        BY <4>1 DEF Held
    <3>4. QED
      BY <3>2, <3>3
  <2>3. \A k \in 1 .. n : k \in 1 .. pairs \/ k = n
    BY <1>1
  <2>4. Excused \subseteq Excused' /\ pairs' = n
    BY <1>6, <1>u
  <2> HIDE DEF n
  <2>5. QED
    BY <2>1, <2>2, <2>3, <2>4 DEF NothingLostUnasked
<1>15. QED
  BY <1>12, <1>13, <1>14

\* What the settings form is about to write.
FormWrites(s, browser, pasted, clear) ==
    /\ s.busy = TRUE /\ Len(s.todo) <= 4
    /\ s.give = IF browser THEN pasted ELSE 0
    /\ \E r \in Range(s.todo) : r.of = "inBrowser"
    /\ \A r \in Range(s.todo) : r.of = "inBrowser" => r.val = browser
    /\ \A r \in Range(s.todo) :
          r.of = "private" => /\ r.val = IF browser THEN 0 ELSE pasted
                              /\ browser \/ pasted # 0 \/ clear
    /\ ~ browser /\ pasted # 0 =>
          \E r \in Range(s.todo) : r.of = "private" /\ r.val = pasted

\* The settings form, as it was asked, becomes rows in order.
LEMMA FormAsks ==
    ASSUME PgpIInv, NEW w \in Windows, NEW on \in BOOLEAN, NEW browser \in BOOLEAN,
           NEW clear \in BOOLEAN, NEW public \in Pairs, NEW pasted \in Pairs,
           SavePGP(w, on, browser, clear, public, pasted)
    PROVE  \E s \in Requests :
              /\ press' = [press EXCEPT ![w] = s]
              /\ InOrder(s, pairs') /\ FormWrites(s, browser, pasted, clear)
<1> DEFINE v == IF browser THEN 0 ELSE pasted
           a == [of |-> "enabled", val |-> on]
           b == [of |-> "public", val |-> public]
           c == [of |-> "inBrowser", val |-> browser]
           d == [of |-> "private", val |-> v]
           some == browser \/ pasted # 0 \/ clear
           s == [busy |-> TRUE, 
                 todo |-> <<a, b, c>> \o IF some THEN <<d>> ELSE << >>,
                 give |-> IF browser THEN pasted ELSE 0]
<1>1. pairs \in Nat /\ 0 \in Pairs /\ v \in Pairs /\ own.public \in Pairs /\ own.public <= pairs
  BY MaxPairAssumption DEF PgpIInv, PgpTypeOK, PairsKnown, Pairs, Own
<1>2. /\ a \in PrefRow /\ a.of = "enabled" /\ a.val = on
      /\ b \in PrefRow /\ b.of = "public" /\ b.val = public
      /\ d \in PrefRow /\ d.of = "private" /\ d.val = v
  BY <1>1, SwitchRow, KeyRow
<1>3. c \in PrefRow /\ c.of = "inBrowser" /\ c.val = browser
  BY PlaceRow
<1>4. PrivateRow(browser, pasted, clear) = IF some THEN <<d>> ELSE << >>
  BY DEF PrivateRow
<1>5. press' = [press EXCEPT ![w] = s]
  BY <1>4 DEF SavePGP
<1>6. public <= pairs'
  <2>1. public \in {0, own.public, pairs + 1} /\ pairs' \in {pairs, pairs + 1}
        /\ (public = pairs + 1 => pairs' = pairs + 1)
    BY DEF SavePGP
  <2>2. QED
    BY <1>1, <2>1 DEF Pairs
<1> HIDE DEF a, b, c, d, v
<1>7. /\ Len(s.todo) <= 4 /\ s.todo \in Seq(PrefRow)
      /\ Range(s.todo) = IF some THEN {a, b, c, d} ELSE {a, b, c}
      /\ s.todo[1] = a /\ s.todo[2] = b /\ s.todo[3] = c
      /\ IF some THEN Len(s.todo) = 4 /\ s.todo[4] = d ELSE Len(s.todo) = 3
  <2>0. s.todo = <<a, b, c>> \o IF some THEN <<d>> ELSE << >>
    OBVIOUS
  <2> HIDE DEF s, some
  <2>1. CASE some
    <3>1. s.todo = <<a, b, c>> \o <<d>>
      BY <2>0, <2>1
    <3>2. FourIn(s.todo, a, b, c, d)
      BY <1>2, <1>3, <3>1, FourRows
    <3>3. QED
      BY <2>1, <3>2 DEF FourIn
  <2>2. CASE ~ some
    BY <1>2, <1>3, <2>2, <2>0, ThreeRows
  <2>3. QED
    BY <2>1, <2>2
<1>8. s.busy = TRUE /\ s.give = IF browser THEN pasted ELSE 0
  OBVIOUS
<1>9. s \in Requests
  BY <1>1, <1>7 DEF Requests
<1> HIDE DEF s, some
<1>10. InOrder(s, pairs')
  <2>1. \A k \in 1 .. Len(s.todo) : \/ s.todo[k] = a \/ s.todo[k] = b \/ s.todo[k] = c
                                    \/ (s.todo[k] = d /\ k = Len(s.todo))
    BY <1>7
  <2>2. QED
    BY <1>2, <1>3, <1>6, <1>8, <2>1 DEF InOrder
<1>11. (\E r \in Range(s.todo) : r.of = "inBrowser") 
       /\ \A r \in Range(s.todo) : r.of = "inBrowser" => r.val = browser
  BY <1>2, <1>3, <1>7
<1>12. \A r \in Range(s.todo) : r.of = "private" => r.val = v /\ some
  BY <1>2, <1>3, <1>7
<1>13. some => \E r \in Range(s.todo) : r.of = "private" /\ r.val = v
  BY <1>2, <1>7
<1>14. QED
  BY <1>5, <1>7, <1>8, <1>9, <1>10, <1>11, <1>12, <1>13 DEF some, v, FormWrites

\* The form risks no key it does not give up.
LEMMA SavePGPStep ==
    ASSUME PgpIInv, NEW w \in Windows, NEW on \in BOOLEAN, NEW browser \in BOOLEAN,
           NEW clear \in BOOLEAN, NEW public \in Pairs, NEW pasted \in Pairs,
           SavePGP(w, on, browser, clear, public, pasted)
    PROVE  PgpTypeOK' /\ PairsKnown' /\ (AllLost' \/ OneKeeps') /\ NothingLostUnasked'
<1>1. /\ pairs \in Nat /\ pairs \in Pairs /\ 0 \in Pairs /\ own.public <= pairs
      /\ own \in Own /\ own.public \in Pairs /\ press \in [Windows -> Requests]
      /\ letGo \subseteq Pairs /\ kept \in Pairs /\ own.private \in Pairs
  BY MaxPairAssumption DEF PgpIInv, PgpTypeOK, PairsKnown, Pairs, Own
<1>2. PICK s \in Requests :
              /\ press' = [press EXCEPT ![w] = s]
              /\ InOrder(s, pairs') /\ FormWrites(s, browser, pasted, clear)
  BY FormAsks
<1>w. FormWrites(s, browser, pasted, clear)
  BY <1>2
<1>3. /\ ~ press[w].busy /\ UNCHANGED <<own, onFile, letter, posted, bare>>
      /\ public \in {0, own.public, pairs + 1} /\ pasted \in {0, pairs + 1}
      /\ pairs' = IF pairs + 1 \in {public, pasted} THEN pairs + 1 ELSE pairs
      /\ kept' = IF browser THEN kept ELSE 0
  BY DEF SavePGP
<1>4. letGo' = letGo \union AtRisk(w)
         \union (IF clear \/ pasted # 0 \/ browser # own.inBrowser
                 THEN {own.private, kept} ELSE {})
         \union (IF public # pasted THEN {public} \ {own.public} ELSE {})
  BY DEF SavePGP
<1>5. /\ letGo \union AtRisk(w) \subseteq letGo' /\ bare' = bare /\ kept' \in {kept, 0}
      /\ Excused \subseteq Excused'
  BY <1>3, <1>4 DEF Excused
<1>6. clear \/ pasted # 0 \/ browser # own.inBrowser
         => own.private \in Excused' /\ kept \in Excused'
  BY <1>4 DEF Excused
<1>7. pairs' \in Pairs /\ pairs <= pairs'
  BY <1>1, <1>3 DEF Pairs
<1>8. AllLost \/ (own.inBrowser => Spare(own.private, Excused'))
  BY <1>5 DEF PgpIInv, OneKeeps, Spare
<1>9. AllLost \/ own.inBrowser \/ Spare(kept, Excused')
  BY <1>5 DEF PgpIInv, OneKeeps, Spare
<1>10. AllLost \/ own.inBrowser \/ Spare(kept', Excused')
  BY <1>3, <1>9 DEF Spare
<1>11. AllLost \/ WritesSpare(s, own', kept', Excused')
  <2>1. own' = own
    BY <1>3
  <2>2. ASSUME ~ AllLost, NEW r \in Range(s.todo), r.of = "private" \/ Moves(r)
        PROVE  Spare(own.private, Excused')
    <3>1. r.of = "private" => browser \/ pasted # 0 \/ clear
      BY <1>w DEF FormWrites
    <3>2. Moves(r) => browser
      BY <1>w DEF Moves, FormWrites
    <3>3. QED
      BY <1>6, <1>8, <2>2, <3>1, <3>2 DEF Spare
  <2>3. ASSUME NEW r \in Range(s.todo), MovesBack(r)
        PROVE  Spare(kept', Excused') /\ s.give = 0
    <3>1. ~ browser
      BY <1>w, <2>3 DEF MovesBack, FormWrites
    <3>2. QED
      BY <1>w, <1>3, <3>1 DEF Spare, FormWrites
  <2>4. ASSUME NEW r \in Range(s.todo), Stores(r)
        PROVE  /\ \A q \in Range(s.todo) : ~ Moves(q)
               /\ \E q \in Range(s.todo) : MovesBack(q)
    <3>1. r.of = "private" /\ r.val # 0
      BY <2>4 DEF Stores
    <3>2. ~ browser
      BY <1>w, <3>1 DEF FormWrites
    <3>3. PICK q \in Range(s.todo) : q.of = "inBrowser"
      BY <1>w DEF FormWrites
    <3>4. MovesBack(q)
      BY <1>w, <3>2, <3>3 DEF MovesBack, FormWrites
    <3>5. \A p \in Range(s.todo) : ~ Moves(p)
      BY <1>w, <3>2 DEF Moves, FormWrites
    <3>6. QED
      BY <3>4, <3>5
  <2>5. ASSUME s.give # 0
        PROVE  Spare(kept', Excused') /\ \E q \in Range(s.todo) : Moves(q)
    <3>1. browser /\ pasted # 0
      BY <1>w, <2>5 DEF FormWrites
    <3>2. PICK q \in Range(s.todo) : q.of = "inBrowser"
      BY <1>w DEF FormWrites
    <3>3. Moves(q)
      BY <1>w, <3>1, <3>2 DEF Moves, FormWrites
    <3>4. QED
      BY <1>3, <1>6, <3>1, <3>3 DEF Spare
  <2>6. QED
    BY <2>1, <2>2, <2>3, <2>4, <2>5 DEF WritesSpare
<1>12. PairsKnown' /\ (AllLost' \/ OneKeeps')
  BY <1>2, <1>3, <1>5, <1>7, <1>10, <1>11, RequestStarts
<1>13. PgpTypeOK'
  <2>1. /\ press' \in [Windows -> Requests]
       /\ \A u \in Windows : press'[u] = IF u = w THEN s ELSE press[u]
    BY <1>1, <1>2
  <2>2. ASSUME NEW u \in Windows
        PROVE  Len(press'[u].todo) <= 4
    <3>1. Len(press[u].todo) <= 4
      BY DEF PgpIInv, PgpTypeOK
    <3>2. CASE u = w
      BY <1>w, <2>1, <3>2 DEF FormWrites
    <3>3. CASE u # w
      BY <2>1, <3>1, <3>3
    <3>4. QED
      BY <3>2, <3>3
  <2>3. AtRisk(w) \subseteq Pairs
    BY MaxPairAssumption DEF AtRisk, Pairs
  <2>4. letGo' \subseteq Pairs /\ bare' \subseteq Pairs
    BY <1>1, <1>3, <1>4, <2>3 DEF PgpIInv, PgpTypeOK
  <2>5. \A u \in Windows : press'[u] \in Requests
    BY <2>1
  <2>6. own' \in Own /\ kept' \in Pairs /\ onFile' \subseteq Correspondent /\ letter' \in Letter
        /\ posted' \in Posted /\ DOMAIN press' = Windows /\ pairs' \in Pairs
    BY <1>1, <1>3, <1>7, <2>1 DEF PgpIInv, PgpTypeOK
  <2>7. QED
    BY <2>2, <2>4, <2>5, <2>6 DEF PgpTypeOK, Requests
<1>14. NothingLostUnasked'
  <2>0. CASE AllLost
    <3>1. \A k \in 1 .. pairs' : k \in Excused'
      BY <1>5, <1>7, <2>0, MaxPairAssumption DEF AllLost, Pairs, Excused
    <3>2. QED
      BY <3>1 DEF NothingLostUnasked
  <2>1. ASSUME ~ AllLost, NEW k \in 1 .. pairs, k \notin Excused' PROVE k \in Held'
    <3>1. k \in Held /\ k # 0
      BY <1>1, <1>5, <2>1 DEF PgpIInv, NothingLostUnasked
    <3>2. \A u \in Windows : press[u].busy \/ (press[u].todo = << >> /\ press[u].give = 0)
      BY DEF PgpIInv, PairsKnown, InOrder
    <3>3. press[w].give = 0 /\ Range(press[w].todo) = {}
      BY <1>3, <3>2, NoRows
    <3>4. \A u \in Windows \ {w} : press'[u] = press[u]
      BY <1>1, <1>2
    <3>5. own' = own
      BY <1>3
    <3>6. k = kept => kept' = kept
      BY <1>3, <1>6, <1>9, <2>1, <3>1 DEF Spare
    <3>7. QED
      BY <3>1, <3>3, <3>4, <3>5, <3>6 DEF Held
  <2>2. ASSUME pairs + 1 \in {public, pasted}, pairs + 1 \notin Excused'
        PROVE  pairs + 1 \in Held'
    <3>1. press'[w] = s
      BY <1>1, <1>2
    <3>2. pairs + 1 # own.public
      BY <1>1
    <3>3. pasted = pairs + 1 /\ pasted # 0
      BY <1>1, <1>4, <2>2, <3>2 DEF Excused
    <3>4. CASE browser
      <4>1. press'[w].give = pairs + 1
        BY <1>w, <3>1, <3>3, <3>4 DEF FormWrites
      <4>2. QED
        BY <4>1 DEF Held
    <3>5. CASE ~ browser
      <4>1. PICK r \in Range(press'[w].todo) : r.of = "private" /\ r.val = pairs + 1
        BY <1>w, <3>1, <3>3, <3>5 DEF FormWrites
      <4>2. QED
        BY <4>1 DEF Held
    <3>6. QED
      BY <3>4, <3>5
  <2>3. \A k \in 1 .. pairs' : k \in 1 .. pairs \/ (k = pairs + 1 /\ pairs + 1 \in {public, pasted})
    BY <1>1, <1>3
  <2>4. QED
    BY <2>0, <2>1, <2>2, <2>3 DEF NothingLostUnasked
<1>15. QED
  BY <1>12, <1>13, <1>14

\* A row written is one row fewer, with the others in order.
LEMMA RowTaken ==
    ASSUME PgpIInv, NEW w \in Windows, WriteRow(w)
    PROVE  LET t == press[w].todo IN
           /\ t \in Seq(PrefRow) /\ t # << >> /\ press[w].busy
           /\ Head(t) \in PrefRow /\ Tail(t) \in Seq(PrefRow)
           /\ Range(t) = {Head(t)} \union Range(Tail(t))
           /\ Head(t).of = "private" => Range(Tail(t)) = {}
           /\ press' \in [Windows -> Requests]
           /\ press'[w].busy = press[w].busy /\ press'[w].give = press[w].give
           /\ press'[w].todo = Tail(t) /\ Len(Tail(t)) <= 4
           /\ \A u \in Windows \ {w} : press'[u] = press[u]
           /\ InOrder(press'[w], pairs)
<1> DEFINE t == press[w].todo
<1>1. /\ press \in [Windows -> Requests] /\ InOrder(press[w], pairs)
      /\ press[w] \in Requests /\ Len(t) <= 4
  BY DEF PgpIInv, PgpTypeOK, PairsKnown
<1>2. t \in Seq(PrefRow) /\ t # << >>
  BY <1>1 DEF WriteRow, Requests
<1>3. press[w].busy
  BY <1>1, <1>2 DEF InOrder
<1>4. press' = [press EXCEPT ![w] = [press[w] EXCEPT !.todo = Tail(t)]]
  BY DEF WriteRow
<1>5. /\ Head(t) \in PrefRow /\ Tail(t) \in Seq(PrefRow)
      /\ Len(Tail(t)) = Len(t) - 1 /\ Len(t) \in Nat \ {0}
      /\ Range(t) = {Head(t)} \union Range(Tail(t))
      /\ \A k \in 1 .. Len(Tail(t)) : Tail(t)[k] = t[k + 1] /\ k + 1 \in 1 .. Len(t)
  BY <1>2, TailRows
<1>6. Head(t) = t[1] /\ DOMAIN Tail(t) = 1 .. Len(Tail(t))
  BY <1>2, <1>5
<1>7. Head(t).of = "private" => Range(Tail(t)) = {}
  <2> SUFFICES ASSUME Head(t).of = "private" PROVE DOMAIN Tail(t) = {}
    BY DEF Range
  <2>1. 1 \in 1 .. Len(t)
    BY <1>5
  <2>2. 1 = Len(t)
    BY <1>1, <1>6, <2>1 DEF InOrder
  <2>3. Len(Tail(t)) = 0
    BY <1>5, <2>2
  <2>a. 1 .. 0 = {}
    OBVIOUS
  <2>4. 1 .. Len(Tail(t)) = {}
    BY <2>3, <2>a, Zenon
  <2>5. DOMAIN Tail(t) = 1 .. Len(Tail(t))
    BY <1>6
  <2> HIDE DEF t
  <2>6. QED
    BY <2>4, <2>5
<1>8. [press[w] EXCEPT !.todo = Tail(t)] \in Requests
  BY <1>1, <1>5 DEF Requests
<1>9. press' \in [Windows -> Requests] /\ \A u \in Windows \ {w} : press'[u] = press[u]
  BY <1>1, <1>4, <1>8
<1>10. press'[w].busy = press[w].busy /\ press'[w].give = press[w].give /\ press'[w].todo = Tail(t)
  BY <1>1, <1>4 DEF Requests
<1>11. InOrder(press'[w], pairs)
  <2>1. \A k \in 1 .. Len(Tail(t)) :
           /\ t[k + 1].of = "public" => t[k + 1].val <= pairs
           /\ t[k + 1].of = "private" => k + 1 = Len(t)
    BY <1>1, <1>5 DEF InOrder
  <2>2. \A k \in 1 .. Len(Tail(t)) :
           /\ Tail(t)[k].of = "public" => Tail(t)[k].val <= pairs
           /\ Tail(t)[k].of = "private" => k = Len(Tail(t))
    BY <1>5, <2>1
  <2>3. QED
    BY <1>3, <1>10, <2>2 DEF InOrder
<1>12. Len(Tail(t)) <= 4
  BY <1>1, <1>5
<1>13. QED
  BY <1>2, <1>3, <1>5, <1>7, <1>9, <1>10, <1>11, <1>12

\* A row written over a key is one that could be spared.
LEMMA WriteRowStep ==
    ASSUME PgpIInv, NEW w \in Windows, WriteRow(w)
    PROVE  PgpTypeOK' /\ PairsKnown' /\ (AllLost' \/ OneKeeps') /\ NothingLostUnasked'
<1> DEFINE t == press[w].todo
           r == Head(t)
<1>0. /\ t \in Seq(PrefRow) /\ t # << >> /\ press[w].busy
      /\ r \in PrefRow /\ Tail(t) \in Seq(PrefRow)
      /\ Range(t) = {r} \union Range(Tail(t))
      /\ r.of = "private" => Range(Tail(t)) = {}
      /\ press' \in [Windows -> Requests]
      /\ press'[w].busy = press[w].busy /\ press'[w].give = press[w].give
      /\ press'[w].todo = Tail(t) /\ Len(Tail(t)) <= 4
      /\ \A u \in Windows \ {w} : press'[u] = press[u]
      /\ InOrder(press'[w], pairs)
  BY RowTaken
<1>1. /\ pairs \in Nat /\ pairs \in Pairs /\ pairs <= MaxPair /\ own \in Own
      /\ press \in [Windows -> Requests] /\ letGo \subseteq Pairs /\ own.public <= pairs
      /\ own.private \in Pairs /\ own.public \in Pairs
      /\ own.enabled \in BOOLEAN /\ own.inBrowser \in BOOLEAN
  BY MaxPairAssumption DEF PgpIInv, PgpTypeOK, PairsKnown, Pairs, Own
<1>2. UNCHANGED <<kept, pairs, onFile, letter, posted>>
  BY DEF WriteRow
<1>3. \/ own' = [own EXCEPT ![r.of] = r.val] /\ letGo' = letGo
      \/ letGo' = 1 .. MaxPair /\ own' = own
  BY DEF WriteRow
<1>b. bare' = bare \union Unseen(own', kept)
  BY DEF WriteRow
<1>r. /\ r.of \in {"enabled", "inBrowser", "public", "private"}
      /\ r.of \in {"enabled", "inBrowser"} => r.val \in BOOLEAN
      /\ r.of \in {"public", "private"} => r.val \in Pairs
      /\ r.of = "public" => r.val <= pairs
  <2>1. 1 \in 1 .. Len(t) /\ t[1] = r
    BY <1>0
  <2>2. InOrder(press[w], pairs)
    BY DEF PgpIInv, PairsKnown
  <2>3. QED
    BY <1>0, <2>1, <2>2, RowIsOf DEF InOrder
<1> HIDE DEF r, t
<1>4. /\ own' \in Own /\ own'.public <= pairs
      /\ own' = [own EXCEPT ![r.of] = r.val] =>
            /\ own'.inBrowser = IF r.of = "inBrowser" THEN r.val ELSE own.inBrowser
            /\ own'.private = IF r.of = "private" THEN r.val ELSE own.private
  <2>1. CASE own' = own /\ own' # [own EXCEPT ![r.of] = r.val]
    BY <1>1, <2>1
  <2>2. CASE own' = [own EXCEPT ![r.of] = r.val]
    <3>1. CASE r.of = "enabled"
      <4>1. own' = [own EXCEPT !.enabled = r.val]
        BY <2>2, <3>1
      <4>2. QED
        BY <1>1, <1>r, <2>2, <3>1, <4>1 DEF Own
    <3>2. CASE r.of = "inBrowser"
      <4>1. own' = [own EXCEPT !.inBrowser = r.val]
        BY <2>2, <3>2
      <4>2. QED
        BY <1>1, <1>r, <2>2, <3>2, <4>1 DEF Own
    <3>3. CASE r.of = "public"
      <4>1. own' = [own EXCEPT !.public = r.val]
        BY <2>2, <3>3
      <4>2. QED
        BY <1>1, <1>r, <2>2, <3>3, <4>1 DEF Own
    <3>4. CASE r.of = "private"
      <4>1. own' = [own EXCEPT !.private = r.val]
        BY <2>2, <3>4
      <4>2. QED
        BY <1>1, <1>r, <2>2, <3>4, <4>1 DEF Own
    <3>5. QED
      BY <1>r, <3>1, <3>2, <3>3, <3>4
  <2>3. QED
    BY <1>3, <2>1, <2>2
<1>5. PgpTypeOK'
  <2>1. ASSUME NEW u \in Windows
        PROVE  Len(press'[u].todo) <= 4
    <3>1. Len(press[u].todo) <= 4
      BY DEF PgpIInv, PgpTypeOK
    <3>2. CASE u = w
      BY <1>0, <3>2
    <3>3. CASE u # w
      BY <1>0, <3>1, <3>3
    <3>4. QED
      BY <3>2, <3>3
  <2>2. letGo' \subseteq Pairs /\ bare' \subseteq Pairs
    <3>1. 1 .. MaxPair \subseteq Pairs
      BY MaxPairAssumption DEF Pairs
    <3>2. bare \subseteq Pairs /\ kept \in Pairs
      BY DEF PgpIInv, PgpTypeOK
    <3>3. QED
      BY <1>1, <1>3, <1>b, <3>1, <3>2 DEF Unseen
  <2>3. \A u \in Windows : press'[u] \in Requests
    BY <1>0
  <2>4. kept' \in Pairs /\ onFile' \subseteq Correspondent /\ letter' \in Letter
        /\ posted' \in Posted /\ DOMAIN press' = Windows /\ pairs' \in Pairs
    BY <1>0, <1>2 DEF PgpIInv, PgpTypeOK
  <2>5. QED
    BY <1>4, <2>1, <2>2, <2>3, <2>4 DEF PgpTypeOK, Requests
<1>6. PairsKnown'
  <2>1. \A u \in Windows : InOrder(press[u], pairs)
    BY DEF PgpIInv, PairsKnown
  <2>2. \A u \in Windows : InOrder(press'[u], pairs)
    BY <1>0, <2>1
  <2>3. QED
    BY <1>0, <1>2, <1>4, <2>2 DEF PairsKnown
<1>7. CASE AllLost \/ letGo' = 1 .. MaxPair
  <2>1. \A k \in 1 .. MaxPair : k \in letGo'
    BY <1>3, <1>7 DEF AllLost
  <2>2. \A k \in 1 .. pairs : k \in 1 .. MaxPair
    BY <1>1, MaxPairAssumption
  <2>3. NothingLostUnasked' /\ AllLost'
    BY <1>2, <2>1, <2>2 DEF NothingLostUnasked, AllLost, Excused
  <2>4. QED
    BY <1>5, <1>6, <2>3
<1>8. CASE ~ AllLost /\ letGo' # 1 .. MaxPair
  <2>1. OneKeeps /\ letGo' = letGo /\ own' = [own EXCEPT ![r.of] = r.val]
    BY <1>3, <1>8 DEF PgpIInv
  <2>2. \A u \in Windows \ {w} : ~ press[u].busy
    BY <1>0, <2>1 DEF OneKeeps
  <2>3. \A u \in Windows \ {w} : press[u].todo = << >> /\ press[u].give = 0
    BY <2>2 DEF PgpIInv, PairsKnown, InOrder
  <2>4. WritesSpare(press[w], own, kept, Excused)
    BY <2>1 DEF OneKeeps
  <2>e. /\ Excused \subseteq Excused'
        /\ \A n \in {own.private, kept} : Spare(n, Excused) => Spare(n, Excused')
    BY <1>b, <2>1 DEF Excused, Spare
  <2> DEFINE rows == Range(t)
             rest == Range(Tail(t))
             give == press[w].give
  <2>5. /\ \A q \in rows : q.of = "private" \/ Moves(q) => Spare(own.private, Excused')
        /\ \A q \in rows : MovesBack(q) => Spare(kept, Excused') /\ give = 0
        /\ \A q \in rows : Stores(q) =>
              /\ \A p \in rows : ~ Moves(p)
              /\ own.inBrowser => \E p \in rows : MovesBack(p)
        /\ give # 0 => /\ Spare(kept, Excused')
                       /\ own.inBrowser \/ \E p \in rows : Moves(p)
    BY <2>4, <2>e DEF WritesSpare, t
  <2>6. rows = {r} \union rest /\ r \in rows
    BY <1>0 DEF r, t
  <2> HIDE DEF rows, rest, give
  <2>a. own.inBrowser => Spare(own.private, Excused')
    BY <2>1, <2>e DEF OneKeeps
  <2>b. ~ own.inBrowser => Spare(kept, Excused')
    BY <2>1, <2>e DEF OneKeeps
  <2>c. /\ own'.inBrowser = IF r.of = "inBrowser" THEN r.val ELSE own.inBrowser
        /\ own'.private = IF r.of = "private" THEN r.val ELSE own.private
    BY <1>4, <2>1
  <2>7. /\ own'.inBrowser => Spare(own'.private, Excused')
        /\ ~ own'.inBrowser => Spare(kept, Excused')
        /\ \A q \in rest : q.of = "private" \/ Moves(q) => Spare(own'.private, Excused')
        /\ \A q \in rest : MovesBack(q) => Spare(kept, Excused') /\ give = 0
        /\ \A q \in rest : Stores(q) =>
              /\ \A p \in rest : ~ Moves(p)
              /\ own'.inBrowser => \E p \in rest : MovesBack(p)
        /\ give # 0 => /\ Spare(kept, Excused')
                       /\ own'.inBrowser \/ \E p \in rest : Moves(p)
    <3>1. CASE r.of \in {"enabled", "public"}
      <4>1. ~ Moves(r) /\ ~ MovesBack(r) /\ ~ Stores(r)
        BY <3>1 DEF Moves, MovesBack, Stores
      <4>2. own'.inBrowser = own.inBrowser /\ own'.private = own.private
        BY <2>c, <3>1
      <4>3. QED
        BY <2>5, <2>6, <2>a, <2>b, <4>1, <4>2
    <3>2. CASE Moves(r)
      <4>1. own'.inBrowser = TRUE /\ own'.private = own.private
        BY <2>c, <3>2 DEF Moves
      <4>2. \A q \in rest : ~ Stores(q)
        BY <2>5, <2>6, <3>2
      <4>3. Spare(own.private, Excused')
        BY <2>5, <2>6, <3>2
      <4>4. QED
        BY <2>5, <2>6, <4>1, <4>2, <4>3
    <3>3. CASE MovesBack(r)
      <4>1. own'.inBrowser = FALSE /\ own'.private = own.private
        BY <2>c, <3>3 DEF MovesBack
      <4>2. Spare(kept, Excused') /\ give = 0
        BY <2>5, <2>6, <3>3
      <4>3. QED
        BY <2>5, <2>6, <4>1, <4>2
    <3>4. CASE r.of = "private"
      <4>1. own'.inBrowser = own.inBrowser /\ own'.private = r.val
        BY <2>c, <3>4
      <4>2. rest = {} /\ rows = {r}
        BY <1>0, <2>6, <3>4 DEF rest, r, t
      <4>3. ~ Moves(r) /\ ~ MovesBack(r)
        BY <3>4 DEF Moves, MovesBack
      <4>4. own.inBrowser => Spare(r.val, Excused')
        BY <2>5, <3>4, <4>2, <4>3 DEF Stores, Spare
      <4>5. QED
        BY <2>5, <2>b, <4>1, <4>2, <4>3, <4>4
    <3>5. QED
      BY <1>r, <3>1, <3>2, <3>3, <3>4 DEF Moves, MovesBack
  <2>8. WritesSpare(press'[w], own', kept', Excused')
    <3>1. /\ press'[w].todo = Tail(t) /\ press'[w].give = give /\ kept' = kept
          /\ Range(press'[w].todo) = rest
      BY <1>0, <1>2, <2>1 DEF give, t, rest
    <3>2. QED
      BY <2>7, <3>1 DEF WritesSpare
  <2>9. ASSUME NEW u \in Windows PROVE WritesSpare(press'[u], own', kept', Excused')
    <3>1. CASE u = w
      BY <2>8, <3>1
    <3>2. CASE u # w
      <4>1. press'[u].todo = << >> /\ press'[u].give = 0
        BY <1>0, <2>3, <3>2
      <4>2. QED
        BY <4>1, NoRows DEF WritesSpare
    <3>3. QED
      BY <3>1, <3>2
  <2>10. OneKeeps'
    <3>1. \A u, v \in Windows : press'[u].busy /\ press'[v].busy => u = v
      BY <1>0, <2>2
    <3>2. kept' = kept
      BY <1>2
    <3>3. own'.inBrowser => own'.public # 0 \/ Spare(kept', Excused')
      BY <1>b, <3>2 DEF Unseen, Spare, Excused
    <3>4. QED
      BY <2>7, <2>9, <3>1, <3>2, <3>3 DEF OneKeeps
  <2>11. ASSUME NEW k \in 1 .. pairs, k \notin Excused' PROVE k \in Held'
    <3>1. k \in Held /\ k # 0
      BY <1>1, <2>e, <2>11 DEF PgpIInv, NothingLostUnasked
    <3>2. \A u \in Windows \ {w} : press'[u] = press[u]
      BY <1>0
    <3>3. press'[w].give = press[w].give /\ Range(press'[w].todo) = rest /\ kept' = kept
      BY <1>0, <1>2 DEF rest, t
    <3>4. k = own.private => own'.private = own.private
      <4>1. r.of = "private" => Spare(own.private, Excused')
        BY <2>5, <2>6
      <4>2. QED
        BY <2>11, <2>c, <3>1, <4>1 DEF Spare
    <3>5. r.of = "private" /\ k = r.val => k = own'.private
      BY <2>c
    <3>6. Range(press[w].todo) = {r} \union rest
      BY <2>6 DEF rows, t
    <3>7. QED
      BY <3>1, <3>2, <3>3, <3>4, <3>5, <3>6 DEF Held
  <2>12. NothingLostUnasked'
    BY <1>2, <2>1, <2>11 DEF NothingLostUnasked
  <2>13. QED
    BY <1>5, <1>6, <2>10, <2>12
<1>9. QED
  BY <1>7, <1>8

\* The reply gives the browser its copy, and the request is over.
LEMMA ReplyStep ==
    ASSUME PgpIInv, NEW w \in Windows, Reply(w)
    PROVE  PgpTypeOK' /\ PairsKnown' /\ (AllLost' \/ OneKeeps') /\ NothingLostUnasked'
<1> DEFINE give == press[w].give
<1>0. /\ pairs \in Nat /\ pairs \in Pairs /\ pairs <= MaxPair /\ kept \in Pairs
      /\ press \in [Windows -> Requests] /\ letGo \subseteq Pairs /\ give \in Pairs
      /\ bare \subseteq Pairs
  BY MaxPairAssumption DEF PgpIInv, PgpTypeOK, PairsKnown, Pairs, Requests
<1>1. /\ press[w].busy /\ press[w].todo = << >>
      /\ press' = [press EXCEPT ![w] = AtRest]
      /\ UNCHANGED <<own, pairs, onFile, letter, posted>>
      /\ IF give # 0
         THEN \/ kept' = give /\ letGo' = letGo
              \/ letGo' = letGo \union {give} /\ kept' = kept
         ELSE kept' = kept /\ letGo' = letGo
      /\ bare' = bare \union Unseen(own, kept')
  BY DEF Reply
<1>2. /\ press' \in [Windows -> Requests] /\ press'[w] = AtRest
      /\ \A u \in Windows \ {w} : press'[u] = press[u]
  BY <1>0, <1>1, AtRestIsRequest
<1>3. AtRest.todo = << >> /\ AtRest.give = 0 /\ ~ AtRest.busy
  BY DEF AtRest
<1>4. /\ letGo \subseteq letGo' /\ letGo' \subseteq Pairs /\ kept' \in Pairs
      /\ bare' \subseteq Pairs /\ Excused \subseteq Excused'
  BY <1>0, <1>1 DEF Unseen, Excused
<1>5. PgpTypeOK'
  <2>1. ASSUME NEW u \in Windows
        PROVE  Len(press'[u].todo) <= 4
    <3>1. Len(press[u].todo) <= 4
      BY DEF PgpIInv, PgpTypeOK
    <3>2. CASE u = w
      BY <1>2, <1>3, <3>2, NoRows
    <3>3. CASE u # w
      BY <1>2, <3>1, <3>3
    <3>4. QED
      BY <3>2, <3>3
  <2>2. \A u \in Windows : press'[u] \in Requests
    BY <1>2
  <2>3. own' \in Own /\ onFile' \subseteq Correspondent /\ letter' \in Letter
        /\ posted' \in Posted /\ DOMAIN press' = Windows /\ pairs' \in Pairs
    BY <1>1, <1>2 DEF PgpIInv, PgpTypeOK
  <2>4. QED
    BY <1>4, <2>1, <2>2, <2>3 DEF PgpTypeOK, Requests
<1>6. PairsKnown'
  <2>1. (\A u \in Windows : InOrder(press[u], pairs)) /\ own.public <= pairs
    BY DEF PgpIInv, PairsKnown
  <2>2. \A u \in Windows : InOrder(press'[u], pairs)
    BY <1>2, <2>1, AtRestIsRequest
  <2>3. QED
    BY <1>1, <1>2, <2>1, <2>2 DEF PairsKnown
<1>7. CASE AllLost
  <2>1. \A k \in 1 .. MaxPair : k \in letGo'
    BY <1>4, <1>7 DEF AllLost
  <2>2. \A k \in 1 .. pairs : k \in 1 .. MaxPair
    BY <1>0, MaxPairAssumption
  <2>3. NothingLostUnasked' /\ AllLost'
    BY <1>1, <2>1, <2>2 DEF NothingLostUnasked, AllLost, Excused
  <2>4. QED
    BY <1>5, <1>6, <2>3
<1>8. CASE ~ AllLost
  <2>1. OneKeeps
    BY <1>8 DEF PgpIInv
  <2>2. \A u \in Windows \ {w} : ~ press[u].busy
    BY <1>1, <2>1 DEF OneKeeps
  <2>3. \A u \in Windows \ {w} : press[u].todo = << >> /\ press[u].give = 0
    BY <2>2 DEF PgpIInv, PairsKnown, InOrder
  <2>4. give # 0 => Spare(kept, Excused) /\ own.inBrowser
    <3>1. WritesSpare(press[w], own, kept, Excused)
      BY <2>1 DEF OneKeeps
    <3>2. Range(press[w].todo) = {}
      BY <1>1, NoRows
    <3>3. QED
      BY <3>1, <3>2 DEF WritesSpare
  <2>5. \A u \in Windows : press'[u].todo = << >> /\ press'[u].give = 0 /\ ~ press'[u].busy
    BY <1>2, <1>3, <2>2, <2>3
  <2>6. \A u \in Windows : WritesSpare(press'[u], own', kept', Excused')
    BY <2>5, NoRows DEF WritesSpare
  <2>7. OneKeeps'
    <3>1. own.inBrowser => Spare(own.private, Excused')
      BY <1>4, <2>1 DEF OneKeeps, Spare
    <3>2. ~ own.inBrowser => Spare(kept', Excused')
      BY <1>1, <1>4, <2>1, <2>4 DEF OneKeeps, Spare
    <3>3. own.inBrowser => own.public # 0 \/ Spare(kept', Excused')
      BY <1>1 DEF Unseen, Spare, Excused
    <3>4. QED
      BY <1>1, <2>5, <2>6, <3>1, <3>2, <3>3 DEF OneKeeps
  <2>8. ASSUME NEW k \in 1 .. pairs, k \notin Excused' PROVE k \in Held'
    <3>1. k \in Held /\ k # 0
      BY <1>0, <1>4, <2>8 DEF PgpIInv, NothingLostUnasked
    <3>2. \A u \in Windows : Range(press[u].todo) = {}
      BY <1>1, <2>3, NoRows
    <3>3. k = own.private \/ k = kept \/ k = give
      BY <2>3, <3>1, <3>2 DEF Held
    <3>4. k = own'.private \/ k = kept'
      BY <1>1, <1>4, <2>4, <2>8, <3>1, <3>3 DEF Spare, Excused
    <3>5. QED
      BY <3>4 DEF Held
  <2>9. NothingLostUnasked'
    BY <1>1, <2>8 DEF NothingLostUnasked
  <2>10. QED
    BY <1>5, <1>6, <2>7, <2>9
<1>9. QED
  BY <1>7, <1>8

-----------------------------------------------------------------------------

\* Sending and the contacts change neither keys nor what is given up.
LEMMA KeysUntouched ==
    ASSUME PgpIInv, UNCHANGED <<own, kept, pairs, press, letGo, bare>>
    PROVE  PairsKnown' /\ (AllLost' \/ OneKeeps') /\ NothingLostUnasked'
<1>1. PairsKnown'
  BY DEF PgpIInv, PairsKnown
<1>2. AllLost => AllLost'
  BY DEF AllLost
<1>3. OneKeeps => OneKeeps'
  BY DEF OneKeeps, Excused
<1>4. NothingLostUnasked'
  BY DEF PgpIInv, NothingLostUnasked, Held, Excused
<1>5. QED
  BY <1>1, <1>2, <1>3, <1>4 DEF PgpIInv

\* A letter, from the composer to the relay.
LEMMA LetterStep ==
    ASSUME PgpIInv,
           \/ \E to \in SUBSET Correspondent, sign, encrypt \in BOOLEAN :
                 Compose(to, sign, encrypt)
           \/ CheckEnabled \/ \E p \in Correspondent : LookUp(p)
           \/ LookedUp \/ AddOwn \/ Deliver \/ DeliveryFails
    PROVE  PgpTypeOK' /\ LetterStands' /\ UNCHANGED <<own, kept, pairs, press, letGo, bare>>
<1>0. /\ letter \in Letter /\ posted \in Posted /\ own \in Own /\ pairs \in Pairs
      /\ pairs \in Nat /\ own.public <= pairs /\ own.public \in Pairs
      /\ LetterStands
  BY MaxPairAssumption DEF PgpIInv, PgpTypeOK, PairsKnown, Pairs, Own
<1>z. 0 \in Pairs /\ 0 <= pairs
  BY <1>0, MaxPairAssumption DEF Pairs
<1>1. ASSUME UNCHANGED <<own, kept, pairs, press, onFile, letGo, bare>>, letter' \in Letter,
             posted' \in Posted
      PROVE  PgpTypeOK'
  BY <1>1 DEF PgpIInv, PgpTypeOK
<1>n. NoLetter \in Letter
  BY <1>z DEF NoLetter, Letter
<1>2. CASE letter' = NoLetter /\ Writing
  <2>1. LetterStands'
    BY <1>0, <1>z, <1>2 DEF LetterStands, NoLetter, Writing
  <2>2. QED
    BY <1>0, <1>1, <1>2, <1>n, <2>1 DEF Writing
<1>3. ASSUME NEW to \in SUBSET Correspondent, NEW sign \in BOOLEAN, NEW encrypt \in BOOLEAN,
             Compose(to, sign, encrypt)
      PROVE  PgpTypeOK' /\ LetterStands' /\ UNCHANGED <<own, kept, pairs, press, letGo, bare>>
  <2> DEFINE pc == IF sign \/ encrypt THEN "enabled" ELSE "deliver"
  <2>1. letter' = [NoLetter EXCEPT !.pc = pc, !.to = to, !.sign = sign, !.encrypt = encrypt]
    BY <1>3 DEF Compose
  <2>2. pc \in {"none", "enabled", "keys", "own", "deliver"} /\ (pc = "enabled" \/ ~ encrypt)
        /\ pc # "own" /\ (pc = "deliver" => ~ encrypt)
    OBVIOUS
  <2> HIDE DEF pc
  <2>3. letter' \in Letter
    BY <1>n, <2>1, <2>2, ZenonT(40) DEF Letter
  <2>4. letter'.pc = pc /\ letter'.encrypt = encrypt /\ letter'.mine = 0
    BY <2>1 DEF NoLetter
  <2>5. posted' = NothingPosted /\ UNCHANGED <<own, kept, pairs, press, onFile, letGo, bare>>
    BY <1>3 DEF Compose
  <2>6. posted' \in Posted
    BY <1>z, <2>5 DEF NothingPosted, Posted
  <2>7. LetterStands'
    BY <1>z, <2>2, <2>4, <2>5 DEF LetterStands, NothingPosted
  <2>8. QED
    BY <1>1, <2>3, <2>5, <2>6, <2>7
<1>4. CASE CheckEnabled
  <2>1. CASE letter' = [letter EXCEPT !.pc = "keys", !.left = letter.to, !.sign = FALSE] /\ Writing
    <3>1. letter' \in Letter
      BY <1>0, <2>1, ZenonT(40) DEF Letter
    <3>2. letter'.pc = "keys" /\ letter'.mine = letter.mine
      BY <1>0, <2>1 DEF Letter
    <3>3. LetterStands'
      BY <1>0, <2>1, <3>2 DEF LetterStands, Writing
    <3>4. QED
      BY <1>0, <1>1, <2>1, <3>1, <3>3 DEF Writing
  <2>2. CASE /\ letter' = [letter EXCEPT !.pc = "deliver", !.sign = FALSE] /\ Writing
             /\ ~ letter.encrypt
    <3>1. letter' \in Letter
      BY <1>0, <2>2, ZenonT(40) DEF Letter
    <3>2. letter'.encrypt = letter.encrypt /\ letter'.mine = letter.mine
      BY <1>0, <2>2 DEF Letter
    <3>3. LetterStands'
      BY <1>0, <2>2, <3>2 DEF LetterStands, Writing
    <3>4. QED
      BY <1>0, <1>1, <2>2, <3>1, <3>3 DEF Writing
  <2>3. QED
    BY <1>2, <1>4, <2>1, <2>2 DEF CheckEnabled, Refuse
<1>5. ASSUME NEW p \in Correspondent, LookUp(p)
      PROVE  PgpTypeOK' /\ LetterStands' /\ UNCHANGED <<own, kept, pairs, press, letGo, bare>>
  <2> DEFINE l == letter.left \ {p}
             r == IF p \in onFile THEN letter.readers \union {p} ELSE letter.readers
  <2>1. letter' = [letter EXCEPT !.left = l, !.readers = r] /\ Writing /\ letter.pc = "keys"
    BY <1>5 DEF LookUp
  <2>2. l \subseteq Correspondent /\ r \subseteq Correspondent
    BY <1>0 DEF Letter
  <2> HIDE DEF l, r
  <2>3. letter' \in Letter
    BY <1>0, <2>1, <2>2, ZenonT(40) DEF Letter
  <2>4. letter'.pc = "keys" /\ letter'.mine = letter.mine
    BY <1>0, <2>1 DEF Letter
  <2>5. LetterStands'
    BY <1>0, <2>1, <2>4 DEF LetterStands, Writing
  <2>6. QED
    BY <1>0, <1>1, <2>1, <2>3, <2>5 DEF Writing
<1>6. CASE LookedUp
  <2>1. CASE letter' = [letter EXCEPT !.pc = "own"] /\ Writing /\ letter.readers = letter.to
    <3>1. letter' \in Letter
      BY <1>0, <2>1, ZenonT(40) DEF Letter
    <3>2. letter'.pc = "own" /\ letter'.mine = letter.mine /\ letter'.readers = letter'.to
      BY <1>0, <2>1 DEF Letter
    <3>3. LetterStands'
      BY <1>0, <2>1, <3>2 DEF LetterStands, Writing
    <3>4. QED
      BY <1>0, <1>1, <2>1, <3>1, <3>3 DEF Writing
  <2>2. QED
    BY <1>2, <1>6, <2>1 DEF LookedUp, Everybody, Refuse
<1>7. CASE AddOwn
  <2>1. CASE /\ letter' = [letter EXCEPT !.pc = "deliver", !.mine = own.public] /\ Writing
             /\ own.public # 0 /\ letter.pc = "own"
    <3>1. letter' \in Letter
      BY <1>0, <2>1, ZenonT(40) DEF Letter
    <3>2. /\ letter'.pc = "deliver" /\ letter'.mine = own.public /\ letter'.readers = letter.readers
          /\ letter'.to = letter.to /\ letter'.encrypt = letter.encrypt
      BY <1>0, <2>1 DEF Letter
    <3>3. LetterStands'
      BY <1>0, <2>1, <3>2 DEF LetterStands, Writing
    <3>4. QED
      BY <1>0, <1>1, <2>1, <3>1, <3>3 DEF Writing
  <2>2. QED
    BY <1>2, <1>7, <2>1 DEF AddOwn, Refuse
<1>8. CASE Deliver
  <2>1. posted' = [sealed |-> letter.encrypt, to |-> letter.to,
                   readers |-> letter.readers, mine |-> letter.mine]
    BY <1>8 DEF Deliver
  <2>2. posted' \in Posted
    BY <1>0, <2>1 DEF Posted, Letter
  <2>3. letter' = NoLetter /\ UNCHANGED <<own, kept, pairs, press, onFile, letGo, bare>>
        /\ letter.pc = "deliver"
    BY <1>8 DEF Deliver
  <2>4. LetterStands'
    BY <1>0, <1>z, <2>1, <2>3 DEF LetterStands, NoLetter
  <2>5. QED
    BY <1>1, <1>n, <2>2, <2>3, <2>4
<1>9. CASE DeliveryFails
  BY <1>2, <1>9 DEF DeliveryFails, Refuse
<1>10. QED
  BY <1>3, <1>4, <1>5, <1>6, <1>7, <1>8, <1>9

\* Elsewhere the letter, and what was posted, stay; pairs only come.
LEMMA LetterStays ==
    PgpIInv /\ UNCHANGED <<letter, posted>> /\ pairs' \in Nat /\ pairs <= pairs' => LetterStands'
<1> SUFFICES ASSUME PgpIInv, UNCHANGED <<letter, posted>>, pairs' \in Nat, pairs <= pairs'
             PROVE  LetterStands'
  OBVIOUS
<1>1. letter.mine \in Nat /\ posted.mine \in Nat /\ pairs \in Nat /\ LetterStands
  BY MaxPairAssumption DEF PgpIInv, PgpTypeOK, Letter, Posted, Pairs
<1>2. QED
  BY <1>1 DEF LetterStands

LEMMA PgpStep == PgpIInv /\ [PgpNext]_pgpVars => PgpIInv'
<1> SUFFICES ASSUME PgpIInv, [PgpNext]_pgpVars PROVE PgpIInv'
  OBVIOUS
<1>0. pairs \in Nat
  BY MaxPairAssumption DEF PgpIInv, PgpTypeOK, Pairs
<1>1. ASSUME NEW w \in Windows, Generate(w) PROVE PgpIInv'
  <2>1. UNCHANGED <<letter, posted>> /\ pairs' = pairs + 1
    BY <1>1 DEF Generate
  <2>2. LetterStands'
    BY <1>0, <2>1, LetterStays
  <2>3. QED
    BY <1>1, <2>2, GenerateStep DEF PgpIInv
<1>2. ASSUME NEW w \in Windows, WriteRow(w) PROVE PgpIInv'
  <2>1. UNCHANGED <<letter, posted, pairs>>
    BY <1>2 DEF WriteRow
  <2>2. LetterStands'
    BY <1>0, <2>1, LetterStays
  <2>3. QED
    BY <1>2, <2>2, WriteRowStep DEF PgpIInv
<1>3. ASSUME NEW w \in Windows, Reply(w) PROVE PgpIInv'
  <2>1. UNCHANGED <<letter, posted, pairs>>
    BY <1>3 DEF Reply
  <2>2. LetterStands'
    BY <1>0, <2>1, LetterStays
  <2>3. QED
    BY <1>3, <2>2, ReplyStep DEF PgpIInv
<1>4. ASSUME NEW w \in Windows, NEW on \in BOOLEAN, NEW browser \in BOOLEAN,
             NEW clear \in BOOLEAN, NEW public \in Pairs, NEW pasted \in Pairs,
             SavePGP(w, on, browser, clear, public, pasted)
      PROVE  PgpIInv'
  <2>1. UNCHANGED <<letter, posted>> /\ (pairs' = pairs \/ pairs' = pairs + 1)
    BY <1>4 DEF SavePGP
  <2>2. LetterStands'
    BY <1>0, <2>1, LetterStays
  <2>3. PgpTypeOK' /\ PairsKnown' /\ (AllLost' \/ OneKeeps') /\ NothingLostUnasked'
    BY <1>4, SavePGPStep
  <2>4. QED
    BY <2>2, <2>3 DEF PgpIInv
<1>5. CASE \/ \E to \in SUBSET Correspondent, sign, encrypt \in BOOLEAN :
                 Compose(to, sign, encrypt)
           \/ CheckEnabled \/ \E p \in Correspondent : LookUp(p)
           \/ LookedUp \/ AddOwn \/ Deliver \/ DeliveryFails
  BY <1>5, LetterStep, KeysUntouched DEF PgpIInv
<1>6. ASSUME NEW p \in Correspondent, ContactChanges(p) PROVE PgpIInv'
  <2>1. UNCHANGED <<own, kept, pairs, press, letter, posted, letGo, bare>>
    BY <1>6 DEF ContactChanges
  <2>2. PgpTypeOK'
    BY <1>6, <2>1 DEF PgpIInv, PgpTypeOK, ContactChanges
  <2>3. LetterStands'
    BY <1>0, <2>1, LetterStays
  <2>4. QED
    BY <2>1, <2>2, <2>3, KeysUntouched DEF PgpIInv
<1>7. CASE UNCHANGED pgpVars
  <2>1. UNCHANGED <<own, kept, pairs, press, onFile, letter, posted, letGo, bare>>
    BY <1>7 DEF pgpVars
  <2>2. PgpTypeOK'
    BY <2>1 DEF PgpIInv, PgpTypeOK
  <2>3. LetterStands'
    BY <1>0, <2>1, LetterStays
  <2>4. QED
    BY <2>1, <2>2, <2>3, KeysUntouched DEF PgpIInv
<1>8. QED
  BY <1>1, <1>2, <1>3, <1>4, <1>5, <1>6, <1>7 DEF PgpNext

\* Every state of the key pair and the letter satisfies the inductive invariant.
THEOREM PgpInvariant == PgpSpec => []PgpIInv
  BY PgpInitIInv, PgpStep, PTL DEF PgpSpec

\* No private half is lost unless its owner gave it up, a row was not written,
\* two windows met (handlers.go:2642, 3147), or the browser held it with no
\* public half on file (handlers.go:2893); what was encrypted can be read by
\* everyone it was addressed to and, unless so lost, by its sender
\* (pgpmail.go:150, 266), for any number of windows, correspondents and pairs.
THEOREM PgpTheorem == PgpSpec => []KeysServe
<1>1. PgpIInv => KeysServe
  <2> SUFFICES ASSUME PgpIInv PROVE KeysServe
    OBVIOUS
  <2>1. posted.sealed => posted.readers = posted.to /\ posted.mine \in 1 .. pairs
    <3>1. posted.mine \in Nat /\ pairs \in Nat
      BY MaxPairAssumption DEF PgpIInv, PgpTypeOK, Posted, Pairs
    <3>2. QED
      BY <3>1 DEF PgpIInv, LetterStands
  <2>2. QED
    BY <2>1 DEF PgpIInv, KeysServe, NothingLostUnasked, EveryoneCanRead
<1>2. QED
  BY <1>1, PgpInvariant, PTL

-----------------------------------------------------------------------------
(* SentScan: a file of one's own, and a count that is honest.               *)

\* A file that is open is its opener's, and a press works on one that is open.
FileHeld ==
    /\ \A b \in opened : fileOwner[fileOf[b]] = b
    /\ \A p \in Presses : scan[p].pc # "rest" => scan[p].box \in opened

\* What a press has passed without counting it as left is on record.
Counted ==
    \A p \in Presses :
        /\ scan[p].at >= 1
        /\ scan[p].pc \in {"rest", "list", "read"} => scan[p].at = 1
        /\ scan[p].pc \in {"each", "record"} => scan[p].already \subseteq DOMAIN scanned[File(p)]
        /\ scan[p].pc = "record" => /\ scan[p].at <= Len(scan[p].list)
                                    /\ scan[p].ok \/ scan[p].found = 0
        /\ scan[p].pc = "told" => scan[p].at > Len(scan[p].list)
        /\ scan[p].pc \in {"each", "record", "told"} /\ scan[p].left = 0
              => \A i \in 1 .. Len(scan[p].list) :
                    i < scan[p].at => scan[p].list[i] \in DOMAIN scanned[File(p)]

ScanIInv == ScanTypeOK /\ FileHeld /\ Counted /\ FileIsOnesOwn /\ FindingsMatch

LEMMA NoScanIsScan ==
    /\ NoScan \in Scan
    /\ \A b \in Box : [NoScan EXCEPT !.pc = "list", !.box = b] \in Scan
<1>1. << >> \in Seq(MessageId)
  OBVIOUS
<1>2. FALSE \in BOOLEAN /\ 0 \in 0 .. MaxFound /\ 1 \in Nat /\ 0 \in Nat
  BY ScanBounds
<1>3. NoScan \in Scan
  BY <1>1, <1>2, ZenonT(30) DEF NoScan, Scan
<1>4. ASSUME NEW b \in Box PROVE [NoScan EXCEPT !.pc = "list", !.box = b] \in Scan
  BY <1>3, ZenonT(30) DEF Scan
<1>5. QED
  BY <1>3, <1>4

\* What a step writes in a press is a press.
LEMMA StillScan ==
    ASSUME NEW s \in Scan
    PROVE  /\ \A l \in Seq(MessageId) : [s EXCEPT !.pc = "read", !.list = l] \in Scan
           /\ \A d \in SUBSET MessageId : [s EXCEPT !.pc = "each", !.already = d] \in Scan
           /\ \A n \in Nat : [s EXCEPT !.at = n] \in Scan
           /\ \A n, k \in Nat : [s EXCEPT !.at = n, !.late = TRUE, !.left = k] \in Scan
           /\ \A ok \in BOOLEAN, n \in 0 .. MaxFound :
                 [s EXCEPT !.pc = "record", !.ok = ok, !.found = n] \in Scan
           /\ \A n \in Nat : 
                 [s EXCEPT !.pc = "each", !.at = n, !.ok = FALSE, !.found = 0] \in Scan
           /\ [s EXCEPT !.pc = "told"] \in Scan
<1>0. 0 \in 0 .. MaxFound
  BY ScanBounds
<1>1. \A l \in Seq(MessageId) : [s EXCEPT !.pc = "read", !.list = l] \in Scan
  BY ZenonT(30) DEF Scan
<1>2. \A d \in SUBSET MessageId : [s EXCEPT !.pc = "each", !.already = d] \in Scan
  BY ZenonT(30) DEF Scan
<1>3. \A n \in Nat : [s EXCEPT !.at = n] \in Scan
  BY ZenonT(30) DEF Scan
<1>4. \A n, k \in Nat : [s EXCEPT !.at = n, !.late = TRUE, !.left = k] \in Scan
  BY ZenonT(30) DEF Scan
<1>5. \A ok \in BOOLEAN, n \in 0 .. MaxFound :
         [s EXCEPT !.pc = "record", !.ok = ok, !.found = n] \in Scan
  BY ZenonT(30) DEF Scan
<1>6. \A n \in Nat : 
         [s EXCEPT !.pc = "each", !.at = n, !.ok = FALSE, !.found = 0] \in Scan
  BY <1>0, ZenonT(30) DEF Scan
<1>7. [s EXCEPT !.pc = "told"] \in Scan
  BY ZenonT(30) DEF Scan
<1>8. QED
  BY <1>1, <1>2, <1>3, <1>4, <1>5, <1>6, <1>7

LEMMA ScanInitIInv == ScanInit => ScanIInv
<1> SUFFICES ASSUME ScanInit PROVE ScanIInv
  OBVIOUS
<1>1. \A b \in Box : fileOf[b] \in Box
  BY DEF ScanInit
<1>2. ScanTypeOK
  <2>1. fileOf \in [Box -> Box]
    BY DEF ScanInit
  <2>2. fileOwner \in [Box -> Box \union {NoOwner}] /\ opened \subseteq Box
    BY DEF ScanInit
  <2>3. /\ DOMAIN scanned = Box
        /\ \A f \in Box : DOMAIN scanned[f] = {}
    BY DEF ScanInit
  <2>4. \A f \in Box : Range(scanned[f]) = {}
    BY <2>3 DEF Range
  <2>5. sentMail \in [Box -> Seq(MessageId)]
    BY DEF ScanInit
  <2>6. scan \in [Presses -> Scan]
    BY NoScanIsScan DEF ScanInit
  <2>7. QED
    BY <2>1, <2>2, <2>3, <2>4, <2>5, <2>6 DEF ScanTypeOK
<1>3. FileHeld /\ Counted
  BY DEF ScanInit, NoScan, FileHeld, Counted
<1>4. FileIsOnesOwn /\ FindingsMatch
  BY DEF ScanInit, FileIsOnesOwn, FindingsMatch, Range
<1>5. QED
  BY <1>2, <1>3, <1>4 DEF ScanIInv

\* What Record leaves on file.
Recorded(p, row) ==
    /\ DOMAIN scanned' = DOMAIN scanned
    /\ \A f \in Box : f # File(p) => scanned'[f] = scanned[f]
    /\ DOMAIN scanned'[File(p)] = DOMAIN scanned[File(p)] \union {Next1(p)}
    /\ \A i \in DOMAIN scanned'[File(p)] :
          scanned'[File(p)][i] = IF i = Next1(p) THEN row ELSE scanned[File(p)][i]

\* What a recorded row leaves on file, row by row.
LEMMA RecordedRow ==
    ASSUME ScanIInv, NEW p \in Presses, Record(p)
    PROVE  \E row \in ScanRow :
              /\ row.of = scan[p].box /\ row.qa = row.found
              /\ row.ok \/ row.qa = 0
              /\ Recorded(p, row)
<1>1. /\ scan[p] \in Scan /\ scan[p].box \in opened /\ opened \subseteq Box
      /\ fileOf \in [Box -> Box] /\ DOMAIN scanned = Box
  BY DEF ScanIInv, ScanTypeOK, FileHeld, Record
<1>2. scan[p].ok \in BOOLEAN /\ scan[p].found \in 0 .. MaxFound /\ scan[p].box \in Box
  BY <1>1 DEF Scan
<1>3. scan[p].ok \/ scan[p].found = 0
  BY DEF ScanIInv, Counted, Record
<1> DEFINE row == [ok |-> scan[p].ok, found |-> scan[p].found,
                   qa |-> scan[p].found, of |-> scan[p].box]
<1>4. scan[p].found \in 0 .. 2 * MaxFound
  BY <1>2, ScanBounds
<1>5. row \in ScanRow
  BY <1>2, <1>4 DEF ScanRow
<1>6. scanned' = [scanned EXCEPT
         ![File(p)] = [i \in DOMAIN scanned[File(p)] \union {Next1(p)} |->
                          IF i = Next1(p) THEN row ELSE scanned[File(p)][i]]]
  BY DEF Record, Replacing
<1>7. File(p) \in Box
  BY <1>1, <1>2 DEF File
<1> HIDE DEF row
<1>8. Recorded(p, row)
  BY <1>1, <1>6, <1>7 DEF Recorded
<1>9. row.of = scan[p].box /\ row.qa = row.found /\ (row.ok \/ row.qa = 0)
  BY <1>3 DEF row
<1>10. QED
  BY <1>5, <1>8, <1>9

LEMMA ScanTypeStep == ScanIInv /\ [ScanNext]_scanVars => ScanTypeOK'
<1> SUFFICES ASSUME ScanIInv, [ScanNext]_scanVars PROVE ScanTypeOK'
  OBVIOUS
<1>0. ScanTypeOK
  BY DEF ScanIInv
<1>1. ASSUME NEW p \in Presses, NEW b \in Box, StartScan(p, b)
      PROVE  ScanTypeOK'
  <2>1. [NoScan EXCEPT !.pc = "list", !.box = b] \in Scan
    BY NoScanIsScan
  <2>2. scan' \in [Presses -> Scan]
    BY <1>0, <1>1, <2>1 DEF StartScan, ScanTypeOK
  <2>3. fileOwner' \in [Box -> Box \union {NoOwner}]
    BY <1>0, <1>1 DEF StartScan, ScanTypeOK
  <2>4. QED
    BY <1>0, <1>1, <2>2, <2>3 DEF StartScan, ScanTypeOK
<1>2. ASSUME NEW p \in Presses, scan' \in [Presses -> Scan],
             UNCHANGED <<fileOf, fileOwner, scanned, opened, sentMail>>
      PROVE  ScanTypeOK'
  BY <1>0, <1>2 DEF ScanTypeOK
<1>3. ASSUME NEW p \in Presses, ListPage(p)
      PROVE  ScanTypeOK'
  <2> DEFINE all == sentMail[scan[p].box]
             l == SubSeq(all, 1, IF Len(all) < ScanLimit THEN Len(all) ELSE ScanLimit)
  <2>1. scan[p] \in Scan /\ scan[p].box \in Box
    BY <1>0, <1>3 DEF ScanIInv, ScanTypeOK, FileHeld, ListPage
  <2>2. all \in Seq(MessageId)
    BY <1>0, <2>1 DEF ScanTypeOK
  <2>3. l \in Seq(MessageId)
    <3> HIDE DEF all
    <3> QED
      BY <2>2, ScanBounds
  <2>4. [scan[p] EXCEPT !.pc = "read", !.list = l] \in Scan
    BY <2>1, <2>3, StillScan
  <2>5. scan' = [scan EXCEPT ![p] = [scan[p] EXCEPT !.pc = "read", !.list = l]]
    BY <1>3 DEF ListPage
  <2>6. scan' \in [Presses -> Scan]
    BY <1>0, <2>4, <2>5 DEF ScanTypeOK
  <2>7. QED
    BY <1>2, <1>3, <2>6 DEF ListPage
<1>4. ASSUME NEW p \in Presses, ReadAlready(p)
      PROVE  ScanTypeOK'
  <2> DEFINE d == Range(scan[p].list) \intersect DOMAIN scanned[File(p)]
  <2>1. scan[p] \in Scan /\ scan[p].box \in Box
    BY <1>0, <1>4 DEF ScanIInv, ScanTypeOK, FileHeld, ReadAlready
  <2>2. d \in SUBSET MessageId
    BY <1>0, <2>1 DEF ScanTypeOK, File
  <2>3. [scan[p] EXCEPT !.pc = "each", !.already = d] \in Scan
    BY <2>1, <2>2, StillScan
  <2>4. scan' = [scan EXCEPT ![p] = [scan[p] EXCEPT !.pc = "each", !.already = d]]
    BY <1>4 DEF ReadAlready
  <2>5. scan' \in [Presses -> Scan]
    BY <1>0, <2>3, <2>4 DEF ScanTypeOK
  <2>6. QED
    BY <1>2, <1>4, <2>5 DEF ReadAlready
<1>5. ASSUME NEW p \in Presses, Fail(p) \/ Done(p)
      PROVE  ScanTypeOK'
  <2>1. scan' \in [Presses -> Scan]
    BY <1>0, <1>5, NoScanIsScan DEF Fail, Done, ScanTypeOK
  <2>2. QED
    BY <1>2, <1>5, <2>1 DEF Fail, Done
<1>6. ASSUME NEW p \in Presses, Pass(p)
      PROVE  ScanTypeOK'
  <2>1. scan[p] \in Scan
    BY <1>0 DEF ScanTypeOK
  <2>2. scan[p].at + 1 \in Nat /\ scan[p].left + StillToDo(p) \in Nat
    BY <2>1 DEF Scan, StillToDo
  <2>3. /\ [scan[p] EXCEPT !.at = scan[p].at + 1] \in Scan
        /\ [scan[p] EXCEPT !.at = scan[p].at + 1, !.late = TRUE,
                           !.left = scan[p].left + StillToDo(p)] \in Scan
    BY <2>1, <2>2, StillScan
  <2>4. \/ scan' = [scan EXCEPT ![p] = [scan[p] EXCEPT !.at = scan[p].at + 1]]
        \/ scan' = [scan EXCEPT ![p] =
              [scan[p] EXCEPT !.at = scan[p].at + 1, !.late = TRUE,
                              !.left = scan[p].left + StillToDo(p)]]
    BY <1>6 DEF Pass
  <2>5. scan' \in [Presses -> Scan]
    BY <1>0, <2>3, <2>4 DEF ScanTypeOK
  <2>6. QED
    BY <1>2, <1>6, <2>5 DEF Pass
<1>7. ASSUME NEW p \in Presses, NEW ok \in BOOLEAN, NEW n \in 0 .. MaxFound, Ask(p, ok, n)
      PROVE  ScanTypeOK'
  <2>1. [scan[p] EXCEPT !.pc = "record", !.ok = ok, !.found = n] \in Scan
    BY <1>0, StillScan DEF ScanTypeOK
  <2>2. scan' = [scan EXCEPT ![p] =
                   [scan[p] EXCEPT !.pc = "record", !.ok = ok, !.found = n]]
    BY <1>7 DEF Ask
  <2>3. scan' \in [Presses -> Scan]
    BY <1>0, <2>1, <2>2 DEF ScanTypeOK
  <2>4. QED
    BY <1>2, <1>7, <2>3 DEF Ask
<1>8. ASSUME NEW p \in Presses, Record(p)
      PROVE  ScanTypeOK'
  <2>1. scan[p] \in Scan /\ scan[p].box \in Box /\ scan[p].at \in 1 .. Len(scan[p].list)
    <3>1. scan[p] \in Scan /\ scan[p].box \in Box
      BY <1>0, <1>8 DEF ScanIInv, ScanTypeOK, FileHeld, Record
    <3>2. scan[p].at \in Nat /\ scan[p].at <= Len(scan[p].list)
      BY <3>1, <1>8 DEF ScanIInv, Counted, Scan, Record
    <3>3. scan[p].at >= 1
      BY <1>8 DEF ScanIInv, Counted, Record
    <3> QED
      BY <3>1, <3>2, <3>3 DEF Scan
  <2>2. Next1(p) \in MessageId
    BY <2>1 DEF Next1, Scan
  <2>3. PICK row \in ScanRow : Recorded(p, row)
    BY <1>8, RecordedRow
  <2>4. File(p) \in Box
    BY <1>0, <2>1 DEF File, ScanTypeOK
  <2>5. ASSUME NEW f \in Box
        PROVE  DOMAIN scanned'[f] \subseteq MessageId /\ Range(scanned'[f]) \subseteq ScanRow
    <3>1. DOMAIN scanned[f] \subseteq MessageId /\ Range(scanned[f]) \subseteq ScanRow
      BY <1>0 DEF ScanTypeOK
    <3>2. CASE f # File(p)
      BY <2>3, <3>1, <3>2 DEF Recorded
    <3>3. CASE f = File(p)
      BY <2>2, <2>3, <3>1, <3>3 DEF Recorded, Range
    <3>4. QED
      BY <3>2, <3>3
  <2>6. [scan[p] EXCEPT !.pc = "each", !.at = scan[p].at + 1, !.ok = FALSE, !.found = 0] \in Scan
    <3>1. scan[p].at + 1 \in Nat
      BY <2>1 DEF Scan
    <3> QED
      BY <2>1, <3>1, StillScan
  <2>7. scan' \in [Presses -> Scan]
    BY <1>0, <1>8, <2>6 DEF ScanTypeOK, Record
  <2>8. QED
    BY <1>0, <1>8, <2>3, <2>5, <2>7 DEF ScanTypeOK, Record, Recorded
<1>9. ASSUME NEW p \in Presses, Told(p)
      PROVE  ScanTypeOK'
  <2>1. [scan[p] EXCEPT !.pc = "told"] \in Scan
    BY <1>0, StillScan DEF ScanTypeOK
  <2>2. scan' \in [Presses -> Scan]
    BY <1>0, <1>9, <2>1 DEF ScanTypeOK, Told
  <2>3. QED
    BY <1>2, <1>9, <2>2 DEF Told
<1>10. ASSUME NEW b \in Box, NEW id \in MessageId, Send(b, id)
       PROVE  ScanTypeOK'
  <2>1. Append(sentMail[b], id) \in Seq(MessageId)
    BY <1>0 DEF ScanTypeOK
  <2>2. sentMail' = [sentMail EXCEPT ![b] = Append(sentMail[b], id)]
    BY <1>10 DEF Send
  <2>3. sentMail' \in [Box -> Seq(MessageId)]
    BY <1>0, <2>1, <2>2 DEF ScanTypeOK
  <2>4. QED
    BY <1>0, <1>10, <2>3 DEF ScanTypeOK, Send
<1>11. CASE ScanRestart
  BY <1>0, <1>11, NoScanIsScan DEF ScanTypeOK, ScanRestart
<1>12. CASE UNCHANGED scanVars
  BY <1>0, <1>12 DEF ScanTypeOK, scanVars
<1>13. QED
  BY <1>1, <1>3, <1>4, <1>5, <1>6, <1>7, <1>8, <1>9, <1>10, <1>11, <1>12 DEF ScanNext

\* An owner stays, and whoever opens a file is or becomes it.
LEMMA OwnerStays ==
    ASSUME ScanTypeOK, FileHeld, NEW p \in Presses, NEW b \in Box, StartScan(p, b)
    PROVE  /\ \A f \in Box : fileOwner[f] # NoOwner => fileOwner'[f] = fileOwner[f]
           /\ b \in opened' => fileOwner'[fileOf[b]] = b
<1>1. /\ fileOf \in [Box -> Box] /\ fileOwner \in [Box -> Box \union {NoOwner}]
      /\ fileOf[b] \in Box
  BY DEF ScanTypeOK
<1>2. b \in opened => fileOwner[fileOf[b]] = b
  BY DEF FileHeld
<1>3. CASE b \in opened \/ FileIsOwn(b)
  <2>1. fileOwner[fileOf[b]] \in {NoOwner, b}
    BY <1>2, <1>3 DEF FileIsOwn
  <2>2. fileOwner' = [fileOwner EXCEPT ![fileOf[b]] =
                         IF fileOwner[fileOf[b]] = NoOwner THEN b ELSE fileOwner[fileOf[b]]]
    BY <1>3 DEF StartScan
  <2>3. QED
    BY <1>1, <2>1, <2>2
<1>4. CASE ~ (b \in opened \/ FileIsOwn(b))
  BY <1>2, <1>4 DEF StartScan
<1>5. QED
  BY <1>3, <1>4

LEMMA FileHeldStep == ScanIInv /\ [ScanNext]_scanVars => FileHeld'
<1> SUFFICES ASSUME ScanIInv, [ScanNext]_scanVars PROVE FileHeld'
  OBVIOUS
<1>0. ScanTypeOK /\ FileHeld
  BY DEF ScanIInv
<1>1. ASSUME NEW p \in Presses, NEW b \in Box, StartScan(p, b)
      PROVE  FileHeld'
  <2>1. ASSUME NEW c \in opened' PROVE fileOwner'[fileOf'[c]] = c
    <3>1. fileOf' = fileOf
      BY <1>1 DEF StartScan
    <3>2. CASE c = b
      BY <1>0, <1>1, <2>1, <3>1, <3>2, OwnerStays
    <3>3. CASE c # b
      <4>1. c \in opened
        BY <1>1, <2>1, <3>3 DEF StartScan
      <4>2. fileOwner[fileOf[c]] = c /\ c \in Box /\ fileOf[c] \in Box /\ c # NoOwner
        BY <1>0, <4>1, NoOwnerAssumption DEF FileHeld, ScanTypeOK
      <4>3. QED
        BY <1>0, <1>1, <3>1, <4>2, OwnerStays
    <3>4. QED
      BY <3>2, <3>3
  <2>2. ASSUME NEW q \in Presses, scan'[q].pc # "rest" PROVE scan'[q].box \in opened'
    BY <1>0, <1>1, <2>2 DEF StartScan, FileHeld, ScanTypeOK, NoScan
  <2>3. QED
    BY <2>1, <2>2 DEF FileHeld
<1>2. CASE UNCHANGED <<fileOf, fileOwner, opened>> /\ 
           \A q \in Presses : scan'[q].pc # "rest" =>
                               scan[q].pc # "rest" /\ scan'[q].box = scan[q].box
  BY <1>0, <1>2 DEF FileHeld
<1>3. ASSUME NEW p \in Presses, ListPage(p) \/ ReadAlready(p) \/ Pass(p) \/ Told(p)
                                  \/ Record(p) \/ Fail(p) \/ Done(p)
      PROVE  FileHeld'
  <2>1. \A q \in Presses : scan'[q].pc # "rest" =>
                               scan[q].pc # "rest" /\ scan'[q].box = scan[q].box
    <3>1. CASE ListPage(p) \/ ReadAlready(p) \/ Told(p)
      <4>1. CASE ListPage(p)
        BY <1>0, <4>1 DEF ListPage, ScanTypeOK
      <4>2. CASE ReadAlready(p)
        BY <1>0, <4>2 DEF ReadAlready, ScanTypeOK
      <4>3. CASE Told(p)
        BY <1>0, <4>3 DEF Told, ScanTypeOK
      <4>4. QED
        BY <3>1, <4>1, <4>2, <4>3
    <3>2. CASE Pass(p)
      <4>1. scan[p] \in Scan
        BY <1>0 DEF ScanTypeOK
      <4>2. scan[p].pc # "rest" /\ \A q \in Presses \ {p} : scan'[q] = scan[q]
        BY <1>0, <3>2 DEF Pass, ScanTypeOK
      <4>3. scan'[p].box = scan[p].box
        BY <1>0, <3>2, <4>1 DEF Pass, ScanTypeOK, Scan
      <4>4. QED
        BY <4>2, <4>3
    <3>3. CASE Record(p)
      BY <1>0, <3>3 DEF Record, ScanTypeOK
    <3>4. CASE Fail(p) \/ Done(p)
      BY <1>0, <3>4 DEF Fail, Done, NoScan, ScanTypeOK
    <3>5. QED
      BY <1>3, <3>1, <3>2, <3>3, <3>4
  <2>2. UNCHANGED <<fileOf, fileOwner, opened>>
    BY <1>3 DEF ListPage, ReadAlready, Pass, Told, Record, Fail, Done
  <2>3. QED
    BY <1>2, <2>1, <2>2
<1>4. ASSUME NEW p \in Presses, NEW ok \in BOOLEAN, NEW n \in 0 .. MaxFound, Ask(p, ok, n)
      PROVE  FileHeld'
  BY <1>0, <1>4 DEF Ask, FileHeld, ScanTypeOK
<1>5. ASSUME NEW b \in Box, NEW id \in MessageId, Send(b, id)
      PROVE  FileHeld'
  BY <1>0, <1>5 DEF Send, FileHeld
<1>6. CASE ScanRestart
  BY <1>6 DEF ScanRestart, FileHeld, NoScan
<1>7. CASE UNCHANGED scanVars
  BY <1>0, <1>7 DEF FileHeld, scanVars
<1>8. QED
  BY <1>1, <1>3, <1>4, <1>5, <1>6, <1>7 DEF ScanNext

\* Rows are one's own, and say what they count, whoever writes them.
LEMMA RowsTellTrue ==
    ScanIInv /\ [ScanNext]_scanVars => FileIsOnesOwn' /\ FindingsMatch'
<1> SUFFICES ASSUME ScanIInv, [ScanNext]_scanVars PROVE FileIsOnesOwn' /\ FindingsMatch'
  OBVIOUS
<1>0. ScanTypeOK /\ FileHeld /\ FileIsOnesOwn /\ FindingsMatch
  BY DEF ScanIInv
<1>1. ASSUME NEW p \in Presses, NEW b \in Box, StartScan(p, b)
      PROVE  FileIsOnesOwn' /\ FindingsMatch'
  <2>1. scanned' = scanned
    BY <1>1 DEF StartScan
  <2>2. ASSUME NEW f \in Box, NEW row \in Range(scanned[f])
        PROVE  row.of = fileOwner'[f]
    <3>1. row.of = fileOwner[f] /\ row.of \in Box
      BY <1>0 DEF FileIsOnesOwn, ScanTypeOK, ScanRow
    <3>2. fileOwner[f] # NoOwner
      BY <3>1, NoOwnerAssumption
    <3>3. QED
      BY <1>0, <1>1, <3>1, <3>2, OwnerStays
  <2>3. QED
    BY <1>0, <2>1, <2>2 DEF FileIsOnesOwn, FindingsMatch
<1>2. ASSUME NEW p \in Presses, Record(p)
      PROVE  FileIsOnesOwn' /\ FindingsMatch'
  <2>1. PICK row \in ScanRow :
          row.of = scan[p].box /\ row.qa = row.found /\ (row.ok \/ row.qa = 0)
            /\ Recorded(p, row)
    BY <1>2, RecordedRow
  <2>2. fileOwner' = fileOwner /\ fileOwner[File(p)] = scan[p].box
    BY <1>0, <1>2 DEF Record, FileHeld, File
  <2>3. ASSUME NEW f \in Box, NEW r \in Range(scanned'[f])
        PROVE  r.of = fileOwner'[f] /\ r.qa = r.found /\ (~ r.ok => r.qa = 0)
    <3>1. CASE r \in Range(scanned[f])
      BY <1>0, <2>2, <3>1 DEF FileIsOnesOwn, FindingsMatch
    <3>2. CASE r \notin Range(scanned[f])
      <4>1. f = File(p) /\ r = row
        BY <2>1, <3>2 DEF Recorded, Range
      <4>2. QED
        BY <2>1, <2>2, <4>1
    <3>3. QED
      BY <3>1, <3>2
  <2>4. QED
    BY <2>3 DEF FileIsOnesOwn, FindingsMatch
<1>3. CASE UNCHANGED <<fileOwner, scanned>>
  BY <1>0, <1>3 DEF FileIsOnesOwn, FindingsMatch
<1>4. \/ UNCHANGED <<fileOwner, scanned>>
      \/ \E p \in Presses : Record(p)
      \/ \E p \in Presses, b \in Box : StartScan(p, b)
  BY DEF ScanNext, scanVars, ListPage, ReadAlready, Pass, Ask, Told, Fail, Done, Send,
         ScanRestart
<1>5. QED
  BY <1>1, <1>2, <1>3, <1>4

\* What a press may count on, of itself and of the file it works on.
CountedFor(s, rows) ==
    /\ s.at >= 1
    /\ s.pc \in {"rest", "list", "read"} => s.at = 1
    /\ s.pc \in {"each", "record"} => s.already \subseteq rows
    /\ s.pc = "record" => s.at <= Len(s.list) /\ (s.ok \/ s.found = 0)
    /\ s.pc = "told" => s.at > Len(s.list)
    /\ s.pc \in {"each", "record", "told"} /\ s.left = 0
          => \A i \in 1 .. Len(s.list) : i < s.at => s.list[i] \in rows

LEMMA CountedIsFor ==
    Counted <=> \A p \in Presses : CountedFor(scan[p], DOMAIN scanned[File(p)])
BY DEF Counted, CountedFor

LEMMA CountedStep == ScanIInv /\ [ScanNext]_scanVars => Counted'
<1> SUFFICES ASSUME ScanIInv, [ScanNext]_scanVars PROVE Counted'
  OBVIOUS
<1>0. /\ ScanTypeOK /\ FileHeld
      /\ \A p \in Presses : CountedFor(scan[p], DOMAIN scanned[File(p)])
  BY CountedIsFor DEF ScanIInv
<1>a. (\A q \in Presses : CountedFor(scan'[q], DOMAIN scanned'[File(q)'])) => Counted'
  BY DEF Counted, CountedFor, File
<1>b. \A R : CountedFor(NoScan, R)
  BY DEF CountedFor, NoScan
<1>c. \A s, R, Q : CountedFor(s, R) /\ R \subseteq Q => CountedFor(s, Q)
  BY DEF CountedFor
<1>d. \A q \in Presses : scan[q] \in Scan
  BY <1>0 DEF ScanTypeOK
<1>1. ASSUME UNCHANGED <<fileOf, scanned>>, scan' \in [Presses -> Scan],
             NEW p \in Presses, \A q \in Presses \ {p} : scan'[q] = scan[q],
             CountedFor(scan'[p], DOMAIN scanned[fileOf[scan'[p].box]])
      PROVE  Counted'
  BY <1>0, <1>1, <1>a DEF File
<1>2. scan' \in [Presses -> Scan]
  BY ScanTypeStep DEF ScanTypeOK
<1>3. ASSUME NEW p \in Presses, NEW b \in Box, StartScan(p, b)
      PROVE  Counted'
  <2>1. UNCHANGED <<fileOf, scanned>> /\ \A q \in Presses \ {p} : scan'[q] = scan[q]
    BY <1>0, <1>3 DEF StartScan, ScanTypeOK
  <2>2. CountedFor(scan'[p], DOMAIN scanned[fileOf[scan'[p].box]])
    <3>1. scan'[p] = scan[p] \/ scan'[p] = [NoScan EXCEPT !.pc = "list", !.box = b]
      BY <1>0, <1>3 DEF StartScan, ScanTypeOK
    <3>2. CASE scan'[p] = scan[p]
      BY <1>0, <3>2 DEF File
    <3>3. CASE scan'[p] = [NoScan EXCEPT !.pc = "list", !.box = b]
      <4>1. scan'[p].pc = "list" /\ scan'[p].at = 1
        BY <3>3 DEF NoScan
      <4>2. QED
        BY <4>1 DEF CountedFor
    <3>4. QED
      BY <3>1, <3>2, <3>3
  <2>3. QED
    BY <1>1, <1>2, <2>1, <2>2
<1>4. ASSUME NEW p \in Presses, ListPage(p) \/ ReadAlready(p) \/ Pass(p) \/ Told(p) 
                                  \/ Fail(p) \/ Done(p)
      PROVE  Counted'
  <2>1. UNCHANGED <<fileOf, scanned>> /\ \A q \in Presses \ {p} : scan'[q] = scan[q]
    BY <1>0, <1>4 DEF ListPage, ReadAlready, Pass, Told, Fail, Done, ScanTypeOK
  <2> DEFINE s == scan[p]
             rows == DOMAIN scanned[File(p)]
  <2>2. s \in Scan /\ CountedFor(s, rows)
    BY <1>0, <1>d
  <2>3. CountedFor(scan'[p], DOMAIN scanned[fileOf[scan'[p].box]])
    <3>1. CASE Fail(p) \/ Done(p)
      BY <1>0, <1>b, <3>1 DEF Fail, Done, ScanTypeOK
    <3>2. CASE ListPage(p)
      <4>1. /\ scan'[p].pc = "read" /\ scan'[p].at = s.at /\ s.at = 1
        BY <1>0, <2>2, <3>2 DEF ListPage, ScanTypeOK, CountedFor
      <4>2. QED
        BY <4>1 DEF CountedFor
    <3>3. CASE ReadAlready(p)
      <4>1. /\ scan'[p].pc = "each" /\ scan'[p].at = s.at /\ s.at = 1
            /\ scan'[p].already \subseteq rows /\ scan'[p].list = s.list
            /\ scan'[p].box = s.box
        BY <1>0, <2>2, <3>3 DEF ReadAlready, ScanTypeOK, CountedFor
      <4>2. QED
        BY <4>1 DEF CountedFor, File
    <3>4. CASE Pass(p)
      <4>0. \/ /\ scan'[p] = [s EXCEPT !.at = s.at + 1]
               /\ s.list[s.at] \in s.already
            \/ scan'[p] = [s EXCEPT !.at = s.at + 1, !.late = TRUE, !.left = s.left + 1]
        BY <1>0, <3>4 DEF Pass, ScanTypeOK, Next1, StillToDo
      <4>a. s.pc = "each"
        BY <3>4 DEF Pass
      <4>1. /\ scan'[p].pc = "each" /\ scan'[p].at = s.at + 1
            /\ scan'[p].already = s.already /\ scan'[p].list = s.list
            /\ scan'[p].box = s.box
        <5> HIDE DEF s
        <5> QED
          BY <2>2, <4>0, <4>a DEF Scan
      <4>2. \/ scan'[p].left = s.left /\ s.list[s.at] \in s.already
            \/ scan'[p].left = s.left + 1
        <5> HIDE DEF s
        <5> QED
          BY <2>2, <4>0 DEF Scan
      <4>3. s.left \in Nat /\ s.at \in Nat
        BY <2>2 DEF Scan
      <4>4. CASE scan'[p].left = s.left + 1
        <5>1. scan'[p].left # 0 /\ scan'[p].at >= 1
          BY <4>1, <4>3, <4>4
        <5>2. CountedFor(scan'[p], rows) /\ fileOf[scan'[p].box] = File(p)
          BY <2>2, <4>1, <4>a, <5>1 DEF CountedFor, File
        <5>3. QED
          BY <5>2
      <4>5. CASE scan'[p].left = s.left /\ s.list[s.at] \in s.already
        <5>1. CountedFor(scan'[p], rows)
          <6> HIDE DEF s, rows
          <6>1. s.list[s.at] \in rows
            BY <2>2, <4>5, <4>a DEF CountedFor
          <6>2. scan'[p].at >= 1
            BY <4>1, <4>3
          <6>3. \A i \in 1 .. Len(s.list) : i < s.at + 1 => i < s.at \/ i = s.at
            BY <4>3
          <6>4. QED
            BY <2>2, <4>1, <4>5, <4>a, <6>1, <6>2, <6>3 DEF CountedFor
        <5>2. QED
          BY <4>1, <5>1 DEF File
      <4>6. QED
        BY <4>2, <4>4, <4>5
    <3>5. CASE Told(p)
      <4>1. /\ scan'[p].pc = "told" /\ s.pc = "each" /\ scan'[p].at = s.at
            /\ scan'[p].left = s.left /\ scan'[p].list = s.list
            /\ scan'[p].box = s.box /\ s.at > Len(s.list)
        BY <1>0, <3>5 DEF Told, ScanTypeOK
      <4>2. QED
        BY <2>2, <4>1 DEF CountedFor, File
    <3>6. QED
      BY <1>4, <3>1, <3>2, <3>3, <3>4, <3>5
  <2>4. QED
    BY <1>1, <1>2, <2>1, <2>3
<1>5. ASSUME NEW p \in Presses, NEW ok \in BOOLEAN, NEW n \in 0 .. MaxFound, Ask(p, ok, n)
      PROVE  Counted'
  <2>1. UNCHANGED <<fileOf, scanned>> /\ \A q \in Presses \ {p} : scan'[q] = scan[q]
    BY <1>0, <1>5 DEF Ask, ScanTypeOK
  <2> DEFINE s == scan[p]
             rows == DOMAIN scanned[File(p)]
  <2>2. s \in Scan /\ CountedFor(s, rows)
    BY <1>0, <1>d
  <2>3. /\ scan'[p].pc = "record" /\ s.pc = "each" /\ scan'[p].at = s.at
        /\ scan'[p].already = s.already /\ scan'[p].list = s.list
        /\ scan'[p].box = s.box /\ scan'[p].left = s.left /\ s.at <= Len(s.list)
        /\ scan'[p].ok = ok /\ scan'[p].found = n /\ (~ ok => n = 0)
    BY <1>0, <1>5 DEF Ask, ScanTypeOK
  <2>4. CountedFor(scan'[p], DOMAIN scanned[fileOf[scan'[p].box]])
    BY <2>2, <2>3 DEF CountedFor, File
  <2>5. QED
    BY <1>1, <1>2, <2>1, <2>4
<1>6. ASSUME NEW p \in Presses, Record(p)
      PROVE  Counted'
  <2>1. PICK row \in ScanRow : Recorded(p, row)
    BY <1>6, RecordedRow
  <2>2. fileOf' = fileOf /\ \A q \in Presses \ {p} : scan'[q] = scan[q]
    BY <1>0, <1>6 DEF Record, ScanTypeOK
  <2>3. \A f \in Box : DOMAIN scanned[f] \subseteq DOMAIN scanned'[f]
    BY <2>1 DEF Recorded
  <2>4. ASSUME NEW q \in Presses, q # p
        PROVE  CountedFor(scan'[q], DOMAIN scanned'[File(q)'])
    <3>1. File(q)' = File(q)
      BY <2>2, <2>4 DEF File
    <3>2. CASE scan[q].pc = "rest"
      BY <1>0, <2>2, <2>4, <3>1, <3>2 DEF CountedFor
    <3>3. CASE scan[q].pc # "rest"
      <4>1. File(q) \in Box
        BY <1>0, <3>3 DEF FileHeld, ScanTypeOK, File
      <4>2. QED
        BY <1>0, <1>c, <2>2, <2>3, <2>4, <3>1, <4>1
    <3>4. QED
      BY <3>2, <3>3
  <2> DEFINE s == scan[p]
             rows == DOMAIN scanned[File(p)]
  <2>5. s \in Scan /\ CountedFor(s, rows)
    BY <1>0, <1>d
  <2>6. /\ scan'[p].pc = "each" /\ s.pc = "record" /\ scan'[p].at = s.at + 1
        /\ scan'[p].already = s.already /\ scan'[p].list = s.list
        /\ scan'[p].box = s.box /\ scan'[p].left = s.left
    BY <1>0, <1>6 DEF Record, ScanTypeOK
  <2>7. DOMAIN scanned'[File(p)'] = rows \union {s.list[s.at]}
    BY <2>1, <2>2, <2>6 DEF Recorded, File, Next1
  <2>8. s.at \in Nat
    BY <2>5 DEF Scan
  <2>9. CountedFor(scan'[p], rows \union {s.list[s.at]})
    <3> HIDE DEF s, rows
    <3>1. scan'[p].at >= 1
      BY <2>6, <2>8
    <3>2. \A i \in 1 .. Len(s.list) : i < s.at + 1 => i < s.at \/ i = s.at
      BY <2>8
    <3> QED
      BY <2>5, <2>6, <2>8, <3>1, <3>2 DEF CountedFor
  <2>10. QED
    BY <1>a, <2>4, <2>7, <2>9
<1>7. ASSUME NEW b \in Box, NEW id \in MessageId, Send(b, id)
      PROVE  Counted'
  BY <1>0, <1>7, <1>a DEF Send, File
<1>8. CASE ScanRestart
  BY <1>8, <1>a, <1>b DEF ScanRestart
<1>9. CASE UNCHANGED scanVars
  BY <1>0, <1>9, <1>a DEF File, scanVars
<1>10. QED
  BY <1>3, <1>4, <1>5, <1>6, <1>7, <1>8, <1>9 DEF ScanNext

\* Every state a scan reaches satisfies the inductive invariant.
THEOREM ScanInvariant == ScanSpec => []ScanIInv
<1>1. ScanIInv /\ [ScanNext]_scanVars => ScanIInv'
  BY ScanTypeStep, FileHeldStep, RowsTellTrue, CountedStep DEF ScanIInv
<1>2. QED
  BY <1>1, ScanInitIInv, PTL DEF ScanSpec

\* Every press that says nothing is left has an answer on record for all that it
\* listed, every row is of its file's owner's message, and every row counts the
\* findings there are (handlers.go:3259, ollamascan_store.go:66), for any number
\* of presses at once and whatever is sent, deleted or restarted meanwhile.
THEOREM ScanTheorem == ScanSpec => []ScanTellsTrue
<1>1. ScanIInv => ScanTellsTrue
  <2> SUFFICES ASSUME ScanIInv, NEW p \in Presses, scan[p].pc = "told", scan[p].left = 0
               PROVE  Range(scan[p].list) \subseteq DOMAIN scanned[File(p)]
    BY DEF ScanIInv, ScanTellsTrue, NothingLeftIsSo
  <2>1. scan[p].at > Len(scan[p].list)
    BY DEF ScanIInv, Counted
  <2>2. scan[p].list \in Seq(MessageId) /\ scan[p].at \in Nat
    BY DEF ScanIInv, ScanTypeOK, Scan
  <2>3. \A i \in 1 .. Len(scan[p].list) :
           i < scan[p].at => scan[p].list[i] \in DOMAIN scanned[File(p)]
    BY DEF ScanIInv, Counted
  <2>4. \A i \in DOMAIN scan[p].list : i \in 1 .. Len(scan[p].list) /\ i < scan[p].at
    BY <2>1, <2>2
  <2>5. QED
    BY <2>3, <2>4 DEF Range
<1>2. QED
  BY <1>1, ScanInvariant, PTL

-----------------------------------------------------------------------------
(* Folders: what the pool remembers of its connection.                      *)

\* The folder remembered is the one that is open, unless somebody moved it.
Serves(c, on, moved) ==
    /\ c.at # Nowhere /\ c.open # Nowhere /\ moved = {}
          => c.at \in DOMAIN on /\ c.open = on[c.at]
    /\ c.examined => c.readOnly

MemoryServes == Serves(conn, holds, stirred)

\* What was made here is there, and subscribed to.
MadeStands == made \subseteq Present \intersect subs

AskedOfPaths == \A h \in Hand : asked[h].op # "no" => asked[h].path \in Path

FoldersIInv == FoldersTypeOK /\ MemoryServes /\ MadeStands /\ AskedOfPaths /\ RightFolder

\* A folder that is where it was.
Stays(h, q) == q \in DOMAIN h /\ h[q] = holds[q]

Placed(h) == \E P \in SUBSET Path : Inbox \in P /\ h \in [P -> Mbox]

\* Folders that are placed are a function on some of the paths.
LEMMA PlacedHolds ==
    ASSUME Placed(holds)
    PROVE  Present \subseteq Path /\ Inbox \in Present /\ holds \in [Present -> Mbox]
BY DEF Placed, Present

LEMMA PutAtStays ==
    ASSUME Placed(holds), NEW p \in Path, p \notin Present, NEW b \in Mbox
    PROVE  Placed(PutAt(p, b)) /\ \A q \in Present : Stays(PutAt(p, b), q)
<1>1. Present \union {p} \in SUBSET Path /\ Inbox \in Present \union {p}
  BY PlacedHolds
<1>2. PutAt(p, b) \in [Present \union {p} -> Mbox]
  BY PlacedHolds DEF PutAt
<1>3. \A q \in Present : Stays(PutAt(p, b), q)
  BY DEF PutAt, Stays
<1>4. QED
  BY <1>1, <1>2, <1>3 DEF Placed

LEMMA GoneStays ==
    ASSUME Placed(holds), NEW p, p # Inbox
    PROVE  Placed(Gone(p)) /\ \A q \in Present \ {p} : Stays(Gone(p), q)
<1>1. Present \ {p} \in SUBSET Path /\ Inbox \in Present \ {p}
  BY PlacedHolds
<1>2. Gone(p) \in [Present \ {p} -> Mbox]
  BY PlacedHolds DEF Gone
<1>3. \A q \in Present \ {p} : Stays(Gone(p), q)
  BY DEF Gone, Stays
<1>4. QED
  BY <1>1, <1>2, <1>3 DEF Placed

\* A rename takes its folder and those below it, which INBOX is not, to places
\* that were free, and leaves the rest.
LEMMA RenamedStays ==
    ASSUME Placed(holds), NEW p \in Path, p # Inbox, NEW to, MayRename(p, to)
    PROVE  /\ Placed(Renamed(p, to))
           /\ \A q \in Present : q # p /\ ~ Under(p, q) => Stays(Renamed(p, to), q)
<1> DEFINE moving == {q \in Present : q = p \/ Under(p, q)}
           landed == {Moved(p, q, to) : q \in moving}
           from(q) == CHOOSE s \in moving : Moved(p, s, to) = q
           P == (Present \ moving) \union landed
<1>1. Present \subseteq Path /\ Inbox \in Present /\ holds \in [Present -> Mbox]
  BY PlacedHolds
<1>2. \A q \in moving : Moved(p, q, to) \in Path \ Present
  BY DEF MayRename
<1>3. ~ Under(p, Inbox)
  BY PathAssumption DEF Under
<1>4. Inbox \notin moving
  BY <1>3
<1>5. landed \subseteq Path \ Present
  BY <1>2
<1>6. P \in SUBSET Path /\ Inbox \in P
  BY <1>1, <1>4, <1>5
<1>7. ASSUME NEW q \in landed PROVE holds[from(q)] \in Mbox
  <2>1. \E s \in moving : Moved(p, s, to) = q
    OBVIOUS
  <2>2. from(q) \in moving
    BY <2>1
  <2>3. QED
    BY <1>1, <2>2
<1>8. Renamed(p, to) = [q \in P |-> IF q \in landed THEN holds[from(q)] ELSE holds[q]]
  BY DEF Renamed
<1>9. \A q \in P \ landed : holds[q] \in Mbox
  BY <1>1
<1> HIDE DEF moving, landed, from, P
<1>10. Renamed(p, to) \in [P -> Mbox]
  BY <1>7, <1>8, <1>9
<1>11. ASSUME NEW q \in Present, q # p, ~ Under(p, q) PROVE Stays(Renamed(p, to), q)
  <2>1. q \in P /\ q \notin landed
    BY <1>5, <1>11 DEF P, moving
  <2>2. QED
    BY <1>8, <2>1 DEF Stays
<1>12. QED
  BY <1>6, <1>10, <1>11 DEF Placed

LEMMA NoConnIsConnection ==
    NoConn \in Connection /\ [NoConn EXCEPT !.live = TRUE] \in Connection
BY DEF NoConn, Connection

\* The connection a command runs on: the one there is, or one with nothing open.
LEMMA LiveIs ==
    ASSUME conn \in Connection
    PROVE  /\ Live \in Connection
           /\ \/ Live = conn
              \/ Live.at = Nowhere /\ Live.open = Nowhere /\ ~ Live.examined
<1>1. CASE conn.live
  BY <1>1 DEF Live
<1>2. CASE ~ conn.live
  BY <1>2, NoConnIsConnection DEF Live, NoConn
<1>3. QED
  BY <1>1, <1>2

\* The connection a command runs on remembers the folder that is open.
LEMMA LiveServes ==
    ASSUME conn \in Connection, MemoryServes
    PROVE  Serves(Live, holds, stirred)
BY LiveIs DEF MemoryServes, Serves

\* The folder remembered is forgotten where it is the one that goes.
LEMMA ForgetsIs ==
    ASSUME conn \in Connection, NEW p
    PROVE  /\ Forgets(p) \in Connection
           /\ Forgets(p).at = IF Live.at = p THEN Nowhere ELSE Live.at
           /\ Forgets(p).open = Live.open /\ Forgets(p).examined = Live.examined
           /\ Forgets(p).readOnly = Live.readOnly
<1>1. Live \in Connection
  BY LiveIs
<1>2. Forgets(p) = [Live EXCEPT !.at = IF Live.at = p THEN Nowhere ELSE Live.at]
  BY DEF Forgets
<1> HIDE DEF Live
<1>3. QED
  BY <1>1, <1>2 DEF Connection

\* A connection whose folder was closed is a connection.
LEMMA ClosedOnIs ==
    ASSUME NEW c \in Connection, NEW p
    PROVE  /\ ClosedOn(c, p) \in Connection /\ ClosedOn(c, p).at = c.at
           /\ ClosedOn(c, p).open = IF c.open = holds[p] THEN Nowhere ELSE c.open
           /\ ClosedOn(c, p).examined = c.examined /\ ClosedOn(c, p).readOnly = c.readOnly
<1>1. ClosedOn(c, p) = [c EXCEPT !.open = IF c.open = holds[p] THEN Nowhere ELSE c.open]
  BY DEF ClosedOn
<1>2. QED
  BY <1>1 DEF Connection

LEMMA FoldersInitIInv == FoldersInit => FoldersIInv
<1> SUFFICES ASSUME FoldersInit PROVE FoldersIInv
  OBVIOUS
<1>1. 1 \in Mbox
  BY MaxMboxAssumption DEF Mbox
<1>2. {Inbox} \in SUBSET Path /\ holds \in [{Inbox} -> Mbox]
  BY <1>1, PathAssumption DEF FoldersInit
<1>3. \A h \in Hand : asked[h] = Nobody
  BY DEF FoldersInit
<1>4. asked \in [Hand -> Change]
  BY DEF FoldersInit, Nobody, Change
<1>5. conn = NoConn /\ ran = NoCommand /\ stirred = {} /\ made = {} /\ subs = {}
  BY DEF FoldersInit
<1>6. NoCommand \in FolderCommand
  BY DEF NoCommand, FolderCommand
<1>7. FoldersTypeOK
  BY <1>2, <1>4, <1>5, <1>6, NoConnIsConnection DEF FoldersTypeOK
<1>8. MemoryServes /\ MadeStands /\ RightFolder
  BY <1>5 DEF MemoryServes, Serves, MadeStands, RightFolder, NoConn
<1>9. AskedOfPaths
  BY <1>3 DEF AskedOfPaths, Nobody
<1>10. QED
  BY <1>7, <1>8, <1>9 DEF FoldersIInv

\* A step that runs no command of a closure is right about it.
LEMMA NothingRan ==
    ASSUME FoldersIInv, ran' = NoCommand,
           Placed(holds'), subs' \subseteq Path, conn' \in Connection,
           asked' \in [Hand -> Change], AskedOfPaths',
           stirred' \subseteq {"others", "parent"}, made' \subseteq Path,
           Serves(conn', holds', stirred'), made' \subseteq DOMAIN holds' \intersect subs'
    PROVE  FoldersIInv'
<1>1. NoCommand \in FolderCommand
  BY DEF NoCommand, FolderCommand
<1>2. FoldersTypeOK'
  BY <1>1 DEF FoldersTypeOK, Placed, Mbox
<1>3. RightFolder'
  BY DEF RightFolder, NoCommand
<1>4. QED
  BY <1>2, <1>3 DEF FoldersIInv, MemoryServes, MadeStands, Present, Serves

LEMMA FoldersStep == FoldersIInv /\ [FoldersNext]_folderVars => FoldersIInv'
<1> SUFFICES ASSUME FoldersIInv, [FoldersNext]_folderVars PROVE FoldersIInv'
  OBVIOUS
<1>0. /\ Placed(holds) /\ subs \subseteq Path /\ conn \in Connection
      /\ asked \in [Hand -> Change] /\ AskedOfPaths
      /\ stirred \subseteq {"others", "parent"} /\ made \subseteq Path
      /\ Serves(conn, holds, stirred) /\ made \subseteq Present \intersect subs
  BY DEF FoldersIInv, FoldersTypeOK, MemoryServes, MadeStands, Placed, Mbox
<1>a. UNCHANGED asked => AskedOfPaths'
  BY <1>0 DEF AskedOfPaths
<1>b. ASSUME NEW h \in Hand, Settle(h)
      PROVE  asked' \in [Hand -> Change] /\ AskedOfPaths'
  <2>1. Nobody \in Change
    BY DEF Nobody, Change
  <2>2. QED
    BY <1>0, <1>b, <2>1 DEF Settle, AskedOfPaths, Nobody
<1>l. Live \in Connection /\ Serves(Live, holds, stirred)
  BY <1>0, LiveIs, LiveServes DEF MemoryServes
<1>p. /\ Present \subseteq Path /\ Inbox \in Present /\ holds \in [Present -> Mbox]
      /\ Present = DOMAIN holds
  BY <1>0, PlacedHolds DEF Present
<1> HIDE DEF Live
<1>1. CASE Lose
  <2>1. Serves(NoConn, holds, {})
    BY DEF Serves, NoConn
  <2>2. QED
    BY <1>0, <1>1, <1>a, <1>p, <2>1, NothingRan, NoConnIsConnection DEF Lose
<1>2. ASSUME NEW p \in Path, NEW readOnly \in BOOLEAN, Reuse(p, readOnly)
      PROVE  FoldersIInv'
  <2>1. ran' = [path |-> p, readOnly |-> readOnly]
        /\ UNCHANGED <<holds, subs, conn, asked, stirred, made>>
    BY <1>2 DEF Reuse, Runs
  <2>2. Live.at = p /\ (Live.readOnly => readOnly) /\ p # Nowhere
    BY <1>2, NowhereAssumption DEF Reuse, Reusable, CanReuse
  <2>3. Live = conn
    BY <1>0, <2>2, LiveIs
  <2>4. ran' \in FolderCommand /\ ran'.path = p /\ ran'.readOnly = readOnly
    BY <2>1 DEF FolderCommand
  <2>5. RightFolder'
    <3> SUFFICES ASSUME conn.open # Nowhere, stirred = {}
                 PROVE  OnItsFolder'
      BY <2>1 DEF RightFolder
    <3>1. p \in Present /\ conn.open = holds[p] /\ (conn.examined => conn.readOnly)
      BY <1>0, <1>p, <2>2, <2>3 DEF Serves
    <3>2. QED
      BY <2>1, <2>2, <2>3, <2>4, <3>1 DEF OnItsFolder, Present
  <2>6. FoldersTypeOK'
    BY <2>1, <2>4 DEF FoldersIInv, FoldersTypeOK
  <2>7. QED
    BY <2>1, <2>5, <2>6, <1>a DEF FoldersIInv, MemoryServes, MadeStands, Present
<1>3. ASSUME NEW p \in Path, NEW readOnly \in BOOLEAN, Select(p, readOnly)
      PROVE  FoldersIInv'
  <2>1. /\ ran' = [path |-> p, readOnly |-> readOnly] /\ p \in Present
        /\ conn' = [Live EXCEPT !.at = p, !.readOnly = readOnly, !.has = TRUE,
                                !.open = holds[p], !.examined = readOnly]
        /\ stirred' = {} /\ UNCHANGED <<holds, subs, asked, made>>
    BY <1>3 DEF Select, Runs
  <2>2. ran' \in FolderCommand /\ ran'.path = p /\ ran'.readOnly = readOnly
    BY <2>1 DEF FolderCommand
  <2>3. holds[p] \in Mbox \union {Nowhere}
    BY <1>p, <2>1
  <2>4. /\ conn'.at = p /\ conn'.readOnly = readOnly /\ conn'.open = holds[p]
        /\ conn'.examined = readOnly
    BY <1>l, <2>1 DEF Connection
  <2>5. conn' \in Connection
    BY <1>l, <2>1, <2>3, ZenonT(40) DEF Connection
  <2>6. RightFolder'
    BY <2>1, <2>2, <2>4 DEF RightFolder, OnItsFolder, Present
  <2>7. MemoryServes'
    BY <2>1, <2>4 DEF MemoryServes, Serves, Present
  <2>8. FoldersTypeOK'
    BY <2>1, <2>2, <2>5 DEF FoldersIInv, FoldersTypeOK
  <2>9. QED
    BY <2>1, <2>6, <2>7, <2>8, <1>a DEF FoldersIInv, MadeStands, Present
<1>4. ASSUME NEW p \in Path, NEW readOnly \in BOOLEAN, SelectRefused(p, readOnly)
      PROVE  FoldersIInv'
  <2>1. PICK has \in {FALSE, Live.has} : conn' = [Live EXCEPT !.open = Nowhere, !.has = has]
    BY <1>4 DEF SelectRefused
  <2>2. has \in BOOLEAN
    BY <1>l DEF Connection
  <2>3. conn' \in Connection
    BY <1>l, <2>1, <2>2, ZenonT(40) DEF Connection
  <2>4. /\ conn'.open = Nowhere /\ conn'.examined = Live.examined
        /\ conn'.readOnly = Live.readOnly
    BY <1>l, <2>1 DEF Connection
  <2>5. ran' = NoCommand /\ UNCHANGED <<holds, subs, asked, stirred, made>>
    BY <1>4 DEF SelectRefused
  <2>6. Serves(conn', holds', stirred')
    BY <1>l, <2>4, <2>5 DEF Serves
  <2>7. QED
    BY <1>0, <1>a, <1>p, <2>3, <2>5, <2>6, NothingRan
<1>5. ASSUME NEW h \in Hand, NEW p \in Present, NEW op \in {"rename", "delete"},
             NEW to \in Path \union {Nowhere}, AskChange(h, op, p, to)
      PROVE  FoldersIInv'
  <2>1. /\ asked' = [asked EXCEPT ![h] = [op |-> op, path |-> p, to |-> to]]
        /\ conn' = Live /\ ran' = NoCommand /\ UNCHANGED <<holds, subs, stirred, made>>
    BY <1>5 DEF AskChange
  <2>2. [op |-> op, path |-> p, to |-> to] \in Change
    BY <1>p DEF Change
  <2>3. asked' \in [Hand -> Change] /\ AskedOfPaths'
    BY <1>0, <1>p, <2>1, <2>2 DEF AskedOfPaths
  <2>4. QED
    BY <1>0, <1>l, <1>p, <2>1, <2>3, NothingRan
<1>6. ASSUME NEW h \in Hand, NEW p \in Path, AskCreate(h, p)
      PROVE  FoldersIInv'
  <2>1. /\ asked' = [asked EXCEPT ![h] = [Nobody EXCEPT !.op = "create", !.path = p]]
        /\ conn' = Live /\ ran' = NoCommand /\ UNCHANGED <<holds, subs, stirred, made>>
    BY <1>6 DEF AskCreate
  <2>2. [Nobody EXCEPT !.op = "create", !.path = p] \in Change
        /\ [Nobody EXCEPT !.op = "create", !.path = p].path = p
    BY DEF Change, Nobody
  <2>3. asked' \in [Hand -> Change] /\ AskedOfPaths'
    BY <1>0, <1>p, <2>1, <2>2 DEF AskedOfPaths
  <2>4. QED
    BY <1>0, <1>l, <1>p, <2>1, <2>3, NothingRan
<1>7. ASSUME NEW h \in Hand, Create(h)
      PROVE  FoldersIInv'
  <2> DEFINE p == asked[h].path
  <2>1. asked[h].op = "create" /\ Settle(h) /\ conn' = Live /\ ran' = NoCommand
        /\ UNCHANGED stirred
    BY <1>7 DEF Create
  <2>2. p \in Path
    BY <1>0, <2>1 DEF AskedOfPaths
  <2>3. CASE UNCHANGED <<holds, subs, made>>
    BY <1>0, <1>b, <1>l, <1>p, <2>1, <2>3, NothingRan
  <2>4. CASE p \notin Present /\ ~ UNCHANGED <<holds, subs, made>>
    <3>1. PICK b \in Mbox, subscribed \in BOOLEAN :
            /\ holds' = PutAt(p, b)
            /\ subs' = IF subscribed THEN Subscribed(p) ELSE subs
            /\ made' = IF subscribed THEN made \union {p} ELSE made
      BY <1>7, <2>4 DEF Create
    <3> HIDE DEF p
    <3>2. Placed(holds') /\ \A q \in Present : Stays(holds', q)
      BY <1>0, <2>2, <2>4, <3>1, PutAtStays
    <3>3. p \in DOMAIN holds'
      BY <3>1 DEF PutAt
    <3>4. Serves(conn', holds', stirred')
      BY <1>l, <1>p, <2>1, <3>2 DEF Serves, Stays
    <3>5. made' \subseteq DOMAIN holds' \intersect subs' /\ made' \subseteq Path
          /\ subs' \subseteq Path
      BY <1>0, <2>2, <3>1, <3>2, <3>3 DEF Subscribed, Stays
    <3>6. QED
      BY <1>0, <1>b, <1>l, <2>1, <3>2, <3>4, <3>5, NothingRan
  <2>5. QED
    BY <1>7, <2>3, <2>4 DEF Create
<1>8. ASSUME NEW h \in Hand, Rename(h)
      PROVE  FoldersIInv'
  <2> DEFINE p == asked[h].path
             to == asked[h].to
  <2>1. asked[h].op = "rename" /\ Settle(h) /\ ran' = NoCommand /\ UNCHANGED subs
    BY <1>8 DEF Rename
  <2>2. p \in Path
    BY <1>0, <2>1 DEF AskedOfPaths
  <2>3. CASE ~ (p # Inbox /\ MayRename(p, to))
    <3>1. conn' = Live /\ UNCHANGED <<holds, stirred, made>>
      BY <1>8, <2>3 DEF Rename
    <3>2. QED
      BY <1>0, <1>b, <1>l, <1>p, <2>1, <3>1, NothingRan
  <2>4. CASE p # Inbox /\ MayRename(p, to)
    <3>1. /\ holds' = Renamed(p, to) /\ conn' = Forgets(p)
          /\ stirred' = IF Live.at # Nowhere /\ Under(p, Live.at)
                        THEN stirred \union {"parent"} ELSE stirred
          /\ made' = {q \in made : q # p /\ ~ Under(p, q)}
      BY <1>8, <2>4 DEF Rename
    <3> HIDE DEF p, to
    <3>2. /\ Placed(holds')
          /\ \A q \in Present : q # p /\ ~ Under(p, q) => Stays(holds', q)
      BY <1>0, <2>2, <2>4, <3>1, RenamedStays
    <3>3. /\ conn' \in Connection /\ conn'.at = IF Live.at = p THEN Nowhere ELSE Live.at
          /\ conn'.open = Live.open /\ conn'.examined = Live.examined
          /\ conn'.readOnly = Live.readOnly
      BY <1>0, <3>1, ForgetsIs
    <3>4. stirred' = {} => stirred = {} /\ (Live.at = Nowhere \/ ~ Under(p, Live.at))
      BY <3>1
    <3>5. Serves(conn', holds', stirred')
      <4>1. conn'.examined => conn'.readOnly
        BY <1>l, <3>3 DEF Serves
      <4>2. ASSUME conn'.at # Nowhere, conn'.open # Nowhere, stirred' = {}
            PROVE  conn'.at \in DOMAIN holds' /\ conn'.open = holds'[conn'.at]
        <5>1. conn'.at = Live.at /\ Live.at # p /\ ~ Under(p, Live.at) /\ stirred = {}
          BY <3>3, <3>4, <4>2
        <5>2. Live.at \in Present /\ Live.open = holds[Live.at]
          BY <1>l, <1>p, <3>3, <4>2, <5>1 DEF Serves
        <5>3. QED
          BY <3>2, <3>3, <5>1, <5>2 DEF Stays
      <4>3. QED
        BY <4>1, <4>2 DEF Serves
    <3>6. made' \subseteq DOMAIN holds' \intersect subs' /\ made' \subseteq Path
      BY <1>0, <2>1, <3>1, <3>2 DEF Stays
    <3>7. stirred' \subseteq {"others", "parent"} /\ subs' \subseteq Path
      BY <1>0, <2>1, <3>1
    <3>8. QED
      BY <1>b, <2>1, <3>2, <3>3, <3>5, <3>6, <3>7, NothingRan
  <2>5. QED
    BY <2>3, <2>4
<1>9. ASSUME NEW h \in Hand, Delete(h)
      PROVE  FoldersIInv'
  <2> DEFINE p == asked[h].path
  <2>1. asked[h].op = "delete" /\ Settle(h) /\ ran' = NoCommand /\ UNCHANGED stirred
    BY <1>9 DEF Delete
  <2>2. CASE ~ (p # Inbox /\ p \in Present)
    <3>1. conn' = Live /\ UNCHANGED <<holds, subs, made>>
      BY <1>9, <2>2 DEF Delete
    <3>2. QED
      BY <1>0, <1>b, <1>l, <1>p, <2>1, <3>1, NothingRan
  <2>3. CASE p # Inbox /\ p \in Present
    <3>1. /\ holds' = Gone(p) /\ conn' = ClosedOn(Forgets(p), p)
          /\ subs' = subs \/ subs' = Unsubscribed(p)
          /\ made' = made \ {p}
      BY <1>9, <2>3 DEF Delete
    <3> HIDE DEF p
    <3>2. Placed(holds') /\ \A q \in Present \ {p} : Stays(holds', q)
      BY <1>0, <2>3, <3>1, GoneStays
    <3>3. /\ Forgets(p) \in Connection
          /\ Forgets(p).at = IF Live.at = p THEN Nowhere ELSE Live.at
          /\ Forgets(p).open = Live.open /\ Forgets(p).examined = Live.examined
          /\ Forgets(p).readOnly = Live.readOnly
      BY <1>0, ForgetsIs
    <3>4. /\ conn' \in Connection /\ conn'.at = Forgets(p).at
          /\ conn'.open = Nowhere \/ conn'.open = Live.open
          /\ conn'.examined = Live.examined /\ conn'.readOnly = Live.readOnly
      BY <3>1, <3>3, ClosedOnIs
    <3>5. Serves(conn', holds', stirred')
      <4>1. conn'.examined => conn'.readOnly
        BY <1>l, <3>4 DEF Serves
      <4>2. ASSUME conn'.at # Nowhere, conn'.open # Nowhere, stirred' = {}
            PROVE  conn'.at \in DOMAIN holds' /\ conn'.open = holds'[conn'.at]
        <5>1. conn'.at = Live.at /\ Live.at # p /\ stirred = {} /\ conn'.open = Live.open
          BY <2>1, <3>3, <3>4, <4>2
        <5>2. Live.at \in Present /\ Live.open = holds[Live.at]
          BY <1>l, <1>p, <4>2, <5>1 DEF Serves
        <5>3. QED
          BY <3>2, <5>1, <5>2 DEF Stays
      <4>3. QED
        BY <4>1, <4>2 DEF Serves
    <3>6. /\ made' \subseteq DOMAIN holds' \intersect subs' /\ made' \subseteq Path
          /\ subs' \subseteq Path
      BY <1>0, <3>1, <3>2 DEF Stays, Unsubscribed
    <3>7. QED
      BY <1>0, <1>b, <2>1, <3>2, <3>4, <3>5, <3>6, NothingRan
  <2>4. QED
    BY <2>2, <2>3
<1>10. ASSUME NEW p \in Present, NEW on \in BOOLEAN, SetSubscribed(p, on)
       PROVE  FoldersIInv'
  <2>1. /\ subs' = IF on THEN Subscribed(p) ELSE Unsubscribed(p)
        /\ made' = IF on THEN made ELSE made \ {p}
        /\ conn' = Live /\ ran' = NoCommand /\ UNCHANGED <<holds, asked, stirred>>
    BY <1>10 DEF SetSubscribed
  <2>2. /\ made' \subseteq DOMAIN holds' \intersect subs' /\ made' \subseteq Path
        /\ subs' \subseteq Path
    BY <1>0, <1>p, <2>1 DEF Subscribed, Unsubscribed
  <2>3. QED
    BY <1>0, <1>a, <1>l, <2>1, <2>2, NothingRan
<1>11. ASSUME NEW p \in Path, OtherCreate(p)
       PROVE  FoldersIInv'
  <2>1. PICK b \in Mbox : holds' = PutAt(p, b)
    BY <1>11 DEF OtherCreate
  <2>2. p \notin Present /\ ran' = NoCommand /\ UNCHANGED <<subs, conn, asked, stirred, made>>
    BY <1>11 DEF OtherCreate
  <2>3. Placed(holds') /\ \A q \in Present : Stays(holds', q)
    BY <1>0, <2>1, <2>2, PutAtStays
  <2>4. Serves(conn', holds', stirred')
    BY <1>0, <1>p, <2>2, <2>3 DEF Serves, Stays
  <2>5. made' \subseteq DOMAIN holds' \intersect subs'
    BY <1>0, <2>2, <2>3 DEF Stays
  <2>6. QED
    BY <1>0, <1>a, <2>2, <2>3, <2>4, <2>5, NothingRan
<1>12. ASSUME NEW p \in Path, OtherDelete(p)
       PROVE  FoldersIInv'
  <2>1. /\ p # Inbox /\ holds' = Gone(p) /\ conn' = ClosedOn(conn, p) /\ made' = made \ {p}
        /\ ran' = NoCommand /\ UNCHANGED <<subs, asked, stirred>>
    BY <1>12 DEF OtherDelete
  <2>2. Placed(holds') /\ \A q \in Present \ {p} : Stays(holds', q)
    BY <1>0, <2>1, GoneStays
  <2>3. /\ conn' \in Connection /\ conn'.at = conn.at
        /\ conn'.open = IF conn.open = holds[p] THEN Nowhere ELSE conn.open
        /\ conn'.examined = conn.examined /\ conn'.readOnly = conn.readOnly
    BY <1>0, <2>1, ClosedOnIs
  <2>4. Serves(conn', holds', stirred')
    <3>1. conn'.examined => conn'.readOnly
      BY <1>0, <2>3 DEF Serves
    <3>2. ASSUME conn'.at # Nowhere, conn'.open # Nowhere, stirred' = {}
          PROVE  conn'.at \in DOMAIN holds' /\ conn'.open = holds'[conn'.at]
      <4>1. conn'.open = conn.open /\ conn.open # holds[p] /\ stirred = {} /\ conn.at # Nowhere
        BY <2>1, <2>3, <3>2
      <4>2. conn.at \in Present /\ conn.open = holds[conn.at]
        BY <1>0, <1>p, <3>2, <4>1 DEF Serves
      <4>3. conn.at # p
        BY <4>1, <4>2
      <4>4. QED
        BY <2>2, <2>3, <4>1, <4>2, <4>3 DEF Stays
    <3>3. QED
      BY <3>1, <3>2 DEF Serves
  <2>5. made' \subseteq DOMAIN holds' \intersect subs' /\ made' \subseteq Path
    BY <1>0, <2>1, <2>2 DEF Stays
  <2>6. QED
    BY <1>0, <1>a, <2>1, <2>2, <2>3, <2>4, <2>5, NothingRan
<1>13. ASSUME NEW p \in Path, NEW to \in Path, OtherRename(p, to)
       PROVE  FoldersIInv'
  <2>1. /\ p # Inbox /\ MayRename(p, to) /\ holds' = Renamed(p, to)
        /\ stirred' = IF conn.at = p \/ (conn.at # Nowhere /\ Under(p, conn.at))
                      THEN stirred \union {"others"} ELSE stirred
        /\ made' = {q \in made : q # p /\ ~ Under(p, q)}
        /\ ran' = NoCommand /\ UNCHANGED <<subs, conn, asked>>
    BY <1>13 DEF OtherRename
  <2>2. /\ Placed(holds')
        /\ \A q \in Present : q # p /\ ~ Under(p, q) => Stays(holds', q)
    BY <1>0, <2>1, RenamedStays
  <2>3. Serves(conn', holds', stirred')
    <3>1. ASSUME conn.at # Nowhere, conn.open # Nowhere, stirred' = {}
          PROVE  conn.at \in DOMAIN holds' /\ conn.open = holds'[conn.at]
      <4>1. conn.at # p /\ ~ Under(p, conn.at) /\ stirred = {}
        BY <2>1, <3>1
      <4>2. conn.at \in Present /\ conn.open = holds[conn.at]
        BY <1>0, <1>p, <3>1, <4>1 DEF Serves
      <4>3. QED
        BY <2>2, <4>1, <4>2 DEF Stays
    <3>2. QED
      BY <1>0, <2>1, <3>1 DEF Serves
  <2>4. made' \subseteq DOMAIN holds' \intersect subs' /\ made' \subseteq Path
    BY <1>0, <2>1, <2>2 DEF Stays
  <2>5. stirred' \subseteq {"others", "parent"}
    BY <1>0, <2>1
  <2>6. QED
    BY <1>0, <1>a, <2>1, <2>2, <2>3, <2>4, <2>5, NothingRan
<1>14. CASE UNCHANGED folderVars
  <2>1. UNCHANGED <<holds, subs, conn, asked, ran, stirred, made>>
    BY <1>14 DEF folderVars
  <2>2. FoldersTypeOK'
    BY <2>1 DEF FoldersIInv, FoldersTypeOK
  <2>3. QED
    BY <2>1, <2>2, <1>a DEF FoldersIInv, MemoryServes, MadeStands, RightFolder, Present,
                            OnItsFolder
<1>15. QED
  BY <1>1, <1>2, <1>3, <1>4, <1>5, <1>6, <1>7, <1>8, <1>9, <1>10, <1>11, <1>12, <1>13, <1>14
     DEF FoldersNext

\* Every state of the folders satisfies the inductive invariant.
THEOREM FoldersInvariant == FoldersSpec => []FoldersIInv
  BY FoldersInitIInv, FoldersStep, PTL DEF FoldersSpec

\* A command runs on the folder it names, opened for what it does, whatever was
\* renamed, deleted or made in between by other windows and other mail programs
\* (mail.go:1211), the two known cases excepted; for any set of paths.
THEOREM RightFolderTheorem == FoldersSpec => []RightFolder
<1>1. FoldersIInv => RightFolder
  BY DEF FoldersIInv
<1>2. QED
  BY <1>1, FoldersInvariant, PTL

\* What was made in the folder manager is in the sidebar until it is hidden,
\* deleted or renamed (mail.go:351, 1096, 1251), whatever else is subscribed to.
THEOREM MadeIsShownTheorem == FoldersSpec => []MadeIsShown
<1>1. FoldersIInv => MadeIsShown
  BY DEF FoldersIInv, MadeStands, MadeIsShown, Sidebar
<1>2. QED
  BY <1>1, FoldersInvariant, PTL

-----------------------------------------------------------------------------
\* Each retry has dropped an option, and the brace is remembered as long as it
\* is sent.
OneFewer ==
    /\ chat.prefilled <=> "prefill" \in chat.sent
    /\ "prefill" \in chat.sent => chat.json
    /\ chat.attempt = 0 \/ chat.sent = {}
       \/ (chat.attempt = 1 /\ \E o \in Options : chat.sent = {o})

ChatIInv == ChatTypeOK /\ OneFewer /\ AnswersWhole

LEMMA FirstAttempt == 0 \in 0 .. 2
OBVIOUS

\* A question as it is first put.
LEMMA AskedIInv ==
    ASSUME NEW takes \in SUBSET Options, NEW json \in BOOLEAN, NEW sent \in SUBSET Options,
           sent = (IF json THEN Options ELSE {"temperature"}),
           chat = [pc |-> "asked", json |-> json, takes |-> takes, sent |-> sent,
                   prefilled |-> json, attempt |-> 0, why |-> "", braces |-> 0]
    PROVE  ChatIInv
<1>1. /\ chat.pc = "asked" /\ chat.json = json /\ chat.sent = sent
      /\ chat.prefilled = json /\ chat.attempt = 0 /\ chat.why = ""
  BY Zenon
<1>2. ChatTypeOK
  BY FirstAttempt, Zenon DEF ChatTypeOK
<1>3. OneFewer
  <2>1. "prefill" \in sent <=> json
    BY DEF Options
  <2>2. QED
    BY <1>1, <2>1, Zenon DEF OneFewer
<1>4. AnswersWhole
  BY <1>1, Zenon DEF AnswersWhole
<1>5. QED
  BY <1>2, <1>3, <1>4 DEF ChatIInv

LEMMA ChatInitIInv == ChatInit => ChatIInv
<1>1. ASSUME NEW json \in BOOLEAN, NEW takes \in SUBSET Options, chat = Question(json, takes)
      PROVE  ChatIInv
  <2> DEFINE sent == IF json THEN Options ELSE {"temperature"}
  <2>1. sent \in SUBSET Options
    BY DEF Options
  <2>2. chat = [pc |-> "asked", json |-> json, takes |-> takes, sent |-> sent,
                prefilled |-> json, attempt |-> 0, why |-> "", braces |-> 0]
    BY <1>1, Zenon DEF Question
  <2>3. sent = (IF json THEN Options ELSE {"temperature"})
    OBVIOUS
  <2> HIDE DEF sent
  <2>4. QED
    BY <2>1, <2>2, <2>3, AskedIInv, Zenon
<1>2. QED
  BY <1>1 DEF ChatInit

LEMMA ChatStep == ChatIInv /\ [ChatNext]_chat => ChatIInv'
<1> SUFFICES ASSUME ChatIInv, [ChatNext]_chat PROVE ChatIInv'
  OBVIOUS
<1> USE DEF ChatIInv
<1>1. CASE Answer
  <2>0. /\ PutBack \in {0, 1} /\ Opened \in {0, 1}
        /\ chat' = [chat EXCEPT !.pc = "answered", !.braces = PutBack + Opened]
    BY <1>1 DEF Answer, PutBack, Opened
  <2>1. ChatTypeOK'
    <3>1. PutBack + Opened \in 0 .. 2
      BY <2>0
    <3>2. QED
      BY <2>0, <3>1 DEF ChatTypeOK
  <2>2. OneFewer'
    BY <1>1 DEF Answer, OneFewer, ChatTypeOK
  <2>3. AnswersWhole'
    <3>1. PutBack + Opened = IF chat.json THEN 1 ELSE 0
      BY DEF OneFewer, PutBack, Opened
    <3>2. chat'.braces = PutBack + Opened /\ chat'.json = chat.json /\ chat'.why = chat.why
      BY <2>0 DEF ChatTypeOK
    <3>3. QED
      BY <3>1, <3>2 DEF AnswersWhole
  <2>4. QED
    BY <2>1, <2>2, <2>3
<1>2. CASE Declines
  <2>1. PICK o \in chat.sent \ chat.takes :
          chat' = IF chat.attempt >= Adjustments
                  THEN [chat EXCEPT !.pc = "failed", !.why = "options"]
                  ELSE [Lacking(chat, o) EXCEPT !.attempt = @ + 1]
    BY <1>2 DEF Declines
  <2>2. chat.attempt \in {0, 1} /\ o \in Options
    BY <2>1 DEF OneFewer, ChatTypeOK
  <2>3. chat' = [Lacking(chat, o) EXCEPT !.attempt = @ + 1]
    BY <2>1, <2>2 DEF Adjustments
  <2>f. chat \in [pc : {"asked", "answered", "failed"}, json : BOOLEAN, takes : SUBSET Options,
                  sent : SUBSET Options, prefilled : BOOLEAN, attempt : 0 .. 2,
                  why : {"", "options", "other"}, braces : 0 .. 2]
    BY DEF ChatTypeOK
  <2>g. chat' = [pc |-> chat.pc, json |-> chat.json, takes |-> chat.takes,
                 sent |-> chat.sent \ {o}, prefilled |-> chat.prefilled /\ o # "prefill",
                 attempt |-> chat.attempt + 1, why |-> chat.why, braces |-> chat.braces]
    BY <2>f, <2>3, Zenon DEF Lacking
  <2>h. /\ chat'.pc = chat.pc /\ chat'.json = chat.json /\ chat'.takes = chat.takes
        /\ chat'.sent = chat.sent \ {o} /\ chat'.attempt = chat.attempt + 1
        /\ chat'.why = chat.why /\ chat'.braces = chat.braces
        /\ chat'.prefilled = (chat.prefilled /\ o # "prefill")
    BY <2>g, Zenon
  <2>4. ChatTypeOK'
    <3>1. chat.attempt + 1 \in 0 .. 2 /\ chat.sent \ {o} \in SUBSET Options
      <4>1. chat.attempt + 1 \in 0 .. 2
        BY <2>2
      <4>2. chat.sent \in SUBSET Options
        BY <2>f, Zenon
      <4>3. QED
        BY <4>1, <4>2
    <3>2. (chat.prefilled /\ o # "prefill") \in BOOLEAN
      BY Zenon
    <3>3. QED
      BY <2>f, <2>g, <3>1, <3>2, Zenon DEF ChatTypeOK
  <2>5. OneFewer'
    <3>1. chat'.prefilled <=> "prefill" \in chat'.sent
      BY <2>h, Zenon DEF OneFewer
    <3>2. "prefill" \in chat'.sent => chat'.json
      BY <2>h, Zenon DEF OneFewer
    <3>3. chat.sent \in SUBSET Options
      BY <2>f, Zenon
    <3>4. chat'.sent = {} \/ (chat'.attempt = 1 /\ \E x \in Options : chat'.sent = {x})
      <4>1. CASE chat.attempt = 0
        <5>1. chat'.attempt = 1
          BY <2>h, <4>1
        <5>2. chat'.sent = {} \/ \E x \in Options : chat'.sent = {x}
          BY <2>2, <2>h, <3>3 DEF Options
        <5>3. QED
          BY <5>1, <5>2
      <4>2. CASE chat.attempt = 1
        BY <2>1, <2>2, <2>h, <4>2 DEF OneFewer
      <4>3. QED
        BY <2>2, <4>1, <4>2
    <3>5. QED
      BY <3>1, <3>2, <3>4 DEF OneFewer
  <2>6. AnswersWhole'
    BY <1>2, <2>2, <2>3 DEF AnswersWhole, Declines, ChatTypeOK, Lacking
  <2>7. QED
    BY <2>4, <2>5, <2>6
<1>3. CASE Unreached
  <2>1. ChatTypeOK'
    BY <1>3 DEF Unreached, ChatTypeOK
  <2>2. OneFewer' /\ AnswersWhole'
    BY <1>3 DEF Unreached, OneFewer, AnswersWhole, ChatTypeOK
  <2>3. QED
    BY <2>1, <2>2
<1>4. CASE Again
  <2>1. ChatInit'
    BY <1>4 DEF Again, ChatInit
  <2>2. QED
    BY <2>1, ChatInitIInv, PTL
<1>5. CASE UNCHANGED chat
  BY <1>5 DEF ChatTypeOK, OneFewer, AnswersWhole
<1>6. QED
  BY <1>1, <1>2, <1>3, <1>4, <1>5 DEF ChatNext

\* An answer is whole, and opens with one brace, whatever options the model
\* declines and in whichever order (claude.go:383, 432).
THEOREM ChatTheorem == ChatSpec => []AnswersWhole
<1>2. ChatIInv => AnswersWhole
  BY DEF ChatIInv
<1> QED
  BY ChatInitIInv, <1>2, ChatStep, PTL DEF ChatSpec
-----------------------------------------------------------------------------
\* What a response writer is while `a` is being answered: a body held back
\* under status s, one that goes out as it is, or packed; and, once the handler
\* has finished, a short one that was held back.
Waiting(w, a, s) ==
    /\ w.status = s /\ ~ w.passing /\ ~ w.wrote /\ ~ w.gz
    /\ w.buf = a.wrote /\ w.plain = 0 /\ w.packed = 0
Passed(w, a) ==
    /\ w.status = a.head.status /\ w.passing /\ w.wrote /\ ~ w.gz /\ w.head = a.head
    /\ w.buf = 0 /\ w.plain = a.wrote /\ w.packed = 0
Packed(w, a) ==
    /\ w.status = a.head.status /\ ~ w.passing /\ w.wrote /\ w.gz /\ w.head = Compressed(a.head)
    /\ w.buf = 0 /\ w.plain = 0 /\ w.packed = a.wrote
Short(w, a) ==
    /\ w.head = a.head
    /\ w.buf = 0 /\ w.plain = a.wrote /\ w.packed = 0

MayPack(a) == "gzip" \in a.takes /\ a.head.enc = "" /\ a.head.status \in {200, 500}

OutStands ==
    /\ ask.pc = "run" =>
          \/ Waiting(out, ask, 0) /\ ask.wrote = 0
          \/ ask.head.status # 0 /\ Passed(out, ask)
          \/ MayPack(ask) /\ Waiting(out, ask, ask.head.status)
          \/ MayPack(ask) /\ ask.wrote > 0 /\ Packed(out, ask)
    /\ ask.pc = "done" =>
          /\ ask.head.status # 0
          /\ \/ Passed(out, ask)
             \/ Short(out, ask)
             \/ MayPack(ask) /\ ask.wrote > 0 /\ Packed(out, ask)

\* What a handler has said and has yet to write, and the copy a 304 is about.
AskStands ==
    ask.pc # "no" =>
        /\ ask.left + ask.wrote <= MaxBody
        /\ ask.head.status = 0 => ask.wrote = 0
        /\ ask.head.enc # "" => ask.head.enc \in ask.takes
        /\ ask.what = "static" => ask.head.tag = <<build, ask.head.enc>>
        /\ ask.head.status = 304 =>
              held.version = build /\ (held.enc # "" => held.enc \in ask.takes)

\* A tag tells the build and the coding of what is kept under it.
TagTells == held # NoTag => held.tag = <<held.version, held.enc>>

DeliveryIInv == DeliveryTypeOK /\ AskStands /\ OutStands /\ TagTells

LEMMA NoStatus == \A s : s = 0 => s # 304
OBVIOUS

LEMMA PageStatus == \A s \in {200, 500} : s # 0 /\ s # 304
OBVIOUS

\* What may be packed is a page a client takes packed.
LEMMA MayPackMeans ==
    ASSUME NEW a, MayPack(a)
    PROVE  a.head.status # 0 /\ a.head.status # 304 /\ a.head.enc = "" /\ "gzip" \in a.takes
<1>1. a.head.status \in {200, 500} /\ a.head.enc = "" /\ "gzip" \in a.takes
  BY DEF MayPack
<1> DEFINE s == a.head.status
<1>2. s \in {200, 500}
  BY <1>1
<1> HIDE DEF s
<1>3. s # 0 /\ s # 304
  BY <1>2, PageStatus
<1>4. QED
  BY <1>1, <1>3 DEF s

LEMMA PackedTaken ==
    ASSUME NEW takes \in SUBSET Coding
    PROVE  PackedAs(takes) \in Packing /\ (PackedAs(takes) # "" => PackedAs(takes) \in takes)
BY DEF PackedAs, Packing, Coding

LEMMA NothingOut == NoHead \in Headers /\ NoOut \in Out /\ NoAsk \in Exchange
<1>1. NoHead \in Headers
  BY DEF NoHead, Headers, Packing, Tag
<1>2. 0 \in 0 .. MaxBody
  BY BoundsAssumption
<1>3. NoTag \in Tag
  BY DEF Tag
<1>4. QED
  BY <1>1, <1>2, <1>3 DEF NoOut, Out, NoAsk, Exchange

LEMMA CompressedHeaders ==
    ASSUME NEW h \in Headers
    PROVE  Compressed(h) \in Headers /\ [Compressed(h) EXCEPT !.status = h.status] = Compressed(h)
<1>1. GzipTag(h.tag) \in Tag
  BY DEF GzipTag, Tag, Headers
<1>2. Compressed(h) \in Headers /\ Compressed(h).status = h.status
  BY <1>1 DEF Compressed, Headers, Packing, Coding
<1>3. QED
  BY <1>2 DEF Headers

LEMMA CompressedFields ==
    ASSUME NEW h \in Headers
    PROVE  /\ Compressed(h).enc = "gzip" /\ Compressed(h).tag = GzipTag(h.tag)
           /\ Compressed(h).status = h.status /\ Compressed(h).length = FALSE
BY DEF Compressed, Headers

LEMMA DeliveryInitIInv == DeliveryInit => DeliveryIInv
<1> SUFFICES ASSUME DeliveryInit PROVE DeliveryIInv
  OBVIOUS
<1>1. build \in 0 .. MaxBuild
  BY BoundsAssumption DEF DeliveryInit
<1>2. DeliveryTypeOK
  BY <1>1, NothingOut DEF DeliveryInit, DeliveryTypeOK
<1>3. ask.pc = "no" /\ held = NoTag
  BY DEF DeliveryInit, NoAsk
<1>4. QED
  BY <1>2, <1>3 DEF DeliveryIInv, AskStands, OutStands, TagTells

-----------------------------------------------------------------------------

LEMMA PassingWriter ==
    ASSUME NEW o \in Out, NEW h \in Headers, NEW s \in {0, 200, 304, 500}
    PROVE  [o EXCEPT !.status = s, !.passing = TRUE, !.wrote = TRUE, !.head = h] \in Out
BY ZenonT(40) DEF Out

\* The response writer, call by call.
LEMMA HeaderSent ==
    ASSUME ask \in Exchange, ask.head.status # 0, ask.wrote = 0,
           out \in Out, Waiting(out, ask, 0),
           NEW w, w = WithHeader(out, ask.head.status)
    PROVE  /\ w \in Out
           /\ Passed(w, ask) \/ (MayPack(ask) /\ Waiting(w, ask, ask.head.status))
<1>1. /\ ask.head \in Headers /\ [ask.head EXCEPT !.status = ask.head.status] = ask.head
      /\ ask.head.status \in {0, 200, 304, 500}
  BY DEF Exchange, Headers
<1>z. 0 \in 0 .. MaxBody /\ 0 \in {0, 200, 304, 500}
  BY BoundsAssumption
<1>2. CASE ~ Wrapped \/ ask.head.status = 304 \/ ask.head.enc # "" \/ ~ Compressible
  <2>1. w = [out EXCEPT !.status = ask.head.status, !.passing = TRUE, !.wrote = TRUE,
                        !.head = ask.head]
    BY <1>1, <1>2 DEF WithHeader, Waiting
  <2>2. w \in Out
    <3>1. ask.head \in Headers /\ ask.head.status \in {0, 200, 304, 500}
      BY <1>1
    <3>2. [out EXCEPT !.status = ask.head.status, !.passing = TRUE, !.wrote = TRUE,
                      !.head = ask.head] \in Out
      <4> DEFINE S == {0, 200, 304, 500}
      <4>1. \A o \in Out, h \in Headers, s \in S :
               [o EXCEPT !.status = s, !.passing = TRUE, !.wrote = TRUE, !.head = h] \in Out
        BY PassingWriter
      <4>2. out \in Out /\ ask.head \in Headers /\ ask.head.status \in S
        BY <3>1
      <4> HIDE DEF S
      <4>3. QED
        BY <4>1, <4>2, Zenon
    <3>3. QED
      BY <2>1, <3>2
  <2>3. Passed(w, ask)
    BY <2>1 DEF Waiting, Passed, Out
  <2>4. QED
    BY <2>2, <2>3
<1>3. CASE ~ (~ Wrapped \/ ask.head.status = 304 \/ ask.head.enc # "" \/ ~ Compressible)
  <2>1. w = [out EXCEPT !.status = ask.head.status]
    BY <1>3 DEF WithHeader, Waiting
  <2>2. MayPack(ask)
    BY <1>1, <1>3 DEF MayPack, Wrapped
  <2>3. w \in Out
    BY <1>1, <2>1 DEF Out
  <2>4. Waiting(w, ask, ask.head.status)
    BY <2>1 DEF Waiting, Out
  <2>5. QED
    BY <2>2, <2>3, <2>4
<1>4. QED
  BY <1>2, <1>3

\* A write that goes on adds what it wrote to what waits, or to what is out.
LEMMA BytesWritten ==
    ASSUME ask \in Exchange, NEW w \in Out, NEW n \in 1 .. ask.left,
           ask.left + ask.wrote <= MaxBody,
           NEW b, b = [ask EXCEPT !.left = @ - n, !.wrote = @ + n],
           \/ Passed(w, ask)
           \/ MayPack(ask) /\ Waiting(w, ask, ask.head.status)
           \/ MayPack(ask) /\ Packed(w, ask),
           NEW x, x = Written(w, n)
    PROVE  /\ x \in Out
           /\ \/ Passed(x, b)
              \/ MayPack(b) /\ Waiting(x, b, b.head.status)
              \/ MayPack(b) /\ b.wrote > 0 /\ Packed(x, b)
<1>0. ask.left \in 0 .. MaxBody /\ ask.wrote \in 0 .. MaxBody
  BY DEF Exchange
<1>a. n \in Nat /\ n > 0 /\ ask.wrote + n \in 0 .. MaxBody /\ 0 \in 0 .. MaxBody
  BY <1>0, BoundsAssumption
<1>1. /\ b.head = ask.head /\ b.takes = ask.takes /\ b.wrote = ask.wrote + n
  BY DEF Exchange
<1>b. b.wrote > 0
  BY <1>0, <1>a, <1>1
<1>2. MayPack(b) <=> MayPack(ask)
  BY <1>1 DEF MayPack
<1>3. CASE Passed(w, ask)
  <2>1. x = [w EXCEPT !.plain = ask.wrote + n]
    BY <1>3 DEF Written, Passed
  <2>2. x \in Out
    BY <1>a, <2>1 DEF Out
  <2>3. Passed(x, b)
    BY <1>1, <1>3, <2>1 DEF Passed, Out
  <2>4. QED
    BY <2>2, <2>3
<1>4. CASE MayPack(ask) /\ Waiting(w, ask, ask.head.status)
  <2> DEFINE v == [w EXCEPT !.buf = ask.wrote + n]
  <2>1. [w EXCEPT !.buf = @ + n] = v /\ ~ w.passing /\ ~ w.gz
    BY <1>4 DEF Waiting
  <2>2. v \in Out
    BY <1>a DEF Out
  <2>3. Waiting(v, b, b.head.status) /\ v.buf = b.wrote
    BY <1>1, <1>4 DEF Waiting, Out
  <2>4. x = IF v.buf < MinSize THEN v ELSE StartGzip(v)
    BY <2>1 DEF Written
  <2> HIDE DEF v
  <2>5. CASE v.buf < MinSize
    BY <1>2, <1>4, <2>2, <2>3, <2>4, <2>5
  <2>6. CASE ~ (v.buf < MinSize)
    <3>1. ask.head \in Headers /\ Compressed(ask.head) \in Headers
      BY CompressedHeaders DEF Exchange
    <3>2. [Compressed(ask.head) EXCEPT !.status = v.status] = Compressed(ask.head)
      BY <1>1, <2>3, <3>1, CompressedHeaders DEF Waiting
    <3>3. x = [v EXCEPT !.head = Compressed(ask.head), !.wrote = TRUE, !.gz = TRUE,
                        !.packed = v.buf, !.buf = 0]
      BY <2>4, <2>6, <3>2 DEF StartGzip
    <3>4. x \in Out
      <4>1. v.buf \in 0 .. MaxBody /\ 0 \in {0, 200, 304, 500}
        BY <1>a, <2>2 DEF Out
      <4>2. QED
        BY <1>a, <2>2, <3>1, <3>3, <4>1, ZenonT(40) DEF Out
    <3>5. Packed(x, b)
      BY <1>1, <2>2, <2>3, <3>3 DEF Packed, Waiting, Out
    <3>6. QED
      BY <1>2, <1>4, <1>b, <3>4, <3>5
  <2>7. QED
    BY <2>5, <2>6
<1>5. CASE MayPack(ask) /\ Packed(w, ask)
  <2>1. x = [w EXCEPT !.packed = ask.wrote + n]
    BY <1>5 DEF Written, Packed
  <2>2. x \in Out
    BY <1>a, <2>1 DEF Out
  <2>3. Packed(x, b)
    BY <1>1, <1>5, <2>1 DEF Packed, Out
  <2>4. QED
    BY <1>2, <1>5, <1>b, <2>2, <2>3
<1>6. QED
  BY <1>3, <1>4, <1>5

\* A finished exchange stands as its writer left it.
LEMMA Ends ==
    ASSUME ask \in Exchange, ask.head.status # 0, out \in Out,
           \/ Waiting(out, ask, 0) /\ ask.head.status = 200
           \/ Passed(out, ask)
           \/ MayPack(ask) /\ Waiting(out, ask, ask.head.status)
           \/ MayPack(ask) /\ Packed(out, ask),
           NEW x, x = Closed(out)
    PROVE  /\ x \in Out
           /\ \/ Passed(x, ask)
              \/ Short(x, ask)
              \/ MayPack(ask) /\ Packed(out, ask) /\ Packed(x, ask)
<1>z. 0 \in 0 .. MaxBody /\ 0 \in {0, 200, 304, 500}
  BY BoundsAssumption
<1>1. CASE Passed(out, ask)
  BY <1>1 DEF Closed, Passed
<1>2. CASE MayPack(ask) /\ Packed(out, ask)
  BY <1>2 DEF Closed, Packed
<1>3. ASSUME NEW s \in {0, ask.head.status}, s = 0 => ask.head.status = 200,
             Waiting(out, ask, s)
      PROVE  x \in Out /\ Short(x, ask)
  <2>1. (IF s = 0 THEN 200 ELSE s) = ask.head.status
    BY <1>3
  <2>2. /\ [ask.head EXCEPT !.status = ask.head.status] = ask.head
        /\ ask.head \in Headers /\ ask.wrote \in 0 .. MaxBody
    BY DEF Exchange, Headers
  <2>3. /\ ~ (out.gz \/ out.passing) /\ ~ out.wrote /\ out.status = s
        /\ out.plain + out.buf = ask.wrote
    BY <1>3, <2>2 DEF Waiting
  <2>4. x = [out EXCEPT !.head = ask.head, !.wrote = TRUE, !.plain = ask.wrote, !.buf = 0]
    BY <2>1, <2>2, <2>3 DEF Closed
  <2>5. x \in Out
    <3>1. ask.head \in Headers /\ ask.wrote \in 0 .. MaxBody
      BY <2>2
    <3>2. [out EXCEPT !.head = ask.head, !.wrote = TRUE, !.plain = ask.wrote, !.buf = 0] \in Out
      BY <3>1, <1>z, ZenonT(40) DEF Out
    <3>3. QED
      BY <2>4, <3>2
  <2>6. Short(x, ask)
    BY <1>3, <2>4 DEF Out, Short, Waiting
  <2>7. QED
    BY <2>5, <2>6
<1>5. QED
  BY <1>1, <1>2, <1>3

-----------------------------------------------------------------------------

\* A request as handleStatic or a renderer takes it.
LEMMA HandledPage ==
    ASSUME NEW takes \in SUBSET Coding, NEW a, a = Handled("page", takes)
    PROVE  /\ a \in Exchange
           /\ a.pc = "run" /\ a.head = NoHead /\ a.left = 0 /\ a.wrote = 0 /\ a.what = "page"
<1>1. a = [NoAsk EXCEPT !.pc = "run", !.takes = takes]
  BY DEF Handled
<1>2. QED
  BY <1>1, NothingOut DEF NoAsk, Exchange

LEMMA HandledStatic ==
    ASSUME DeliveryTypeOK, TagTells, NEW takes \in SUBSET Coding
    PROVE  /\ Handled("static", takes) \in Exchange
           /\ Handled("static", takes).pc = "run" /\ Handled("static", takes).wrote = 0
           /\ Handled("static", takes).left \in 0 .. MaxBody
           /\ Handled("static", takes).takes = takes
           /\ Handled("static", takes).head.enc = PackedAs(takes)
           /\ Handled("static", takes).head.tag = <<build, PackedAs(takes)>>
           /\ Handled("static", takes).head.status \in {200, 304}
           /\ Handled("static", takes).head.status = 304 =>
                 held.version = build /\ (held.enc # "" => held.enc \in takes)
<1> DEFINE match == IF held # NoTag THEN held.tag ELSE NoTag
           coding == PackedAs(takes)
           itself == <<build, coding>>
           same == match # NoTag /\ match = itself
           head == [status |-> IF same THEN 304 ELSE 200, enc |-> coding, tag |-> itself,
                    length |-> FALSE]
           left == IF same THEN 0 ELSE file.size
<1>1. Handled("static", takes) =
          [pc |-> "run", what |-> "static", takes |-> takes, match |-> match, head |-> head,
           left |-> left, wrote |-> 0]
  BY DEF Handled, TagOf
<1>2. coding \in Packing /\ (coding # "" => coding \in takes)
  BY PackedTaken
<1>3. itself \in Tag
  BY <1>2 DEF DeliveryTypeOK, Tag, Packing, Coding
<1>4. match \in Tag
  BY DEF DeliveryTypeOK, CachedCopy, Tag
<1>5. left \in 0 .. MaxBody /\ 0 \in 0 .. MaxBody
  BY BoundsAssumption DEF DeliveryTypeOK, StaticFile
<1>6. (IF same THEN 304 ELSE 200) \in {200, 304}
  OBVIOUS
<1>7. same => held # NoTag /\ held.tag = itself
  OBVIOUS
<1>8. same => held.version = build /\ held.enc = coding
  BY <1>7 DEF TagTells
<1> HIDE DEF match, coding, itself, same, left
<1>9. head \in Headers
  BY <1>2, <1>3 DEF Headers
<1>12. head.enc = coding /\ head.tag = itself /\ head.status = (IF same THEN 304 ELSE 200)
  OBVIOUS
<1> HIDE DEF head
<1>10. Handled("static", takes) \in Exchange
  <2>1. "run" \in {"no", "run", "done"} /\ "static" \in {"static", "page"}
    OBVIOUS
  <2>2. QED
    BY <1>1, <1>4, <1>5, <1>9, <2>1 DEF Exchange
<1>11. /\ Handled("static", takes).pc = "run" /\ Handled("static", takes).wrote = 0
       /\ Handled("static", takes).left = left /\ Handled("static", takes).takes = takes
       /\ Handled("static", takes).head = head
  BY <1>1
<1>13. Handled("static", takes).head.status = 304 => same
  BY <1>11, <1>12
<1>14. /\ Handled("static", takes).head.enc = PackedAs(takes)
       /\ Handled("static", takes).head.tag = <<build, PackedAs(takes)>>
  BY <1>11, <1>12 DEF coding, itself
<1>15. Handled("static", takes).head.status \in {200, 304}
  BY <1>6, <1>11, <1>12, Zenon
<1>16. held.enc # "" /\ same => held.enc \in takes
  BY <1>2, <1>8
<1>17. Handled("static", takes).left \in 0 .. MaxBody
  BY <1>5, <1>11, Zenon
<1>18. QED
  BY <1>8, <1>10, <1>11, <1>13, <1>14, <1>15, <1>16, <1>17, Zenon

LEMMA NoAskStands ==
    DeliveryTypeOK /\ ask' = NoAsk => AskStands' /\ OutStands'
BY DEF NoAsk, AskStands, OutStands

LEMMA ArrivesStep ==
    ASSUME DeliveryIInv, NEW what \in {"static", "page"}, NEW takes \in SUBSET Coding,
           Arrives(what, takes)
    PROVE  DeliveryIInv'
<1>0. DeliveryTypeOK /\ TagTells
  BY DEF DeliveryIInv
<1>1. ask' = Handled(what, takes) /\ out' = NoOut /\ UNCHANGED <<build, file, held>>
  BY DEF Arrives
<1>2. /\ ask' \in Exchange /\ ask'.pc = "run" /\ ask'.wrote = 0
      /\ ask'.left \in 0 .. MaxBody
  <2>1. CASE what = "page"
    BY <1>1, <2>1, HandledPage, BoundsAssumption
  <2>2. CASE what = "static"
    <3>1. ask' = Handled("static", takes)
      BY <1>1, <2>2
    <3>2. QED
      BY <1>0, <3>1, HandledStatic
  <2>3. QED
    BY <2>1, <2>2
<1>3. DeliveryTypeOK'
  BY <1>0, <1>1, <1>2, NothingOut DEF DeliveryTypeOK
<1>4. AskStands'
  <2>1. ask'.left + ask'.wrote <= MaxBody
    BY <1>2, BoundsAssumption
  <2>2. CASE what = "page"
    <3>1. ask'.head = NoHead /\ ask'.what = "page"
      BY <1>1, <2>2, HandledPage
    <3>2. NoHead.status = 0 /\ NoHead.enc = ""
      BY DEF NoHead
    <3>3. ask'.head.status = 0 /\ ask'.head.enc = ""
      BY <3>1, <3>2
    <3>4. QED
      <4>1. ask'.head.status # 304
        BY <3>3, NoStatus, Zenon
      <4>2. ask'.what # "static"
        BY <3>1
      <4>3. QED
        BY <1>2, <2>1, <3>3, <4>1, <4>2, Zenon DEF AskStands
  <2>3. CASE what = "static"
    <3>1. /\ ask'.takes = takes /\ ask'.head.enc = PackedAs(takes)
          /\ ask'.head.tag = <<build, PackedAs(takes)>>
          /\ ask'.head.status = 304 =>
                 held.version = build /\ (held.enc # "" => held.enc \in takes)
      <4>1. ask' = Handled("static", takes)
        BY <1>1, <2>3
      <4>2. QED
        BY <1>0, <4>1, HandledStatic
    <3>2. PackedAs(takes) # "" => PackedAs(takes) \in takes
      BY PackedTaken
    <3>3. QED
      BY <1>1, <1>2, <2>1, <3>1, <3>2 DEF AskStands
  <2>4. QED
    BY <2>2, <2>3
<1>5. OutStands'
  BY <1>1, <1>2 DEF OutStands, Waiting, NoOut
<1>6. TagTells'
  BY <1>0, <1>1 DEF TagTells
<1>7. QED
  BY <1>3, <1>4, <1>5, <1>6 DEF DeliveryIInv

LEMMA RenderStep == ASSUME DeliveryIInv, Render PROVE DeliveryIInv'
<1> USE DEF DeliveryIInv
<1>1. PICK status \in {200, 500}, length \in BOOLEAN, n \in 0 .. MaxBody :
         ask' = [ask EXCEPT !.head = [NoHead EXCEPT !.status = status, !.length = length],
                            !.left = n]
  BY DEF Render
<1>2. ask.pc = "run" /\ ask.what = "page" /\ ask.head.status = 0 /\ UNCHANGED <<build, file, held, out>>
  BY DEF Render
<1>3. ask \in Exchange /\ ask.wrote = 0
  BY <1>2 DEF DeliveryTypeOK, AskStands
<1> DEFINE h == [NoHead EXCEPT !.status = status, !.length = length]
<1>4. h \in Headers /\ h.status = status /\ h.enc = ""
  <2>1. h \in Headers /\ h.status = status /\ h.enc = NoHead.enc
    BY NothingOut DEF Headers
  <2>2. NoHead.enc = ""
    BY DEF NoHead
  <2>3. QED
    BY <2>1, <2>2
<1> HIDE DEF h
<1>5. ask' \in Exchange
  BY <1>1, <1>3, <1>4 DEF Exchange, h
<1>6. /\ ask'.pc = "run" /\ ask'.what = "page" /\ ask'.head = h /\ ask'.left = n
      /\ ask'.wrote = 0
  BY <1>1, <1>2, <1>3 DEF Exchange, h
<1>7. DeliveryTypeOK'
  BY <1>2, <1>5 DEF DeliveryTypeOK
<1>8. AskStands'
  <2>1. ask'.left + ask'.wrote <= MaxBody
    BY <1>6, BoundsAssumption
  <2>2. ask'.head.status \in {200, 500} /\ ask'.head.enc = ""
    BY <1>4, <1>6
  <2>3. QED
    <3>1. ask'.head.status # 0 /\ ask'.head.status # 304
      <4>1. status # 0 /\ status # 304
        BY PageStatus
      <4>2. ask'.head.status = status
        BY <1>4, <1>6
      <4>3. QED
        BY <4>1, <4>2
    <3>2. ask'.what # "static" /\ ask'.head.enc = ""
      BY <1>6, <2>2
    <3> QED
      BY <1>6, <2>1, <3>1, <3>2, Zenon DEF AskStands
<1>9. OutStands'
  <2>1. Waiting(out, ask, 0)
    BY <1>2 DEF OutStands, Waiting, Packed, Passed, MayPack
  <2>2. QED
    BY <1>2, <1>3, <1>6, <2>1 DEF OutStands, Waiting
<1>10. TagTells'
  BY <1>2 DEF TagTells
<1>11. QED
  BY <1>7, <1>8, <1>9, <1>10

LEMMA AnnounceStep == ASSUME DeliveryIInv, Announce PROVE DeliveryIInv'
<1>0. DeliveryTypeOK /\ AskStands /\ OutStands /\ TagTells
  BY DEF DeliveryIInv
<1>1. /\ ask.pc = "run" /\ ask.head.status # 0 /\ ask.wrote = 0 /\ out.status = 0
      /\ out' = WithHeader(out, ask.head.status) /\ UNCHANGED <<build, file, held, ask>>
  BY DEF Announce
<1>2. ask \in Exchange /\ out \in Out
  BY <1>0 DEF DeliveryTypeOK
<1>3. Waiting(out, ask, 0)
  BY <1>0, <1>1 DEF OutStands, Waiting, Passed, Packed
<1>4. /\ out' \in Out
      /\ Passed(out', ask) \/ (MayPack(ask) /\ Waiting(out', ask, ask.head.status))
  BY <1>1, <1>2, <1>3, HeaderSent
<1>5. DeliveryTypeOK'
  BY <1>0, <1>1, <1>4 DEF DeliveryTypeOK
<1>6. AskStands' /\ TagTells'
  BY <1>0, <1>1 DEF AskStands, TagTells
<1>7. OutStands'
  <2>1. ask' = ask
    BY <1>1
  <2>2. Passed(out', ask') \/ (MayPack(ask') /\ Waiting(out', ask', ask'.head.status))
    BY <1>4, <2>1
  <2>3. QED
    BY <1>1, <2>1, <2>2 DEF OutStands
<1>8. QED
  BY <1>5, <1>6, <1>7 DEF DeliveryIInv

LEMMA WriteSomeStep == ASSUME DeliveryIInv, WriteSome PROVE DeliveryIInv'
<1>0. DeliveryTypeOK /\ AskStands /\ OutStands /\ TagTells
  BY DEF DeliveryIInv
<1>1. PICK n \in 1 .. ask.left :
         out' = Accepted(out, n) /\ ask' = [ask EXCEPT !.left = @ - n, !.wrote = @ + n]
  BY DEF WriteSome
<1>2. /\ ask.pc = "run" /\ (out.status # 0 \/ ask.head.status = 200)
      /\ UNCHANGED <<build, file, held>>
  BY DEF WriteSome
<1>3. ask \in Exchange /\ out \in Out /\ ask.left + ask.wrote <= MaxBody
  BY <1>0, <1>2 DEF DeliveryTypeOK, AskStands
<1> DEFINE w == IF out.status = 0 THEN WithHeader(out, 200) ELSE out
<1>4. /\ w \in Out
      /\ \/ Passed(w, ask)
         \/ MayPack(ask) /\ Waiting(w, ask, ask.head.status)
         \/ MayPack(ask) /\ Packed(w, ask)
  <2>1. CASE out.status = 0
    <3>1. ask.head.status = 200 /\ ask.head.status # 0
      BY <1>2, <2>1
    <3>2. Waiting(out, ask, 0) /\ ask.wrote = 0
      BY <1>0, <1>2, <2>1, <3>1 DEF OutStands, Waiting, Passed, Packed
    <3>3. w = WithHeader(out, ask.head.status)
      BY <2>1, <3>1
    <3> HIDE DEF w
    <3>4. QED
      BY <1>3, <3>1, <3>2, <3>3, HeaderSent
  <2>2. CASE out.status # 0
    BY <1>0, <1>2, <1>3, <2>2 DEF OutStands, Waiting
  <2>3. QED
    BY <2>1, <2>2
<1>5. out' = Written(w, n)
  BY <1>1 DEF Accepted
<1> HIDE DEF w
<1>6. /\ out' \in Out
      /\ \/ Passed(out', ask')
         \/ MayPack(ask') /\ Waiting(out', ask', ask'.head.status)
         \/ MayPack(ask') /\ ask'.wrote > 0 /\ Packed(out', ask')
  BY <1>1, <1>3, <1>4, <1>5, BytesWritten
<1>7. ask.left \in 0 .. MaxBody /\ ask.wrote \in 0 .. MaxBody
  BY <1>3 DEF Exchange
<1>8. ask.left - n \in 0 .. MaxBody /\ ask.wrote + n \in 0 .. MaxBody
      /\ (ask.left - n) + (ask.wrote + n) <= MaxBody
  BY <1>3, <1>7, BoundsAssumption
<1>9. /\ ask' \in Exchange /\ ask'.pc = ask.pc /\ ask'.head = ask.head /\ ask'.what = ask.what
      /\ ask'.takes = ask.takes /\ ask'.left = ask.left - n /\ ask'.wrote = ask.wrote + n
  BY <1>1, <1>3, <1>8 DEF Exchange
<1>10. DeliveryTypeOK'
  BY <1>0, <1>2, <1>6, <1>9 DEF DeliveryTypeOK
<1>11. ask.head.status # 0
  <2>1. CASE out.status = 0
    BY <1>2, <2>1
  <2>2. CASE out.status # 0
    BY <1>0, <1>2, <2>2, MayPackMeans DEF OutStands, Waiting
  <2>3. QED
    BY <2>1, <2>2
<1>12. AskStands'
  <2>1. ask'.left + ask'.wrote <= MaxBody
    BY <1>8, <1>9
  <2>2. QED
    BY <1>0, <1>2, <1>9, <1>11, <2>1 DEF AskStands
<1>13. OutStands'
  BY <1>2, <1>6, <1>9, <1>11 DEF OutStands
<1>14. TagTells'
  BY <1>0, <1>2 DEF TagTells
<1>15. QED
  BY <1>10, <1>12, <1>13, <1>14 DEF DeliveryIInv

LEMMA FinishStep == ASSUME DeliveryIInv, Finish PROVE DeliveryIInv'
<1>0. DeliveryTypeOK /\ AskStands /\ OutStands /\ TagTells
  BY DEF DeliveryIInv
<1>1. /\ ask.pc = "run" /\ ask.head.status # 0 /\ out' = Closed(out)
      /\ ask' = [ask EXCEPT !.pc = "done"] /\ UNCHANGED <<build, file, held>>
      /\ (out.status # 0 \/ ask.head.status = 200)
  BY DEF Finish
<1>2. ask \in Exchange /\ out \in Out
  BY <1>0 DEF DeliveryTypeOK
<1>3. /\ ask' \in Exchange /\ ask'.pc = "done" /\ ask'.head = ask.head /\ ask'.what = ask.what
      /\ ask'.takes = ask.takes /\ ask'.left = ask.left /\ ask'.wrote = ask.wrote
  BY <1>1, <1>2 DEF Exchange
<1>4. \/ Waiting(out, ask, 0) /\ ask.head.status = 200
      \/ Passed(out, ask)
      \/ MayPack(ask) /\ Waiting(out, ask, ask.head.status)
      \/ MayPack(ask) /\ ask.wrote > 0 /\ Packed(out, ask)
  BY <1>0, <1>1 DEF OutStands, Waiting
<1>5. /\ out' \in Out
      /\ \/ Passed(out', ask)
         \/ Short(out', ask)
         \/ MayPack(ask) /\ Packed(out, ask) /\ Packed(out', ask)
  BY <1>1, <1>2, <1>4, Ends
<1>6. Packed(out, ask) => ask.wrote > 0
  BY <1>0, <1>1, <1>4 DEF Packed, Passed, Waiting
<1>7. OutStands'
  <2>1. Passed(out', ask) <=> Passed(out', ask')
    BY <1>3 DEF Passed
  <2>2. Short(out', ask) <=> Short(out', ask')
    BY <1>3 DEF Short
  <2>3. (Packed(out', ask) <=> Packed(out', ask')) /\ (MayPack(ask) <=> MayPack(ask'))
    BY <1>3 DEF Packed, MayPack
  <2>4. QED
    BY <1>1, <1>3, <1>5, <1>6, <2>1, <2>2, <2>3 DEF OutStands
<1>8. DeliveryTypeOK'
  BY <1>0, <1>1, <1>3, <1>5 DEF DeliveryTypeOK
<1>9. AskStands'
  <2>1. ask.pc # "no" /\ build' = build /\ held' = held
    BY <1>1
  <2>2. QED
    BY <1>0, <1>3, <2>1, Zenon DEF AskStands
<1>10. TagTells'
  BY <1>0, <1>1 DEF TagTells
<1>11. QED
  BY <1>7, <1>8, <1>9, <1>10 DEF DeliveryIInv

LEMMA KeepStep == ASSUME DeliveryIInv, Keep PROVE DeliveryIInv'
<1>0. DeliveryTypeOK /\ AskStands /\ OutStands /\ TagTells
  BY DEF DeliveryIInv
<1>1. ask.pc = "done" /\ ask' = NoAsk /\ out' = NoOut /\ UNCHANGED <<build, file>>
  BY DEF Keep
<1>2. AskStands' /\ OutStands'
  BY <1>0, <1>1, NoAskStands
<1>3. ask \in Exchange /\ out \in Out /\ build \in 0 .. MaxBuild
  BY <1>0 DEF DeliveryTypeOK
<1>4. held' \in {NoTag} \union CachedCopy /\ TagTells'
  <2>1. CASE held' = held
    BY <1>0, <2>1 DEF DeliveryTypeOK, TagTells
  <2>2. CASE /\ ask.what = "static" /\ out.head.status = 200
             /\ held' = [version |-> build, enc |-> out.head.enc, tag |-> out.head.tag,
                         took |-> ask.takes]
    <3>1. out.head \in Headers /\ out.head.enc \in Packing /\ out.head.tag \in Tag
          /\ ask.takes \in SUBSET Coding
      BY <1>3 DEF Out, Headers, Exchange
    <3>2. held' \in CachedCopy
      BY <1>3, <2>2, <3>1 DEF CachedCopy
    <3>3. held'.tag = out.head.tag /\ held'.version = build /\ held'.enc = out.head.enc
      BY <2>2
    <3>4. ask.head.tag = <<build, ask.head.enc>>
      BY <1>0, <1>1, <2>2 DEF AskStands
    <3>5. out.head.tag = <<build, out.head.enc>>
      <4>1. CASE out.head = ask.head
        BY <3>4, <4>1
      <4>2. CASE ask.head.enc = "" /\ out.head = Compressed(ask.head)
        <5>1. ask.head \in Headers
          BY <1>3 DEF Exchange
        <5>2. out.head.enc = "gzip" /\ out.head.tag = GzipTag(ask.head.tag)
          BY <4>2, <5>1, CompressedFields
        <5>3. GzipTag(<<build, "">>) = <<build, "gzip">>
          BY DEF GzipTag, NoTag
        <5>4. QED
          BY <3>4, <4>2, <5>2, <5>3
      <4>3. QED
        BY <1>0, <1>1, <4>1, <4>2 DEF OutStands, Passed, Short, Packed, MayPack
    <3>6. QED
      BY <3>2, <3>3, <3>5 DEF TagTells
  <2>3. QED
    BY <2>1, <2>2 DEF Keep
<1>5. DeliveryTypeOK'
  BY <1>0, <1>1, <1>4, NothingOut DEF DeliveryTypeOK
<1>6. QED
  BY <1>2, <1>4, <1>5 DEF DeliveryIInv

LEMMA NewBuildStep == ASSUME DeliveryIInv, NewBuild PROVE DeliveryIInv'
<1>0. DeliveryTypeOK /\ TagTells
  BY DEF DeliveryIInv
<1>1. /\ ask' = NoAsk /\ out' = NoOut /\ build < MaxBuild /\ build' = build + 1
      /\ UNCHANGED <<file, held>>
  BY DEF NewBuild
<1>2. build' \in 0 .. MaxBuild
  BY <1>0, <1>1, BoundsAssumption DEF DeliveryTypeOK
<1>3. DeliveryTypeOK'
  BY <1>0, <1>1, <1>2, NothingOut DEF DeliveryTypeOK
<1>4. AskStands' /\ OutStands'
  BY <1>0, <1>1, NoAskStands
<1>5. TagTells'
  BY <1>0, <1>1 DEF TagTells
<1>6. QED
  BY <1>3, <1>4, <1>5 DEF DeliveryIInv

\* Every state of an exchange satisfies the inductive invariant.
THEOREM DeliveryInvariant == DeliverySpec => []DeliveryIInv
<1>1. DeliveryIInv /\ [DeliveryNext]_deliveryVars => DeliveryIInv'
  <2> SUFFICES ASSUME DeliveryIInv, [DeliveryNext]_deliveryVars PROVE DeliveryIInv'
    OBVIOUS
  <2>1. CASE UNCHANGED deliveryVars
    BY <2>1 DEF deliveryVars, DeliveryIInv, DeliveryTypeOK, AskStands, OutStands, TagTells
  <2>2. QED
    BY <2>1, ArrivesStep, RenderStep, AnnounceStep, WriteSomeStep, FinishStep, KeepStep,
       NewBuildStep DEF DeliveryNext
<1> QED
  BY <1>1, DeliveryInitIInv, PTL DEF DeliverySpec

\* What arrives is what was written, once, packed as its headers say, and a 304
\* is for a copy of this build that the client can read (compress.go:82,
\* main.go:563), for any lengths, statuses and builds.
THEOREM DeliveryTheorem == DeliverySpec => []ArrivesWhole
<1>1. DeliveryIInv => ArrivesWhole
  <2> SUFFICES ASSUME DeliveryIInv, ask.pc = "done" PROVE
        /\ out.plain + out.packed = ask.wrote /\ out.buf = 0
        /\ out.plain = 0 \/ out.packed = 0
        /\ out.head.status = ask.head.status
        /\ ask.wrote > 0 => out.head.enc = ReallyPacked
        /\ out.head.enc # "" => out.head.enc \in ask.takes
        /\ out.head.length => out.packed = 0
        /\ out.head.status = 304 =>
              held.version = build /\ (held.enc # "" => held.enc \in ask.takes)
    BY DEF ArrivesWhole
  <2>0. DeliveryTypeOK /\ AskStands /\ OutStands
    BY DEF DeliveryIInv
  <2>1. /\ ask.head.enc # "" => ask.head.enc \in ask.takes
        /\ ask.head.status = 304 =>
              held.version = build /\ (held.enc # "" => held.enc \in ask.takes)
    BY <2>0 DEF AskStands
  <2>2. ask.head \in Headers /\ ask.wrote \in Nat
    BY <2>0 DEF DeliveryTypeOK, Exchange
  <2>3. CASE Passed(out, ask) \/ Short(out, ask)
    <3>1. out.head = ask.head /\ out.buf = 0 /\ out.plain = ask.wrote /\ out.packed = 0
      BY <2>3 DEF Passed, Short
    <3>2. out.plain + out.packed = ask.wrote /\ ReallyPacked = ask.head.enc
      BY <2>2, <3>1 DEF ReallyPacked
    <3>3. QED
      BY <2>1, <3>1, <3>2, Zenon
  <2>4. CASE MayPack(ask) /\ ask.wrote > 0 /\ Packed(out, ask)
    <3>1. /\ out.head = Compressed(ask.head) /\ out.buf = 0 /\ out.plain = 0
          /\ out.packed = ask.wrote
      BY <2>4 DEF Packed
    <3>2. out.head.status = ask.head.status /\ out.head.enc = "gzip" /\ out.head.length = FALSE
      BY <2>2, <3>1, CompressedFields
    <3>3. ask.head.status # 304 /\ "gzip" \in ask.takes
      BY <2>4, MayPackMeans
    <3>4. out.plain + out.packed = ask.wrote /\ ReallyPacked = "gzip"
      BY <2>2, <2>4, <3>1 DEF ReallyPacked
    <3>5. QED
      BY <3>1, <3>2, <3>3, <3>4, Zenon
  <2>5. QED
    BY <2>0, <2>3, <2>4 DEF OutStands
<1> QED
  BY <1>1, DeliveryInvariant, PTL

-----------------------------------------------------------------------------
(* Pictures: what a message refers to is in it, or is accounted for.       *)

\* A picture that a window's message refers to is in the store, or was excused,
\* and a message being sent has those it refers to, but for the excused.
PagesThere == \A c \in Composers : pages[c] \subseteq DOMAIN items \union excused
SendingWhole == \A c \in Composers : inlined[c].on =>
                    inlined[c].of \ inlined[c].has \subseteq excused

PictureTypes ==
    /\ pages \in [Composers -> SUBSET Picture]
    /\ inlined \in [Composers -> Sending]

PicturesIInv == PictureTypes /\ PagesThere /\ SendingWhole /\ SentWhole

\* Whatever a step drops from the store it excuses, and it excuses nothing less.
Accounted ==
    /\ excused \subseteq excused'
    /\ DOMAIN items \ DOMAIN items' \subseteq excused'

\* evictLocked is given the store and what was put in it.
LEMMA EvictedAccounted ==
    ASSUME NEW its, NEW order, Kept(its, order), DOMAIN items \subseteq DOMAIN its
    PROVE  /\ Accounted
           /\ DOMAIN its \subseteq DOMAIN items' \union excused'
  BY DEF Kept, Accounted

LEMMA ReapAccounted ==
    ASSUME NEW k, Reap(k) PROVE Accounted
<1> DEFINE dropped == ToSet(SubSeq(recent, 1, k))
<1>1. items' = Restrict(items, DOMAIN items \ dropped) /\ excused' = excused \union dropped
  BY DEF Reap, Forgotten
<1> HIDE DEF dropped
<1>2. DOMAIN items' = DOMAIN items \ dropped
  BY <1>1 DEF Restrict
<1>3. QED
  BY <1>1, <1>2 DEF Accounted

\* Nothing that matters is lost where no message and no window changed.
LEMMA WholeKept ==
    ASSUME PicturesIInv, Accounted, UNCHANGED <<pages, inlined, sentOut>>
    PROVE  PicturesIInv'
  BY DEF PicturesIInv, PictureTypes, PagesThere, SendingWhole, SentWhole, Accounted

LEMMA PutKeeps ==
    ASSUME PicturesIInv, NEW c \in Composers, NEW p \in Picture, Put(c, p)
    PROVE  PicturesIInv'
<1> DEFINE its == [q \in DOMAIN items \union {p} |->
                     IF q = p THEN [original |-> TRUE, copies |-> {100}] ELSE items[q]]
<1>1. DOMAIN its = DOMAIN items \union {p}
  OBVIOUS
<1>2. Kept(its, Append(recent, p))
  BY DEF Put
<1> HIDE DEF its
<1>3. Accounted /\ p \in DOMAIN items' \union excused'
  BY <1>1, <1>2, EvictedAccounted
<1>4. /\ pages' = [pages EXCEPT ![c] = @ \union {p}]
      /\ inlined' = inlined /\ sentOut' = sentOut
  BY DEF Put
<1>5. /\ pages' \in [Composers -> SUBSET Picture]
      /\ \A d \in Composers : pages'[d] \subseteq pages[d] \union {p}
  BY <1>4 DEF PicturesIInv, PictureTypes
<1>6. QED
  BY <1>3, <1>4, <1>5
  DEF PicturesIInv, PictureTypes, PagesThere, SendingWhole, SentWhole, Accounted

LEMMA CopyKeeps ==
    ASSUME PicturesIInv, NEW c \in Composers, NEW p \in Picture, Copy(c, p)
    PROVE  PicturesIInv'
<1>1. /\ pages' = [pages EXCEPT ![c] = @ \union {p}]
      /\ items' = items /\ excused' = excused /\ inlined' = inlined /\ sentOut' = sentOut
  BY DEF Copy
<1>2. /\ pages' \in [Composers -> SUBSET Picture]
      /\ \A d \in Composers : pages'[d] \subseteq pages[d] \union {p}
  BY <1>1 DEF PicturesIInv, PictureTypes
<1>3. p \in DOMAIN items \union excused
  BY DEF Copy, PicturesIInv, PagesThere
<1>4. QED
  BY <1>1, <1>2, <1>3
  DEF PicturesIInv, PictureTypes, PagesThere, SendingWhole, SentWhole

LEMMA InlineKeeps ==
    ASSUME PicturesIInv, NEW c \in Composers, Inline(c)
    PROVE  PicturesIInv'
<1> DEFINE new == [on |-> TRUE, of |-> pages[c], has |-> There(c)]
<1>1. /\ inlined' = [inlined EXCEPT ![c] = new]
      /\ items' = items /\ excused' = excused /\ pages' = pages /\ sentOut' = sentOut
  BY DEF Inline
<1>2. new \in Sending /\ new.of \ new.has \subseteq excused
  BY DEF There, Sending, PicturesIInv, PictureTypes, PagesThere
<1> HIDE DEF new
<1>3. /\ inlined' \in [Composers -> Sending] /\ inlined'[c] = new
      /\ \A d \in Composers \ {c} : inlined'[d] = inlined[d]
  BY <1>1, <1>2 DEF PicturesIInv, PictureTypes
<1>4. QED
  BY <1>1, <1>2, <1>3
  DEF PicturesIInv, PictureTypes, PagesThere, SendingWhole, SentWhole

LEMMA NotSendingIs == NotSending \in Sending /\ ~ NotSending.on
  BY DEF NotSending, Sending

LEMMA UndeliveredKeeps ==
    ASSUME PicturesIInv, NEW c \in Composers, Undelivered(c)
    PROVE  PicturesIInv'
<1>1. /\ inlined' = [inlined EXCEPT ![c] = NotSending]
      /\ items' = items /\ excused' = excused /\ pages' = pages /\ sentOut' = sentOut
  BY DEF Undelivered
<1>2. /\ inlined' \in [Composers -> Sending] /\ ~ inlined'[c].on
      /\ \A d \in Composers \ {c} : inlined'[d] = inlined[d]
  BY <1>1, NotSendingIs DEF PicturesIInv, PictureTypes
<1>3. QED
  BY <1>1, <1>2
  DEF PicturesIInv, PictureTypes, PagesThere, SendingWhole, SentWhole

LEMMA DeliveredKeeps ==
    ASSUME PicturesIInv, NEW c \in Composers, Delivered(c)
    PROVE  PicturesIInv'
<1> DEFINE has == inlined[c].has
<1>1. /\ inlined' = [inlined EXCEPT ![c] = NotSending]
      /\ pages' = [pages EXCEPT ![c] = {}]
      /\ sentOut' = inlined[c] /\ inlined[c].on
      /\ excused' = excused \union UNION {pages[d] \intersect has : d \in Composers \ {c}}
      /\ items' = Restrict(items, DOMAIN items \ has)
  BY DEF Delivered, Forgotten
<1> HIDE DEF has
<1>2. DOMAIN items' = DOMAIN items \ has
  BY <1>1 DEF Restrict
<1>3. /\ inlined' \in [Composers -> Sending] /\ ~ inlined'[c].on
      /\ \A d \in Composers \ {c} : inlined'[d] = inlined[d]
  BY <1>1, NotSendingIs DEF PicturesIInv, PictureTypes
<1>4. /\ pages' \in [Composers -> SUBSET Picture] /\ pages'[c] = {}
      /\ \A d \in Composers \ {c} : pages'[d] = pages[d]
  BY <1>1 DEF PicturesIInv, PictureTypes
<1>5. /\ excused \subseteq excused'
      /\ \A d \in Composers \ {c} : pages[d] \intersect has \subseteq excused'
  BY <1>1
<1>6. PagesThere'
  BY <1>2, <1>4, <1>5 DEF PicturesIInv, PagesThere
<1>7. SendingWhole' /\ SentWhole'
  BY <1>1, <1>3, <1>5 DEF PicturesIInv, SendingWhole, SentWhole
<1>8. QED
  BY <1>3, <1>4, <1>6, <1>7 DEF PicturesIInv, PictureTypes

LEMMA PicturesStep == PicturesIInv /\ [PicturesNext]_pictureVars => PicturesIInv'
<1> SUFFICES ASSUME PicturesIInv, [PicturesNext]_pictureVars PROVE PicturesIInv'
  OBVIOUS
<1>1. ASSUME NEW c \in Composers, NEW p \in Picture, Put(c, p) \/ Copy(c, p)
      PROVE  PicturesIInv'
  BY <1>1, PutKeeps, CopyKeeps
<1>2. ASSUME NEW c \in Composers, SaveDraft(c) PROVE PicturesIInv'
  <2>1. items' = WithoutOriginals(items, There(c)) /\ excused' = excused
        /\ UNCHANGED <<pages, inlined, sentOut>>
    BY <1>2 DEF SaveDraft
  <2>2. DOMAIN items' = DOMAIN items
    BY <2>1 DEF WithoutOriginals
  <2>3. QED
    BY <2>1, <2>2, WholeKept DEF Accounted
<1>3. ASSUME NEW c \in Composers, Inline(c) \/ Undelivered(c) \/ Delivered(c)
      PROVE  PicturesIInv'
  BY <1>3, InlineKeeps, UndeliveredKeeps, DeliveredKeeps
<1>4. ASSUME NEW p \in Picture, Fetch(p) \/ \E z \in Percent : StartScaling(p, z)
      PROVE  PicturesIInv'
  <2>1. UNCHANGED <<items, excused, pages, inlined, sentOut>>
    BY <1>4 DEF Fetch, StartScaling
  <2>2. QED
    BY <2>1, WholeKept DEF Accounted
<1>5. CASE Scaled
  <2>1. UNCHANGED <<pages, inlined, sentOut>>
    BY <1>5 DEF Scaled
  <2>2. Accounted
    <3> DEFINE p == scaling.id
               its == [items EXCEPT ![p].copies = @ \union {scaling.percent}]
    <3>1. CASE UNCHANGED <<items, excused>>
      BY <3>1 DEF Accounted
    <3>2. CASE Kept(its, Touched(recent, p))
      <4>1. DOMAIN its = DOMAIN items
        OBVIOUS
      <4> HIDE DEF its
      <4>2. QED
        BY <3>2, <4>1, EvictedAccounted
    <3>3. QED
      BY <1>5, <3>1, <3>2 DEF Scaled
  <2>3. QED
    BY <2>1, <2>2, WholeKept
<1>6. ASSUME NEW k, Reap(k) PROVE PicturesIInv'
  <2>1. UNCHANGED <<pages, inlined, sentOut>>
    BY <1>6 DEF Reap
  <2>2. QED
    BY <1>6, <2>1, ReapAccounted, WholeKept
<1>7. CASE UNCHANGED pictureVars
  BY <1>7, WholeKept DEF pictureVars, Accounted
<1>8. QED
  BY <1>1, <1>2, <1>3, <1>4, <1>5, <1>6, <1>7 DEF PicturesNext

\* What a window's message refers to is in the store or was excused, always.
THEOREM PicturesInvariant == PicturesSpec => []PicturesIInv
<1>1. PicturesInit => PicturesIInv
  BY NotSendingIs DEF PicturesInit, PicturesIInv, PictureTypes, PagesThere,
     SendingWhole, SentWhole, NotSending
<1> QED
  BY <1>1, PicturesStep, PTL DEF PicturesSpec

\* A message goes out with every picture it refers to, but for those that had
\* aged out, been evicted, or gone with another window's (inlineComposerImages).
THEOREM SentWholeTheorem == PicturesSpec => []SentWhole
<1>1. PicturesIInv => SentWhole
  BY DEF PicturesIInv
<1> QED
  BY <1>1, PicturesInvariant, PTL
=============================================================================
