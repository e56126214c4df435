------------------------------ MODULE Contacts ------------------------------
(***************************************************************************)
(* One mailbox's address book, learned from its Sent folder and edited by  *)
(* its owner at the same time.                                             *)
(*                                                                         *)
(* The first request of a process starts a walk in the background: list    *)
(* the folders, read who Sent was addressed to, insert them, read the      *)
(* Autocrypt headers of the inbox, and store each key in turn              *)
(* (contacts.go:247).  Each of these can fail, which ends it until the     *)
(* server is next started, and between any two the owner may add, remove   *)
(* or bring back a contact or paste a key.  What keeps the two apart is in *)
(* the SQL: the walk inserts ON CONFLICT DO NOTHING, a removal keeps the   *)
(* row, and a harvested key has a WHERE of its own.                        *)
(*                                                                         *)
(* A name, a date and where a contact came from decide nothing and are     *)
(* left out.  Keys that do not parse are refused before any of this        *)
(* (validateContactKey).                                                   *)
(***************************************************************************)
EXTENDS Naturals, Sequences

CONSTANTS
    Person,     \* addresses, case folded; the owner's own is not one of them
    PublicKey,  \* armoured keys
    NoSender,   \* the From of a message that has none
    NoneKept,   \* no key
    MaxMail     \* bound: headers in the inbox

ASSUME NoneKeptAssumption ==
    NoneKept \notin PublicKey /\ "" \notin PublicKey \union {NoneKept}
ASSUME NoSenderAssumption == NoSender \notin Person
ASSUME MaxMailAssumption == MaxMail \in Nat

VARIABLES
    book,       \* the contacts table: address -> row, over the rows there are
    walked,     \* ContactStore.scraped, of the process
    walk,       \* the walk, if it is under way
    sentTo,     \* whom the messages in Sent are addressed to
    inbox,      \* headers of the inbox, oldest first
    gone,       \* history: removed by the owner, and not brought back
    byHand      \* history: the key last set by hand, "" where none was

bookVars == <<book, walked, walk, sentTo, inbox, gone, byHand>>

KeptKey == PublicKey \union {NoneKept}

Entry == [removed : BOOLEAN, key : KeptKey, from : {"", "autocrypt", "manual"}]

Header == [from : Person \union {NoSender}, addr : Person, key : PublicKey]

Walk == [pc : {"no", "list", "sent", "learn", "headers", "keys"},
         found : SUBSET Person,             \* as Sent was read
         keys : [Person -> KeptKey]]        \* as the inbox was read

BookTypeOK ==
    /\ \E P \in SUBSET Person : book \in [P -> Entry]
    /\ walked \in BOOLEAN
    /\ walk \in Walk
    /\ sentTo \subseteq Person
    /\ inbox \in Seq(Header) /\ Len(inbox) <= MaxMail
    /\ gone \subseteq Person
    /\ byHand \in [Person -> KeptKey \union {""}]

NoKeys == [p \in Person |-> NoneKept]
NoWalk == [pc |-> "no", found |-> {}, keys |-> NoKeys]
NewEntry == [removed |-> FALSE, key |-> NoneKept, from |-> ""]

Listed == DOMAIN book

\* INSERT ... ON CONFLICT DO NOTHING, of several.
InsertedOnly(P) ==
    [p \in Listed \union P |-> IF p \in Listed THEN book[p] ELSE NewEntry]

-----------------------------------------------------------------------------
(* The walk. *)

\* mailContext starts one beside every request; alreadyScraped lets one of a
\* process go on, and marks the mailbox before anything has been read.
Visit ==
    /\ ~ walked
    /\ walked' = TRUE
    /\ walk' = [NoWalk EXCEPT !.pc = "list"]
    /\ UNCHANGED <<book, sentTo, inbox, gone, byHand>>

\* A command or a statement fails, or there is no Sent folder.
WalkFails ==
    /\ walk.pc \in {"list", "sent", "learn", "headers"}
    /\ walk' = NoWalk
    /\ UNCHANGED <<book, walked, sentTo, inbox, gone, byHand>>

ListSent ==
    /\ walk.pc = "list"
    /\ walk' = [walk EXCEPT !.pc = "sent"]
    /\ UNCHANGED <<book, walked, sentTo, inbox, gone, byHand>>

\* SentRecipients, to one entry an address.
ReadSent ==
    /\ walk.pc = "sent"
    /\ walk' = [walk EXCEPT !.pc = "learn", !.found = sentTo]
    /\ UNCHANGED <<book, walked, sentTo, inbox, gone, byHand>>

\* Learn, one transaction.
Learn ==
    /\ walk.pc = "learn"
    /\ book' = InsertedOnly(walk.found)
    /\ walk' = [walk EXCEPT !.pc = "headers"]
    /\ UNCHANGED <<walked, sentTo, inbox, gone, byHand>>

\* parseAutocrypt: a header about another address than the sender's is none.
\* A message whose envelope has no From has no sender to compare with, and its
\* header passes.  A slip: any header is one.
AnyAddress(h) == h.addr \in Person
Announces(h) == h.from = NoSender \/ h.addr = h.from

\* HeaderKeys: of several headers for an address the last.
Harvested(p) ==
    LET I == {i \in DOMAIN inbox : inbox[i].addr = p /\ Announces(inbox[i])}
    IN  IF I = {} THEN NoneKept
        ELSE inbox[CHOOSE i \in I : \A j \in I : j <= i].key

ReadHeaders ==
    /\ walk.pc = "headers"
    /\ walk' = [walk EXCEPT !.pc = "keys", !.keys = [p \in Person |-> Harvested(p)]]
    /\ UNCHANGED <<book, walked, sentTo, inbox, gone, byHand>>

\* The WHERE of SetKey for "autocrypt".
Fills(p) == p \in Listed /\ book[p].from # "manual" /\ book[p].key = NoneKept

\* What its SET leaves.
WithKey(p, k, from) == [book EXCEPT ![p] = [@ EXCEPT !.key = k, !.from = from]]

\* SetKey for one address, in the order a Go map gives; an error is passed over.
HarvestKey(p) ==
    /\ walk.pc = "keys" /\ walk.keys[p] # NoneKept
    /\ walk' = [walk EXCEPT !.keys[p] = NoneKept]
    /\ \/ book' = IF Fills(p)
                  THEN WithKey(p, walk.keys[p], "autocrypt")
                  ELSE book
       \/ UNCHANGED book
    /\ UNCHANGED <<walked, sentTo, inbox, gone, byHand>>

WalkEnds ==
    /\ walk.pc = "keys" /\ walk.keys = NoKeys
    /\ walk' = NoWalk
    /\ UNCHANGED <<book, walked, sentTo, inbox, gone, byHand>>

-----------------------------------------------------------------------------
(* The owner's contacts screen. *)

\* Upsert: a new row, or the old one with its tombstone cleared.
SaveContact(p) ==
    /\ book' = [q \in Listed \union {p} |->
                   IF q \notin Listed THEN NewEntry
                   ELSE IF q = p THEN [book[q] EXCEPT !.removed = FALSE] ELSE book[q]]
    /\ gone' = gone \ {p}
    /\ UNCHANGED <<walked, walk, sentTo, inbox, byHand>>

\* What is left of a row.  A slip: nothing.
Dropped(p) == [q \in Listed \ {p} |-> book[q]]
Buried(p) == [book EXCEPT ![p].removed = TRUE]

RemoveContact(p) ==
    /\ p \in Listed
    /\ book' = Buried(p)
    /\ gone' = gone \union {p}
    /\ UNCHANGED <<walked, walk, sentTo, inbox, byHand>>

RestoreContact(p) ==
    /\ p \in Listed
    /\ book' = [book EXCEPT ![p].removed = FALSE]
    /\ gone' = gone \ {p}
    /\ UNCHANGED <<walked, walk, sentTo, inbox, byHand>>

\* SetKey for "manual": a key, or the box emptied.
SaveKey(p, k) ==
    /\ p \in Listed
    /\ book' = WithKey(p, k, "manual")
    /\ byHand' = [byHand EXCEPT ![p] = k]
    /\ UNCHANGED <<walked, walk, sentTo, inbox, gone>>

-----------------------------------------------------------------------------
(* Mail, and the process. *)

WriteTo(p) ==
    /\ p \notin sentTo
    /\ sentTo' = sentTo \union {p}
    /\ UNCHANGED <<book, walked, walk, inbox, gone, byHand>>

Arrive(h) ==
    /\ Len(inbox) < MaxMail
    /\ inbox' = Append(inbox, h)
    /\ UNCHANGED <<book, walked, walk, sentTo, gone, byHand>>

\* A new process walks once more.
RestartBook ==
    /\ walked
    /\ walked' = FALSE
    /\ walk' = NoWalk
    /\ UNCHANGED <<book, sentTo, inbox, gone, byHand>>

BookInit ==
    /\ book = [p \in {} |-> NewEntry]
    /\ walked = FALSE
    /\ walk = NoWalk
    /\ sentTo = {}
    /\ inbox = <<>>
    /\ gone = {}
    /\ byHand = [p \in Person |-> ""]

BookNext ==
    \/ Visit \/ WalkFails \/ ListSent \/ ReadSent \/ Learn \/ ReadHeaders \/ WalkEnds
    \/ RestartBook
    \/ \E p \in Person :
          \/ HarvestKey(p) \/ SaveContact(p) \/ RemoveContact(p)
          \/ RestoreContact(p) \/ WriteTo(p)
          \/ \E k \in KeptKey : SaveKey(p, k)
    \/ \E h \in Header : Arrive(h)

BookSpec == BookInit /\ [][BookNext]_bookVars

-----------------------------------------------------------------------------
(* Properties. *)

\* "Never resurrect a removed contact" (contacts.go:28): a walk that read Sent
\* before the removal, or any later one, leaves it removed.
RemovedStays == \A p \in gone \intersect Listed : book[p].removed

\* A key pasted, or cleared, by the owner is the one kept, whatever mail says
\* and however far a walk had got.
HandKeyStands == \A p \in Listed : byHand[p] # "" => book[p].key = byHand[p]

\* The header of the inbox that announces p's key k in a message from f.
From(f, p, k) == [from |-> f, addr |-> p, key |-> k]

\* harvestKeys: a key in the book that nobody put there stands in the inbox, in a
\* header for that address that came from it or in a message without a From.
KeysAreAnnounced ==
    \A p \in Listed : book[p].key # NoneKept /\ byHand[p] = "" =>
        \E i \in DOMAIN inbox : inbox[i] \in {From(f, p, book[p].key) : f \in {p, NoSender}}

\* What the owner did to the book stands, and no other sender's mail fills it.
BookIsOwners == RemovedStays /\ HandKeyStands /\ KeysAreAnnounced

=============================================================================
