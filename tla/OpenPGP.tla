------------------------------ MODULE OpenPGP ------------------------------
(***************************************************************************)
(* A mailbox's own key pair, and the mail that is signed and encrypted.    *)
(*                                                                         *)
(* A preference is one row, and the switch, the public key, where the      *)
(* private one is kept and the private key are four of them: the settings  *)
(* form and the Generate button read what is there and then write one row  *)
(* after the other, and a write that fails is logged and passed over       *)
(* (handlers.go:3147).  Kept in the browser, the private key goes out with *)
(* the reply and is nowhere else.  A message to be encrypted collects its  *)
(* keys one SELECT at a time (newSealer), while contacts and settings may  *)
(* be edited in another window.                                            *)
(*                                                                         *)
(* A pair is a number, and both halves of it are that number: what one     *)
(* half seals the other opens.  There is one browser.  Passphrases, and    *)
(* text that is no key, which is refused before anything is written, are   *)
(* left out.  Contacts says how the keys on file come and go.              *)
(***************************************************************************)
EXTENDS Naturals, Sequences, FiniteSets, Functions

CONSTANTS
    Correspondent,  \* who a message may be addressed to
    Windows,        \* settings requests that may run at once
    MaxPair         \* bound: pairs ever generated or pasted

ASSUME MaxPairAssumption == MaxPair \in Nat

VARIABLES
    own,        \* the mailbox's pgp preferences; 0 is no key
    kept,       \* the private key in the browser's local storage
    pairs,      \* pairs there have been
    press,      \* each settings request: the rows to write, then the reply
    onFile,     \* correspondents with a usable key on their contact
    letter,     \* the message being sent
    posted,     \* what the relay was last given, until the next is written
    letGo,      \* history: pairs whose private half may be gone, and why not
    bare        \* history: pairs the browser held with no public half on file

pgpVars == <<own, kept, pairs, press, onFile, letter, posted, letGo, bare>>

Pairs == 0 .. MaxPair

Own == [enabled : BOOLEAN, inBrowser : BOOLEAN, public : Pairs, private : Pairs]

PrefRow == [of : {"enabled", "inBrowser"}, val : BOOLEAN]
         \union [of : {"public", "private"}, val : Pairs]

Press == [busy : BOOLEAN, todo : UNION {[1 .. n -> PrefRow] : n \in 0 .. 4},
          give : Pairs]     \* the sealed key the redirect carries

Letter == [pc : {"none", "enabled", "keys", "own", "deliver"},
           encrypt : BOOLEAN, sign : BOOLEAN,   \* sign, until the key is looked for
           to : SUBSET Correspondent,
           left : SUBSET Correspondent,     \* recipients not looked up yet
           readers : SUBSET Correspondent,  \* recipients whose key it has
           mine : Pairs]                    \* the sender's key it has

Posted == [sealed : BOOLEAN, to : SUBSET Correspondent,
           readers : SUBSET Correspondent, mine : Pairs]

PgpTypeOK ==
    /\ own \in Own
    /\ kept \in Pairs
    /\ pairs \in Pairs
    /\ DOMAIN press = Windows
    /\ \A w \in Windows :
          /\ press[w].busy \in BOOLEAN /\ press[w].give \in Pairs
          /\ Len(press[w].todo) <= 4
          /\ \A k \in 1 .. Len(press[w].todo) : press[w].todo[k] \in PrefRow
    /\ onFile \subseteq Correspondent
    /\ letter \in Letter
    /\ posted \in Posted
    /\ letGo \subseteq Pairs /\ bare \subseteq Pairs

AtRest == [busy |-> FALSE, todo |-> <<>>, give |-> 0]
NoLetter == [pc |-> "none", encrypt |-> FALSE, sign |-> FALSE, to |-> {}, left |-> {},
             readers |-> {}, mine |-> 0]
NothingPosted == [sealed |-> FALSE, to |-> {}, readers |-> {}, mine |-> 0]

Alone(w) == \A v \in Windows \ {w} : ~ press[v].busy

\* With another request under way, or a row not written, any pair may go.
AtRisk(w) == IF Alone(w) THEN {} ELSE 1 .. MaxPair

\* What stands in the browser beside no public half.
Unseen(o, copy) == IF o.inBrowser /\ o.public = 0 THEN {copy} ELSE {}

-----------------------------------------------------------------------------
(* The pair. *)

\* handleSettingsGeneratePGP's refusal.  With the key kept in the browser the
\* server cannot see it, and goes by the public half.  A slip: by the server's
\* private half alone.
NoPrivate == own.private = 0 \/ own.inBrowser
NoKeyYet == (own.private = 0 \/ own.inBrowser) /\ own.public = 0

\* The pair is made and its private half sealed before anything is written.
\* Of the browser's own copy nobody asks, and the reply goes over it.
Generate(w) ==
    /\ ~ press[w].busy /\ NoKeyYet /\ pairs < MaxPair
    /\ LET n == pairs + 1 IN
       /\ pairs' = n
       /\ press' = [press EXCEPT ![w] =
             [busy |-> TRUE,
              todo |-> <<[of |-> "public", val |-> n],
                         [of |-> "private", val |-> IF own.inBrowser THEN 0 ELSE n]>>,
              give |-> IF own.inBrowser THEN n ELSE 0]]
    /\ letGo' = letGo \union AtRisk(w)
    /\ UNCHANGED <<own, kept, onFile, letter, posted, bare>>

\* What the form asks of the private key: emptied wherever the browser is to
\* keep it, replaced by what was pasted, removed where the box is ticked, and
\* otherwise not written.
PrivateRow(browser, sealed, clear) ==
    IF browser \/ sealed # 0 \/ clear
    THEN <<[of |-> "private", val |-> IF browser THEN 0 ELSE sealed]>>
    ELSE <<>>

\* handleSettingsPGP.  The public box is as it was on screen, or emptied, or
\* has a key pasted into it, and so has the private one, which starts empty.
\* The page drops its own copy on the way, unless it is to keep one.
SavePGP(w, on, browser, clear, public, sealed) ==
    /\ ~ press[w].busy
    /\ public \in {0, own.public, pairs + 1} \intersect Pairs
    /\ sealed \in {0, pairs + 1} \intersect Pairs
    /\ pairs' = IF pairs + 1 \in {public, sealed} THEN pairs + 1 ELSE pairs
    /\ kept' = IF browser THEN kept ELSE 0
    /\ press' = [press EXCEPT ![w] =
          [busy |-> TRUE,
           todo |-> <<[of |-> "enabled", val |-> on], [of |-> "public", val |-> public],
                      [of |-> "inBrowser", val |-> browser]>>
                      \o PrivateRow(browser, sealed, clear),
           give |-> IF browser THEN sealed ELSE 0]]
    /\ letGo' = letGo \union AtRisk(w)
         \union (IF clear \/ sealed # 0 \/ browser # own.inBrowser
                 THEN {own.private, kept} ELSE {})
         \union (IF public # sealed THEN {public} \ {own.public} ELSE {})
    /\ UNCHANGED <<own, onFile, letter, posted, bare>>

\* saveSetting: one preference is written, or is not.
WriteRow(w) ==
    /\ press[w].todo # <<>>
    /\ LET r == Head(press[w].todo) IN
       \/ own' = [own EXCEPT ![r.of] = r.val] /\ UNCHANGED letGo
       \/ letGo' = 1 .. MaxPair /\ UNCHANGED own
    /\ bare' = bare \union Unseen(own', kept)
    /\ press' = [press EXCEPT ![w].todo = Tail(@)]
    /\ UNCHANGED <<kept, pairs, onFile, letter, posted>>

\* The redirect, with the sealed key for the browser to store; it may be lost.
Reply(w) ==
    /\ press[w].busy /\ press[w].todo = <<>>
    /\ press' = [press EXCEPT ![w] = AtRest]
    /\ IF press[w].give # 0
       THEN \/ kept' = press[w].give /\ UNCHANGED letGo
            \/ letGo' = letGo \union {press[w].give} /\ UNCHANGED kept
       ELSE UNCHANGED <<kept, letGo>>
    /\ bare' = bare \union Unseen(own, kept')
    /\ UNCHANGED <<own, pairs, onFile, letter, posted>>

-----------------------------------------------------------------------------
(* Sending: newSealer, then SendMessage. *)

\* The composer sends the browser's key with the form, where it has one.
Usable == IF own.inBrowser THEN kept ELSE own.private

Writing == UNCHANGED <<own, kept, pairs, press, onFile, posted, letGo, bare>>

Compose(to, sign, encrypt) ==
    /\ letter.pc = "none" /\ to # {}
    /\ letter' = [NoLetter EXCEPT !.pc = IF sign \/ encrypt THEN "enabled" ELSE "deliver",
                                  !.to = to, !.sign = sign, !.encrypt = encrypt]
    /\ posted' = NothingPosted
    /\ UNCHANGED <<own, kept, pairs, press, onFile, letGo, bare>>

\* The composer is given back with what was typed.
Refuse == letter' = NoLetter /\ Writing

\* PGP is on, and there is a private key if one is to sign.
CheckEnabled ==
    /\ letter.pc = "enabled"
    /\ IF own.enabled /\ (letter.sign => Usable # 0)
       THEN /\ letter' = IF letter.encrypt
                         THEN [letter EXCEPT !.pc = "keys", !.left = letter.to, !.sign = FALSE]
                         ELSE [letter EXCEPT !.pc = "deliver", !.sign = FALSE]
            /\ Writing
       ELSE Refuse

\* KeyFor one recipient.
LookUp(p) ==
    /\ letter.pc = "keys" /\ p \in letter.left
    /\ letter' = [letter EXCEPT
                    !.left = @ \ {p},
                    !.readers = IF p \in onFile THEN @ \union {p} ELSE @]
    /\ Writing

\* "Every address, or none."  A slip: whoever has a key.
Anybody == letter.readers # {}
Everybody == letter.readers # {} /\ letter.readers = letter.to

LookedUp ==
    /\ letter.pc = "keys" /\ letter.left = {}
    /\ IF Everybody THEN letter' = [letter EXCEPT !.pc = "own"] /\ Writing
                    ELSE Refuse

\* The sender's own public key goes on the list.
AddOwn ==
    /\ letter.pc = "own"
    /\ IF own.public # 0
       THEN letter' = [letter EXCEPT !.pc = "deliver", !.mine = own.public] /\ Writing
       ELSE Refuse

\* apply and deliver: the relay takes it, or does not.
Deliver ==
    /\ letter.pc = "deliver"
    /\ posted' = [sealed |-> letter.encrypt, to |-> letter.to,
                  readers |-> letter.readers, mine |-> letter.mine]
    /\ letter' = NoLetter
    /\ UNCHANGED <<own, kept, pairs, press, onFile, letGo, bare>>

DeliveryFails == letter.pc = "deliver" /\ Refuse

\* A contact gains a key, loses it, is removed or brought back.
ContactChanges(p) ==
    /\ onFile' = IF p \in onFile THEN onFile \ {p} ELSE onFile \union {p}
    /\ UNCHANGED <<own, kept, pairs, press, letter, posted, letGo, bare>>

-----------------------------------------------------------------------------
PgpInit ==
    /\ own = [enabled |-> FALSE, inBrowser |-> FALSE, public |-> 0, private |-> 0]
    /\ kept = 0
    /\ pairs = 0
    /\ press = [w \in Windows |-> AtRest]
    /\ onFile = {}
    /\ letter = NoLetter
    /\ posted = NothingPosted
    /\ letGo = {}
    /\ bare = {}

PgpNext ==
    \/ \E w \in Windows :
          \/ Generate(w) \/ WriteRow(w) \/ Reply(w)
          \/ \E on, browser, clear \in BOOLEAN, public, sealed \in Pairs :
                SavePGP(w, on, browser, clear, public, sealed)
    \/ \E to \in SUBSET Correspondent, sign, encrypt \in BOOLEAN :
          Compose(to, sign, encrypt)
    \/ CheckEnabled \/ \E p \in Correspondent : LookUp(p)
    \/ LookedUp \/ AddOwn \/ Deliver \/ DeliveryFails
    \/ \E p \in Correspondent : ContactChanges(p)

PgpSpec == PgpInit /\ [][PgpNext]_pgpVars

-----------------------------------------------------------------------------
(* Correctness. *)

\* Where the private half of a pair is, or is about to be.
Held ==
    {own.private, kept}
      \union {press[w].give : w \in Windows}
      \union {r.val : r \in {r \in UNION {Range(press[w].todo) : w \in Windows} :
                               r.of = "private"}}

\* What is not promised: a private half its owner gave up, and one the browser
\* held with no public half on file, which the button takes for no key at all.
Excused == letGo \union bare

\* The private key of every pair the mailbox has had is still somewhere,
\* unless its owner gave it up (ticked it away, pasted another over it, or
\* moved it, handlers.go:2642), a row was not written, two windows met, or the
\* browser held it with no public half on file: there the button goes over it,
\* whatever handlers.go:2874 says (handlers.go:2893, app.js:1052).
NothingLostUnasked == 1 .. pairs \subseteq Held \union Excused

\* An encrypted message that reached the relay can be read by everyone it was
\* addressed to, whatever was done to the contacts while its keys were being
\* collected, and by its sender as long as the key was not given up, nor left
\* in the browser without its public half (pgpmail.go:150 and 266).
EveryoneCanRead ==
    posted.sealed => /\ posted.readers = posted.to
                     /\ posted.mine \in Held \union Excused

\* Both: no private half is lost but as excused, and what was encrypted can be read.
KeysServe == NothingLostUnasked /\ EveryoneCanRead

=============================================================================
