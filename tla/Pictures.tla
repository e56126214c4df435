------------------------------ MODULE Pictures ------------------------------
(***************************************************************************)
(* Pictures pasted into the composer, until they are part of a message.    *)
(*                                                                         *)
(* The store keeps a picture's original and a copy of each size asked for, *)
(* in memory and under a cap shared by every composer.  Over the cap, the  *)
(* originals go first, least recently used first, and then whole pictures  *)
(* (imagestore.go:300); what nobody has used for 45 minutes goes too.      *)
(* Making a smaller copy is done with the lock given up.  Saving a draft   *)
(* writes the pictures into it and lets the originals go, sending writes   *)
(* them into the message and forgets them; a picture the store no longer   *)
(* has is left out of the message, with a line in the log                  *)
(* (images.go:199).                                                        *)
(*                                                                         *)
(* An original weighs Heavy and a copy 1.  Every picture is its account's: *)
(* there is one here.                                                      *)
(***************************************************************************)
EXTENDS Naturals, Sequences, SequencesExt, FiniteSets, FiniteSetsExt, Functions

CONSTANTS
    Picture,    \* ids; each is made once
    Percent,    \* sizes the editor offers but the first
    Composers,  \* windows a message is written in
    Heavy,      \* weight of an original
    Cap         \* maxStoreBytes

ASSUME PictureBounds == Heavy \in Nat \ {0} /\ Cap \in Nat

VARIABLES
    items,      \* the store: id -> picture, over those it has
    recent,     \* their order of last use, oldest first
    scaling,    \* the copy being made without the lock, if any
    pages,      \* what each window's message refers to
    inlined,    \* what each window's message being sent has in it
    sentOut,    \* the last message sent: what it referred to, and what it has
    excused     \* history: aged, evicted, or forgotten by another window

pictureVars == <<items, recent, scaling, pages, inlined, sentOut, excused>>

Sizes == Percent \union {100}

Stored == [original : BOOLEAN, copies : SUBSET Sizes]

Scaling == [id : Picture, percent : Percent]
NotScaling == [id |-> "", percent |-> 100]

Sending == [on : BOOLEAN, of : SUBSET Picture, has : SUBSET Picture]
NotSending == [on |-> FALSE, of |-> {}, has |-> {}]

PicturesTypeOK ==
    /\ DOMAIN items \subseteq Picture /\ Range(items) \subseteq Stored
    /\ ToSet(recent) = DOMAIN items /\ IsInjective(recent)
    /\ scaling \in Scaling \union {NotScaling}
    /\ pages \in [Composers -> SUBSET Picture]
    /\ inlined \in [Composers -> Sending]
    /\ sentOut \in Sending
    /\ excused \subseteq Picture

\* storedImage.size, and evictLocked's total.
Weight(it) == (IF it.original THEN Heavy ELSE 0) + Cardinality(it.copies)
Total(its) == MapThenSumSet(LAMBDA p : Weight(its[p]), DOMAIN its)

\* Used now.
Touched(order, p) == Append(Remove(order, p), p)

-----------------------------------------------------------------------------
(* evictLocked. *)

\* The first k of an order, cut short where the rest is no more than Cap.
Enough(its, order, After(_, _)) ==
    LET fits == {k \in 0 .. Len(order) : Total(After(its, SubSeq(order, 1, k))) <= Cap}
    IN SubSeq(order, 1, IF fits = {} THEN Len(order) ELSE Min(fits))

NoOriginals(its, first) ==
    [p \in DOMAIN its |-> IF p \in ToSet(first) THEN [its[p] EXCEPT !.original = FALSE]
                                               ELSE its[p]]
NoneOf(its, first) == Restrict(its, DOMAIN its \ ToSet(first))

\* Originals, then whole pictures.  A slip: whole pictures at once.
WholeOnly(its, order) == NoneOf(its, Enough(its, order, NoneOf))
Evicted(its, order) ==
    LET lean == NoOriginals(its, Enough(its, order, NoOriginals))
    IN NoneOf(lean, Enough(lean, order, NoneOf))

\* What a put or a new copy leaves.
Kept(its, order) ==
    /\ items' = Evicted(its, order)
    /\ recent' = SelectSeq(order, LAMBDA p : p \in DOMAIN items')
    /\ excused' = excused \union (DOMAIN its \ DOMAIN items')

-----------------------------------------------------------------------------
(* The store's operations. *)

\* handleImageUpload.  The copy at 100% is made before the lock is taken.
Put(c, p) ==
    /\ p \notin DOMAIN items \union UNION {pages[d] : d \in Composers} \union excused
    /\ p \notin sentOut.of /\ p # scaling.id
    /\ Kept([q \in DOMAIN items \union {p} |->
               IF q = p THEN [original |-> TRUE, copies |-> {100}] ELSE items[q]],
            Append(recent, p))
    /\ pages' = [pages EXCEPT ![c] = @ \union {p}]
    /\ UNCHANGED <<scaling, inlined, sentOut>>

\* Variant, asked for by the editor: what is there is given.
Fetch(p) ==
    /\ p \in DOMAIN items
    /\ recent' = Touched(recent, p)
    /\ UNCHANGED <<items, scaling, pages, inlined, sentOut, excused>>

\* What is not is made from what was there when the lock was given up,
StartScaling(p, z) ==
    /\ scaling = NotScaling
    /\ p \in DOMAIN items /\ z \notin items[p].copies
    /\ recent' = Touched(recent, p)
    /\ scaling' = [id |-> p, percent |-> z]
    /\ UNCHANGED <<items, pages, inlined, sentOut, excused>>

\* and kept if the picture is still there.
Scaled ==
    /\ scaling # NotScaling
    /\ LET p == scaling.id IN
       IF p \in DOMAIN items
       THEN Kept([items EXCEPT ![p].copies = @ \union {scaling.percent}],
                 Touched(recent, p))
       ELSE UNCHANGED <<items, recent, excused>>
    /\ scaling' = NotScaling
    /\ UNCHANGED <<pages, inlined, sentOut>>

\* DropOriginals, of the pictures a saved draft has; Forget, of those a message
\* sent has.  A slip: the draft forgets them too.
Forgotten(its, P) == Restrict(its, DOMAIN its \ P)
WithoutOriginals(its, P) ==
    [p \in DOMAIN its |-> IF p \in P THEN [its[p] EXCEPT !.original = FALSE] ELSE its[p]]

\* reap, every five minutes: whatever has not been used for imageTTL.
Reap(k) ==
    /\ k \in 1 .. Len(recent)
    /\ items' = Forgotten(items, ToSet(SubSeq(recent, 1, k)))
    /\ recent' = SubSeq(recent, k + 1, Len(recent))
    /\ excused' = excused \union ToSet(SubSeq(recent, 1, k))
    /\ UNCHANGED <<scaling, pages, inlined, sentOut>>

-----------------------------------------------------------------------------
(* A message. *)

\* A picture copied into another window's message.
Copy(c, p) ==
    /\ \E d \in Composers \ {c} : p \in pages[d]
    /\ pages' = [pages EXCEPT ![c] = @ \union {p}]
    /\ UNCHANGED <<items, recent, scaling, inlined, sentOut, excused>>

\* inlineComposerImages: whatever the store has goes in, and is used.
There(c) == pages[c] \intersect DOMAIN items
Used(c) == LET other == SelectSeq(recent, LAMBDA p : p \notin There(c))
               mine == SelectSeq(recent, LAMBDA p : p \in There(c))
           IN other \o mine

\* handleDraftSave, when the copy was stored.
SaveDraft(c) ==
    /\ There(c) # {}
    /\ items' = WithoutOriginals(items, There(c))
    /\ recent' = SelectSeq(Used(c), LAMBDA p : p \in DOMAIN items')
    /\ UNCHANGED <<scaling, pages, inlined, sentOut, excused>>

\* handleSend, up to the relay,
Inline(c) ==
    /\ ~ inlined[c].on /\ pages[c] # {}
    /\ inlined' = [inlined EXCEPT ![c] = [on |-> TRUE, of |-> pages[c], has |-> There(c)]]
    /\ recent' = Used(c)
    /\ UNCHANGED <<items, scaling, pages, sentOut, excused>>

\* which refuses it, and the composer is shown again,
Undelivered(c) ==
    /\ inlined[c].on
    /\ inlined' = [inlined EXCEPT ![c] = NotSending]
    /\ UNCHANGED <<items, recent, scaling, pages, sentOut, excused>>

\* or takes it.
Delivered(c) ==
    /\ inlined[c].on
    /\ sentOut' = inlined[c]
    /\ items' = Forgotten(items, inlined[c].has)
    /\ recent' = SelectSeq(recent, LAMBDA p : p \in DOMAIN items')
    /\ inlined' = [inlined EXCEPT ![c] = NotSending]
    /\ pages' = [pages EXCEPT ![c] = {}]
    /\ excused' = excused \union UNION {pages[d] \intersect inlined[c].has :
                                         d \in Composers \ {c}}
    /\ UNCHANGED scaling

-----------------------------------------------------------------------------
PicturesInit ==
    /\ items = [p \in {} |-> [original |-> FALSE, copies |-> {}]]
    /\ recent = <<>>
    /\ scaling = NotScaling
    /\ pages = [c \in Composers |-> {}]
    /\ inlined = [c \in Composers |-> NotSending]
    /\ sentOut = NotSending
    /\ excused = {}

PicturesNext ==
    \/ \E c \in Composers :
          \/ \E p \in Picture : Put(c, p) \/ Copy(c, p)
          \/ SaveDraft(c) \/ Inline(c) \/ Undelivered(c) \/ Delivered(c)
    \/ \E p \in Picture : Fetch(p) \/ \E z \in Percent : StartScaling(p, z)
    \/ Scaled
    \/ \E k \in 1 .. Cardinality(Picture) : Reap(k)

PicturesSpec == PicturesInit /\ [][PicturesNext]_pictureVars

-----------------------------------------------------------------------------
(* Correctness. *)

\* A message goes out with every picture it refers to, whatever was resized,
\* saved or pasted meanwhile, unless one had aged out, had been evicted, or had
\* gone with another window's message (images.go:199).
SentWhole == sentOut.of \ sentOut.has \subseteq excused

\* The store keeps to its cap, and no picture goes under its pressure while the
\* original of any is there to be dropped instead, nor one used later than one
\* that stays (imagestore.go:297).
OriginalsGoFirst ==
    items' # items =>
       LET lost == DOMAIN items \ DOMAIN items' IN
       /\ Total(items') <= Cap
       /\ lost # {} /\ (Scaled \/ \E c \in Composers, p \in Picture : Put(c, p))
             => /\ \A q \in DOMAIN items' : ~ items'[q].original
                /\ \A i, j \in 1 .. Len(recent) :
                      recent[i] \in lost /\ i > j
                         => recent[j] \in lost \union {scaling.id}

\* Both: the cap costs the originals first, and a step costs no message its
\* pictures but those excused.
PicturesStand == [][OriginalsGoFirst /\ SentWhole']_pictureVars

=============================================================================
