------------------------------ MODULE Reading ------------------------------
(***************************************************************************)
(* Reading and filing mail: the position of one sign-in (viewState), the   *)
(* requests its browser tabs make against it, and the folders on the mail  *)
(* server, which other clients use too.                                    *)
(*                                                                         *)
(* A handler reads the position (viewOf), talks to the mail server, and    *)
(* only then records the outcome (updateView).  Each of these is a step:   *)
(* another tab may have moved on in between, and a UID names a message     *)
(* only within its folder.  Page, sort, query and the body view matter     *)
(* here by what they reset, the open message and the ticks.                *)
(*                                                                         *)
(* The pool gives an account one connection, so a mail command of one      *)
(* request excludes those of the others, though not other clients'.        *)
(***************************************************************************)
EXTENDS Naturals, FiniteSets, Functions, SequencesExt

CONSTANTS
    Folders, Inbox, Trash,
    Filing,         \* what the archive and junk verbs resolve to
    Messages,
    Tabs,           \* requests of one sign-in at once
    MaxUid,         \* bound: UIDs a folder hands out
    MaxSelected,    \* maxSelected
    MaxMishaps,     \* bound: failures, and steps of other clients
    MaxAtOnce       \* bound: requests in flight, and mishaps so far

ASSUME ReadingAssumption ==
    /\ {Inbox, Trash} \union Filing \subseteq Folders
    /\ MaxUid \in Nat \ {0} /\ MaxSelected \in Nat \ {0}
    /\ MaxMishaps \in Nat /\ MaxAtOnce \in Nat
ASSUME MessagesAssumption == IsFiniteSet(Messages) /\ Cardinality(Messages) <= MaxUid

VARIABLES
    box,        \* each folder: the UIDs present, and the message each names
    next,       \* each folder's UIDNEXT
    marked,     \* <<folder, UID>> carrying \Deleted
    cap,        \* what MoveMessages can use: MOVE, else UIDPLUS, else neither
    view,       \* the sign-in's viewState
    job,        \* the request each tab has in flight
    condemned,  \* history: messages somebody deleted for good
    mishaps,    \* history: commands that failed, and steps of other clients
    trouble,    \* history: one failed, or mail left a folder unasked
    astray      \* history: a move named a UID its folder had yet to hand out

vars == <<box, next, marked, cap, view, job, condemned, mishaps, trouble, astray>>

Uid == 1..MaxUid
Present(f) == DOMAIN box[f]

View == [folder : Folders, open : Uid \union {0}, ticked : SUBSET Uid]
NewView == [folder |-> Inbox, open |-> 0, ticked |-> {}]

Verbs == {"keep", "unseen", "file", "move", "delete"}
messageLeavesFolder(verb) == verb \in {"file", "move", "delete"}

Stage == {"idle", "act", "copied", "marked", "settle",
          "look", "fetch", "forget", "stepping", "ticking"}

Job == [at : Stage,
        does : {"flag", "mark", "move"},    \* while at "act": what it asks of the server
        dest : Folders,
        folder : Folders, uids : SUBSET Uid,
        open : Uid \union {0}, then : Uid \union {0},
        closes : BOOLEAN,   \* the reader cannot keep its message
        ticks : BOOLEAN]    \* the press was in the list's toolbar

Idle == [at |-> "idle", does |-> "flag", dest |-> Inbox, folder |-> Inbox,
         uids |-> {}, open |-> 0, then |-> 0, closes |-> FALSE, ticks |-> FALSE]

TypeOK ==
    /\ \A f \in Folders :
         /\ Present(f) \subseteq Uid
         /\ \A u \in Present(f) : box[f][u] \in Messages
    /\ next \in [Folders -> 1..(MaxUid + 1)]
    /\ marked \subseteq Folders \X Uid
    /\ cap \in {"MOVE", "UIDPLUS", "neither"}
    /\ view \in View /\ Cardinality(view.ticked) <= MaxSelected
    /\ job \in [Tabs -> Job]
    /\ condemned \subseteq Messages
    /\ mishaps \in 0..MaxMishaps
    /\ trouble \in BOOLEAN /\ astray \in BOOLEAN

Init ==
    /\ next = [f \in Folders |-> IF f = Inbox THEN Cardinality(Messages) + 1 ELSE 1]
    /\ box = [f \in Folders |->
                IF f = Inbox THEN SetToSeq(Messages) ELSE << >>]
    /\ marked = {}
    /\ cap \in {"MOVE", "UIDPLUS", "neither"}
    /\ view = NewView
    /\ job = [t \in Tabs |-> Idle]
    /\ condemned = {}
    /\ mishaps = 0 /\ trouble = FALSE /\ astray = FALSE

-----------------------------------------------------------------------------
(* The position.                                                           *)

\* viewState.setFolder.  A slip: what was ticked and open comes along.
SetFolderOnly(v, f) == [v EXCEPT !.folder = f]
setFolder(v, f) == IF f = v.folder THEN v ELSE [NewView EXCEPT !.folder = f]

\* viewState.selectUID: past the bound a tick is not taken.
selectUID(v, u, on) ==
    IF ~on THEN [v EXCEPT !.ticked = @ \ {u}]
    ELSE IF Cardinality(v.ticked \union {u}) > MaxSelected THEN v
    ELSE [v EXCEPT !.ticked = @ \union {u}]

\* selectedUIDs: the reader's toolbar means the open message; the list's means
\* the ticks posted, else the ticks recorded, else the open message.
selectedUIDs(scope, posted, v) ==
    LET opened == {v.open} \ {0}
    IN  IF scope = "open" THEN opened
        ELSE IF posted # {} THEN posted
        ELSE IF v.ticked # {} THEN v.ticked
        ELSE opened

\* successorAfter: newest first, the row above and failing that the one below.
successorAfter(rows, open, gone) ==
    LET above == {u \in rows \ gone : u > open}
        below == {u \in rows \ gone : u < open}
    IN  IF open \notin rows THEN 0
        ELSE IF above # {} THEN CHOOSE u \in above : \A v \in above : u <= v
        ELSE IF below # {} THEN CHOOSE u \in below : \A v \in below : v <= u
        ELSE 0

\* neighbours: the row above and the row below, whatever they hold.
Above(rows, open) ==
    LET above == {u \in rows : u > open}
    IN  IF open \notin rows \/ above = {} THEN 0
        ELSE CHOOSE u \in above : \A v \in above : u <= v
Below(rows, open) ==
    LET below == {u \in rows : u < open}
    IN  IF open \notin rows \/ below = {} THEN 0
        ELSE CHOOSE u \in below : \A v \in below : v <= u

\* What updateView records once an action has happened: its ticks are spent,
\* and a reader left without its message goes on to the next.
Settled(v, j) ==
    [v EXCEPT !.ticked = IF j.ticks THEN {} ELSE @,
              !.open = IF j.closes /\ @ # 0 /\ @ \in j.uids THEN j.then ELSE @]

-----------------------------------------------------------------------------
(* The mail server.                                                        *)

\* Nobody is between the commands of a move.
LineFree == \A t \in Tabs : job[t].at \notin {"copied", "marked"}

\* COPY: the messages still there, in UID order, under the folder's next UIDs.
Here(j) == j.uids \intersect Present(j.folder)
Room(j) == next[j.dest] + Cardinality(Here(j)) <= MaxUid + 1
Earlier(S, u) == Cardinality({w \in S : w < u})
Copied(j) ==
    LET first == next[j.dest]
    IN  [v \in first..(first + Cardinality(Here(j)) - 1) |->
           box[j.folder][CHOOSE u \in Here(j) : first + Earlier(Here(j), u) = v]]

\* What a folder has once those have arrived.
Grown(f, new) ==
    [u \in DOMAIN f \union DOMAIN new |-> IF u \in DOMAIN f THEN f[u] ELSE new[u]]

\* EXPUNGE of some of a folder's UIDs.
Expunged(b, f, S) == [b EXCEPT ![f] = Restrict(@, DOMAIN @ \ S)]
Unmarked(f, S) == marked \ ({f} \X S)

\* A UID recorded in another folder may name nothing here yet.
Ahead(j) == \E u \in j.uids : u >= next[j.folder]

Deliver(j) ==
    /\ Room(j)
    /\ next' = [next EXCEPT ![j.dest] = @ + Cardinality(Here(j))]
    /\ box' = [box EXCEPT ![j.dest] = Grown(@, Copied(j))]

-----------------------------------------------------------------------------
(* The requests.                                                           *)

Server == <<box, next, marked, cap>>
Past == <<condemned, mishaps, trouble, astray>>

Goes(t, j) == job' = [job EXCEPT ![t] = j]
Now(t, at) == Goes(t, [job[t] EXCEPT !.at = at])
Done(t) == Goes(t, Idle)
Busy == {t \in Tabs : job[t].at # "idle"}
Asks(t) == t \notin Busy /\ Cardinality(Busy) + mishaps < MaxAtOnce
At(t, at) == job[t].at = at

\* handleOpenMessage: a row's UID, in whatever folder the sign-in is in now.
OpenMessage(t, u) ==
    /\ Asks(t)
    /\ view' = [view EXCEPT !.open = u]
    /\ Goes(t, [Idle EXCEPT !.at = "look"])
    /\ UNCHANGED <<Server, Past>>

\* handleMailbox, handleReaderView: whatever is open is drawn.
Redraw(t) ==
    /\ Asks(t)
    /\ Goes(t, [Idle EXCEPT !.at = "look"])
    /\ UNCHANGED <<Server, view, Past>>

\* renderReader reads the position, asks for the message, and forgets one
\* that is gone.  A slip: it goes on showing it.
Look(t) ==
    /\ At(t, "look")
    /\ IF view.open = 0 THEN Done(t)
       ELSE Goes(t, [job[t] EXCEPT !.at = "fetch", !.folder = view.folder,
                                   !.open = view.open])
    /\ UNCHANGED <<Server, view, Past>>
Fetch(t) ==
    /\ At(t, "fetch") /\ LineFree
    /\ IF job[t].open \in Present(job[t].folder) THEN Done(t)
       ELSE Goes(t, [Idle EXCEPT !.at = "forget"])
    /\ UNCHANGED <<Server, view, Past>>
ForgetNothing(t) ==
    At(t, "forget") /\ Done(t) /\ UNCHANGED <<Server, view, Past>>
Forget(t) ==
    /\ At(t, "forget")
    /\ view' = [view EXCEPT !.open = 0]
    /\ Done(t)
    /\ UNCHANGED <<Server, Past>>

\* handleReaderStep: the list is read, then the step recorded.
ReaderStep(t) ==
    /\ Asks(t) /\ LineFree
    /\ \E step \in {Above(Present(view.folder), view.open),
                    Below(Present(view.folder), view.open)} :
         Goes(t, [Idle EXCEPT !.at = IF step = 0 THEN "look" ELSE "stepping",
                              !.then = step])
    /\ UNCHANGED <<Server, view, Past>>
Stepped(t) ==
    /\ At(t, "stepping")
    /\ view' = [view EXCEPT !.open = job[t].then]
    /\ Goes(t, [Idle EXCEPT !.at = "look"])
    /\ UNCHANGED <<Server, Past>>

\* handleReaderClose
ReaderClose(t) ==
    /\ Asks(t)
    /\ view' = [view EXCEPT !.open = 0]
    /\ UNCHANGED <<Server, job, Past>>

\* handleOpenFolder: a folder the server lists.
OpenFolder(t, f) ==
    /\ Asks(t)
    /\ view' = setFolder(view, f)
    /\ UNCHANGED <<Server, job, Past>>

\* handleListPage, handleListSort, handleListSearch
TurnList(t) ==
    /\ Asks(t)
    /\ view' = [view EXCEPT !.open = 0, !.ticked = {}]
    /\ UNCHANGED <<Server, job, Past>>

\* handleSelect
Select(t, u) ==
    /\ Asks(t)
    /\ view' = selectUID(view, u, u \notin view.ticked)
    /\ UNCHANGED <<Server, job, Past>>

\* handleSelectAll: the page is listed, and its rows ticked in what is by then
\* the position.
SelectAll(t) ==
    /\ Asks(t) /\ LineFree
    /\ Goes(t, [Idle EXCEPT !.at = "ticking", !.uids = Present(view.folder)])
    /\ UNCHANGED <<Server, view, Past>>
Ticked(t) ==
    /\ At(t, "ticking")
    /\ LET rows == job[t].uids
           all == rows # {} /\ rows \subseteq view.ticked
       IN  \E S \in SUBSET rows :
             /\ Cardinality(S) = IF all THEN 0
                                 ELSE IF Cardinality(rows) > MaxSelected THEN MaxSelected
                                 ELSE Cardinality(rows)
             /\ view' = [view EXCEPT !.ticked = S]
    /\ Done(t)
    /\ UNCHANGED <<Server, Past>>

\* What a verb comes to: deleteMessages only sets \Deleted on mail already in
\* Trash, and moveToSpecial leaves alone mail already where it would go.
Does(verb, folder, dest) ==
    IF verb = "delete" /\ folder = Trash THEN "mark"
    ELSE IF verb = "file" /\ folder = dest THEN "flag"
    ELSE IF messageLeavesFolder(verb) THEN "move"
    ELSE "flag"

\* handleMessageAction: what to act on is settled from the position as it is,
\* and the boxes the page posted; and the row to go on to while the list still
\* holds the message.  "keep" also stands for seen-all, which asks for no
\* selection.  Nothing here depends on the flags SetFlags and MarkAllSeen
\* change, so a press that only asks for those is answered as it is made.
Press(t, scope, posted, verb, dest) ==
    LET v == view
        uids == selectedUIDs(scope, posted, v)
        does == Does(verb, v.folder, dest)
    IN  /\ Asks(t) /\ LineFree
        /\ uids # {} \/ verb = "keep"
        /\ Goes(t, [Idle EXCEPT
                !.at = IF does = "flag" THEN "settle" ELSE "act",
                !.does = does,
                !.dest = IF does = "move" THEN dest ELSE Inbox,
                !.folder = IF does = "flag" THEN Inbox ELSE v.folder,
                !.uids = IF verb = "keep" THEN {} ELSE uids,
                !.then = IF messageLeavesFolder(verb) /\ v.open \in uids
                         THEN successorAfter(Present(v.folder), v.open, uids) ELSE 0,
                !.closes = verb # "keep", !.ticks = scope # "open"])
        /\ UNCHANGED <<Server, view, Past>>

\* All that updateView needs to know once the server has answered.
Answered(t) ==
    LET j == job[t]
    IN  Goes(t, [Idle EXCEPT !.at = "settle", !.then = j.then,
                             !.uids = IF j.closes THEN j.uids ELSE {},
                             !.closes = j.closes, !.ticks = j.ticks])

\* SetFlags with \Deleted, and no EXPUNGE.
DeleteInTrash(t) ==
    LET j == job[t]
    IN  /\ At(t, "act") /\ LineFree
        /\ j.does = "mark"
        /\ marked' = marked \union ({j.folder} \X Here(j))
        /\ condemned' = condemned \union {box[j.folder][u] : u \in Here(j)}
        /\ Answered(t)
        /\ UNCHANGED <<box, next, cap, view, mishaps, trouble, astray>>

\* MoveMessages: one MOVE where the server has it,
Move(t) ==
    LET j == job[t]
        gone == Expunged(box, j.folder, Here(j))
    IN  /\ At(t, "act") /\ LineFree
        /\ j.does = "move" /\ cap = "MOVE"
        /\ Room(j)
        /\ next' = [next EXCEPT ![j.dest] = @ + Cardinality(Here(j))]
        /\ box' = [gone EXCEPT ![j.dest] = Grown(@, Copied(j))]
        /\ marked' = Unmarked(j.folder, Here(j))
        /\ Answered(t)
        /\ UNCHANGED <<cap, view, Past>>

\* and otherwise COPY, then \Deleted, then EXPUNGE.  A slip: a COPY the server
\* refused is not noticed.
CopyUnchecked(t) ==
    LET j == job[t]
    IN  /\ At(t, "act") /\ LineFree
        /\ j.does = "move" /\ cap # "MOVE"
        /\ \/ Deliver(j)
           \/ UNCHANGED <<box, next>>
        /\ astray' = (astray \/ Ahead(j))
        /\ Goes(t, [j EXCEPT !.at = "copied", !.dest = Inbox])
        /\ UNCHANGED <<marked, cap, view, condemned, mishaps, trouble>>
Copy(t) ==
    LET j == job[t]
    IN  /\ At(t, "act") /\ LineFree
        /\ j.does = "move" /\ cap # "MOVE"
        /\ Deliver(j)
        /\ astray' = (astray \/ Ahead(j))
        /\ Goes(t, [j EXCEPT !.at = "copied", !.dest = Inbox])
        /\ UNCHANGED <<marked, cap, view, condemned, mishaps, trouble>>
Mark(t) ==
    LET j == job[t]
    IN  /\ At(t, "copied")
        /\ marked' = marked \union ({j.folder} \X Here(j))
        /\ Now(t, "marked")
        /\ UNCHANGED <<box, next, cap, view, Past>>

\* UID EXPUNGE names its UIDs; a plain EXPUNGE takes all that is marked, other
\* clients' included.  A slip: the plain one always.
AllMarked(j) == {u \in Present(j.folder) : <<j.folder, u>> \in marked}
ToExpunge(j) ==
    IF cap = "UIDPLUS" THEN AllMarked(j) \intersect j.uids ELSE AllMarked(j)
Expunge(t) ==
    LET j == job[t]
        S == ToExpunge(j)
    IN  /\ At(t, "marked")
        /\ box' = Expunged(box, j.folder, S)
        /\ marked' = Unmarked(j.folder, S)
        /\ trouble' = (trouble \/ ~(S \subseteq j.uids))
        /\ Answered(t)
        /\ UNCHANGED <<next, cap, view, condemned, mishaps, astray>>

\* updateView, and then whatever is still open is drawn.
Settle(t) ==
    /\ At(t, "settle")
    /\ view' = Settled(view, job[t])
    /\ Goes(t, [Idle EXCEPT !.at = "look"])
    /\ UNCHANGED <<Server, Past>>

MayGoAmiss == mishaps < MaxMishaps
Mishap == mishaps' = mishaps + 1 /\ Cardinality(Busy') + mishaps' <= MaxAtOnce

\* A command the server refuses, or whose connection is lost, before it took
\* effect or after: the request ends with an error page.  If only the list
\* failed, there is no message to go on to.
Fail(t) ==
    /\ MayGoAmiss
    /\ trouble' = TRUE
    /\ \/ job[t].at \in {"act", "settle"} /\ job[t].then # 0
          /\ Goes(t, [job[t] EXCEPT !.then = 0])
       \/ job[t].at \in {"act", "copied", "marked", "settle", "fetch"} /\ Done(t)
    /\ UNCHANGED <<Server, view, condemned, astray>>
    /\ Mishap

\* Signing out forgets the position; so does the sweep of idle ones.
SignOut ==
    /\ view' = NewView
    /\ UNCHANGED <<Server, job, Past>>

-----------------------------------------------------------------------------
(* Another mail client, between any two commands.                          *)

OthersMark(f, u) ==
    /\ u \in Present(f)
    /\ marked' = marked \union {<<f, u>>}
    /\ condemned' = condemned \union {box[f][u]}
    /\ UNCHANGED <<box, next, cap, view, job, trouble, astray>>
    /\ Mishap

OthersExpunge(f) ==
    /\ LET S == {u \in Present(f) : <<f, u>> \in marked}
       IN  /\ S # {}
           /\ box' = Expunged(box, f, S)
           /\ marked' = Unmarked(f, S)
    /\ trouble' = TRUE
    /\ UNCHANGED <<next, cap, view, job, condemned, astray>>
    /\ Mishap

OthersMove(f, u, g) ==
    LET j == [folder |-> f, uids |-> {u}, dest |-> g]
    IN  /\ f # g /\ u \in Present(f) /\ Room(j)
        /\ next' = [next EXCEPT ![g] = @ + 1]
        /\ box' = [Expunged(box, f, {u}) EXCEPT ![g] = Grown(@, Copied(j))]
        /\ marked' = Unmarked(f, {u})
        /\ trouble' = TRUE
        /\ UNCHANGED <<cap, view, job, condemned, astray>>
        /\ Mishap

Others ==
  /\ MayGoAmiss
  /\ \E f \in Folders :
      \/ OthersExpunge(f)
      \/ \E u \in Present(f) : OthersMark(f, u)
      \/ \E u \in Present(f), g \in Folders : OthersMove(f, u, g)

\* A page may have been drawn at any time: it names any UID its folder had.
Named == 1..(next[view.folder] - 1)

Dests(verb) ==
    CASE verb = "move" -> Folders
      [] verb = "file" -> Filing
      [] OTHER -> {Trash}

Presses(t) ==
  /\ Asks(t)
  /\ \E scope \in {"open", "list"}, verb \in Verbs :
      \E posted \in IF scope = "list" THEN SUBSET Named ELSE {{}},
         dest \in Dests(verb) :
        Press(t, scope, posted, verb, dest)

Request(t) ==
    \/ Redraw(t) \/ Look(t) \/ Fetch(t) \/ Forget(t)
    \/ ReaderStep(t) \/ Stepped(t) \/ ReaderClose(t)
    \/ TurnList(t) \/ SelectAll(t) \/ Ticked(t)
    \/ DeleteInTrash(t) \/ Move(t) \/ Copy(t) \/ Mark(t) \/ Expunge(t)
    \/ Settle(t) \/ Fail(t)
    \/ Presses(t)
    \/ \E u \in Named : OpenMessage(t, u) \/ Select(t, u)
    \/ \E f \in Folders : OpenFolder(t, f)

Next ==
    \/ \E t \in Tabs : Request(t)
    \/ SignOut
    \/ Others

Spec == Init /\ [][Next]_vars

-----------------------------------------------------------------------------
(* What must hold.                                                         *)

Held(b) == UNION {{b[f][u] : u \in DOMAIN b[f]} : f \in Folders}

\* No message is lost: one that is in no folder is one somebody deleted for
\* good, however a move, done in three commands, was interrupted or overtaken;
\* unless one named UIDs its folder had yet to hand out, which a listing of
\* another folder recorded late may do (MoveMessages).
NothingLost == astray \/ Messages \ Held(box) \subseteq condemned

\* Once no request is in flight, the message the position says is open is
\* there, whatever the tabs filed and opened at once; unless a command failed,
\* or mail went that no request named (handleMessageAction, renderReader).
OpenIsThere ==
    (\A t \in Tabs : job[t].at = "idle") /\ ~trouble
        => view.open \in {0} \union Present(view.folder)

\* With MOVE or UIDPLUS a request takes out of a folder only the messages it
\* acts on, never those another client has marked (MoveMessages).
OwnOnly ==
    \A t \in Tabs, f \in Folders :
        job'[t] # job[t] /\ cap # "neither"
          => \/ Present(f) \subseteq Present(f)'
             \/ /\ f = job[t].folder
                /\ Present(f) \ Present(f)' \subseteq job[t].uids
OthersStand == [][OwnOnly]_vars

\* What stays ticked, and what stays open, keeps naming the same message or
\* none, though a UID names another one in every folder (setFolder); a UID the
\* folder has not handed out yet names none so far.
KeepsItsMeaning ==
    [][LET same(u) == u < next[view.folder] /\ u \in DOMAIN box'[view'.folder]
                        => /\ u \in Present(view.folder)
                           /\ box'[view'.folder][u] = box[view.folder][u]
       IN  /\ \A u \in view.ticked \intersect view'.ticked : same(u)
           /\ view.open # 0 /\ view'.open = view.open => same(view.open)]_vars
=============================================================================
