------------------------------- MODULE Drafts -------------------------------
(***************************************************************************)
(* Writing one message: the composers it is open in (compose.html and its  *)
(* script in app.js), the files attached to it (AttachStore), the copies   *)
(* in the Drafts folder, and its delivery (handleDraftSave, handleSend,    *)
(* SendMessage).                                                           *)
(*                                                                         *)
(* What the message says is the set of the edits it was made from; part 0  *)
(* is an attached file, which a composer knows only by its id in the store *)
(* until a request resolves it.  A stored copy is superseded by deleting   *)
(* it, after the new one is there, by the UID the composer carries.        *)
(***************************************************************************)
EXTENDS Naturals, FiniteSets, Functions

CONSTANTS
    Pages,          \* composers ever opened on the message
    First,          \* the one it was begun in
    Requests,       \* bound: saves and sends ever posted
    None,
    MaxEdit,        \* bound: edits
    MaxFile,        \* bound: files in the store at once
    MaxUid,         \* bound: copies in Drafts at once
    MaxTrouble      \* bound: overlaps, failures, lost replies and restarts

ASSUME DraftsAssumption ==
    /\ First \in Pages /\ None \notin Pages
    /\ MaxEdit \in Nat /\ MaxFile \in Nat /\ MaxUid \in Nat /\ MaxTrouble \in Nat

VARIABLES
    page,       \* the composers
    store,      \* AttachStore.items: the ids present
    drafts,     \* the Drafts folder: each UID's message
    job,        \* the requests in flight
    edits,      \* edits made so far, in any composer
    sent,       \* whether the SMTP server has accepted the message
    owed,       \* history: what stored copies have held, and nobody
    excused,    \* history: has sent, taken off, or (the file) seen go
    trouble     \* history: see MaxTrouble

draftsVars == <<page, store, drafts, job, edits, sent, owed, excused, trouble>>

File == 0
Part == 0..MaxEdit
\* Ids and UIDs are names never given twice, so those whose file or copy is gone
\* are all one.
Lost == MaxFile + 1
Gone == MaxUid + 1

Page == [at : {"unused", "open", "closed"},
         text : SUBSET Part, file : 0..Lost,
         uid : 0..Gone,             \* data-draft-uid
         clean : BOOLEAN,           \* snapshot() = initial, which sees no file:
                                    \* it reads the strip that was swapped out
         sending : BOOLEAN]

Job == [at : {"new", "done", "append", "find", "supersede", "deliver", "conclude"},
        auto : BOOLEAN,             \* the script waits for the reply
        page : Pages \union {None}, \* the composer the reply goes to
        text : SUBSET Part, file : 0..Lost,
        uid : 0..Gone,              \* draft.DraftUID
        new : 0..Gone]              \* what APPEND made

Fresh == [at |-> "open", text |-> {}, file |-> 0, uid |-> 0,
          clean |-> TRUE, sending |-> FALSE]
Unused == [Fresh EXCEPT !.at = "unused"]
Closed == [Fresh EXCEPT !.at = "closed"]
New == [at |-> "new", auto |-> FALSE, page |-> None, text |-> {},
         file |-> 0, uid |-> 0, new |-> 0]
Over == [New EXCEPT !.at = "done"]

DraftsTypeOK ==
    /\ page \in [Pages -> Page]
    /\ store \subseteq 1..MaxFile
    /\ DOMAIN drafts \subseteq 1..MaxUid
    /\ \A u \in DOMAIN drafts : drafts[u] \subseteq Part
    /\ job \in [Requests -> Job]
    /\ edits \in 0..MaxEdit
    /\ sent \in BOOLEAN
    /\ owed \subseteq Part /\ excused \subseteq Part
    /\ trouble \in 0..MaxTrouble

DraftsInit ==
    /\ page = [p \in Pages |-> IF p = First THEN Fresh ELSE Unused]
    /\ store = {} /\ drafts = << >>
    /\ job = [r \in Requests |-> New]
    /\ edits = 0
    /\ sent = FALSE
    /\ owed = {} /\ excused = {}
    /\ trouble = 0

-----------------------------------------------------------------------------

Busy == {r \in Requests : job[r].at \notin {"new", "done"}}
Composer(p) == page[p].at = "open"

\* AttachStore.Resolve: what a message with this text and file id comes to.
Resolved(text, file) == text \union (IF file \in store THEN {File} ELSE {})
Missing(file) == file # 0 /\ file \notin store

\* The composers become pg and the requests jb as Drafts becomes dr and the
\* store st; a request whose composer is closed answers nobody.
Named(x, dr, st) ==
    [x EXCEPT !.uid = IF @ \in DOMAIN dr \union {0} THEN @ ELSE Gone,
              !.file = IF @ \in st \union {0} THEN @ ELSE Lost]
Become(pg, jb, dr, st) ==
    /\ page' = [p \in Pages |-> Named(pg[p], dr, st)]
    /\ job' = [r \in Requests |-> [Named(jb[r], dr, st) EXCEPT
                 !.new = IF @ \in DOMAIN dr \union {0} THEN @ ELSE Gone,
                 !.page = IF @ # None /\ pg[@].at # "open" THEN None ELSE @]]
    /\ drafts' = dr
    /\ store' = st

Least(S) == CHOOSE n \in S : \A m \in S : n <= m
FreeFiles == (1..MaxFile) \ store
FreeUids == (1..MaxUid) \ DOMAIN drafts

Debt == <<owed, excused>>
History == <<sent, Debt, trouble>>
Owes(parts) == owed' = owed \union (parts \ excused) /\ UNCHANGED excused
Excuses(parts) == owed' = owed \ parts /\ excused' = excused \union parts

\* A command fails, or its answer or the reply is lost; or something is begun
\* while something else is not finished.
Trouble == trouble < MaxTrouble /\ trouble' = trouble + 1
Calm == UNCHANGED trouble

-----------------------------------------------------------------------------
(* The composer.                                                           *)

With(p, pg) == [page EXCEPT ![p] = pg]
Only(pg) == Become(pg, job, drafts, store)

Type(p) ==
    /\ Composer(p) /\ edits < MaxEdit
    /\ edits' = edits + 1
    /\ Only(With(p, [page[p] EXCEPT !.text = @ \union {edits'}, !.clean = FALSE]))
    /\ UNCHANGED History

\* handleAttachUpload: the strip comes back without what has aged out.
Attach(p) ==
    /\ Composer(p) /\ FreeFiles # {}
    /\ page[p].file = 0 \/ Missing(page[p].file)
    /\ LET f == Least(FreeFiles)
       IN  Become(With(p, [page[p] EXCEPT !.file = f]), job, drafts, store \union {f})
    /\ UNCHANGED <<edits, History>>

\* No file, one that cannot be read or that the store refuses.
AttachRefused(p) ==
    /\ Composer(p) /\ Missing(page[p].file)
    /\ Only(With(p, [page[p] EXCEPT !.file = 0]))
    /\ UNCHANGED <<edits, History>>

\* A form over the limit: its ids are not read, and the strip comes back empty.
AttachTooLarge(p) ==
    /\ Composer(p) /\ page[p].file # 0
    /\ Only(With(p, [page[p] EXCEPT !.file = 0]))
    /\ Excuses({File})
    /\ UNCHANGED <<edits, sent, trouble>>

\* handleAttachRemove
RemoveFile(p) ==
    /\ Composer(p) /\ page[p].file # 0
    /\ Become(With(p, [page[p] EXCEPT !.file = 0]), job, drafts, store \ {page[p].file})
    /\ Excuses({File})
    /\ UNCHANGED <<edits, sent, trouble>>

\* A request carries what the form holds as it is posted.
Post(r, p, j, pg) ==
    /\ Composer(p) /\ job[r].at = "new"
    /\ Become(With(p, pg),
              [job EXCEPT ![r] = [j EXCEPT !.text = page[p].text, !.file = page[p].file,
                                           !.uid = page[p].uid]],
              drafts, store)
    /\ IF Busy = {} THEN Calm ELSE Trouble
    /\ UNCHANGED <<edits, sent, Debt>>

\* A link is followed: the click waits for the save (saveDraft).
FollowLink(r, p) ==
    /\ ~page[p].clean /\ ~page[p].sending
    /\ Post(r, p, [New EXCEPT !.at = "append", !.page = p, !.auto = TRUE], page[p])
\* The page goes away (pagehide); the reply reaches nobody.
PageHide(r, p) ==
    /\ ~page[p].clean /\ ~page[p].sending
    /\ Post(r, p, [New EXCEPT !.at = "append"], Closed)
\* The form's two buttons, Save draft and Send; either may be pressed again.
Press(r, p, at) ==
    Post(r, p, [New EXCEPT !.at = at, !.page = p], [page[p] EXCEPT !.sending = TRUE])

\* Nothing is saved: Close, a page that is clean or sending, and a swap of the
\* reading pane, which is not a link and hides no page.
LeavePage(p) ==
    /\ Composer(p)
    /\ Only(With(p, Closed))
    /\ UNCHANGED <<edits, History>>

\* resumeDraft, restoreAttachments: the file comes back under a new id.
Resume(p, u) ==
    /\ page[p].at = "unused"
    /\ u \in DOMAIN drafts
    /\ File \in drafts[u] => FreeFiles # {}
    /\ LET new == IF File \in drafts[u] THEN {Least(FreeFiles)} ELSE {}
           f == IF new = {} THEN 0 ELSE Least(new)
       IN  Become(With(p, [Fresh EXCEPT !.text = drafts[u] \ {File}, !.uid = u, !.file = f]),
                  job, drafts, store \union new)
    /\ IF Busy = {} /\ \A q \in Pages : ~Composer(q) THEN Calm ELSE Trouble
    /\ UNCHANGED <<edits, sent, Debt>>

-----------------------------------------------------------------------------
(* handleDraftSave.                                                        *)

\* The composer waiting for the reply, if there still is one.
Waiting(r) == Pages \intersect {job[r].page}
Shown(r, pg) == [p \in Pages |-> IF p \in Waiting(r) THEN pg ELSE page[p]]
Done(r) == [job EXCEPT ![r] = Over]

\* The reply: another page, as for the button; or the script takes the UID and
\* what is on screen by then for saved, and the link was only a download.
Answers(r, uid) ==
    {Shown(r, Closed)} \union
    {Shown(r, [page[p] EXCEPT !.uid = IF uid = 0 THEN @ ELSE uid, !.clean = TRUE]) :
        p \in IF job[r].auto THEN Waiting(r) ELSE {}}

\* APPEND of what the form resolves to, short of a file that is gone; with
\* UIDPLUS the server says where it put it.
Form(r) == Resolved(job[r].text, job[r].file)
Appended(r) ==
    [u \in DOMAIN drafts \union {Least(FreeUids)} |->
        IF u \in DOMAIN drafts THEN drafts[u] ELSE Form(r)]
Append(r, then) ==
    /\ job[r].at = "append" /\ FreeUids # {}
    /\ Become(page,
              [job EXCEPT ![r] = [@ EXCEPT !.text = {}, !.file = 0,
                                    !.new = Least(FreeUids), !.at = then]],
              Appended(r), store)
    /\ Owes(Form(r))
    /\ UNCHANGED <<edits, sent, trouble>>
\* A slip: an APPEND that fails, and the older copy is deleted all the same.
AppendFailsUnnoticed(r) ==
    /\ job[r].at = "append"
    /\ Become(page, [job EXCEPT ![r].at = "supersede"], drafts, store)
    /\ UNCHANGED <<edits, sent, Debt>>
    /\ Trouble
\* No Drafts folder, or APPEND fails, having stored the message or not: the
\* older copy stays, and the script is given its UID.
AppendFails(r) ==
    /\ job[r].at = "append"
    /\ \E pg \in Answers(r, job[r].uid) :
         \/ FreeUids # {} /\ Become(pg, Done(r), Appended(r), store) /\ Owes(Form(r))
         \/ Become(pg, Done(r), drafts, store) /\ UNCHANGED Debt
    /\ UNCHANGED <<edits, sent>>
    /\ Trouble

\* FindByMessageID.  A slip: without UIDPLUS the UID is left unknown.
Found(r, uid) ==
    /\ job[r].at = "find"
    /\ Become(page, [job EXCEPT ![r].at = "supersede", ![r].new = uid], drafts, store)
    /\ UNCHANGED <<edits, sent, Debt>>
FindNothing(r) == Found(r, 0) /\ Calm
Find(r) == Found(r, IF job[r].new = Gone THEN 0 ELSE job[r].new) /\ Calm
FindFails(r) == Found(r, 0) /\ Trouble

\* DeleteMessageUID of the copy the form came from; then the reply.
Without(u) == Restrict(drafts, DOMAIN drafts \ {u})
Superseded(r) == IF job[r].uid # job[r].new THEN Without(job[r].uid) ELSE drafts
Supersede(r) ==
    /\ job[r].at = "supersede"
    /\ \E pg \in Answers(r, job[r].new) : Become(pg, Done(r), Superseded(r), store)
    /\ UNCHANGED <<edits, History>>
\* The command fails; or the reply does, and the composer is as it was.
SupersedeFails(r) ==
    /\ job[r].at = "supersede"
    /\ \/ \E pg \in Answers(r, job[r].new) : Become(pg, Done(r), drafts, store)
       \/ Become(page, Done(r), Superseded(r), store)
    /\ UNCHANGED <<edits, sent, Debt>>
    /\ Trouble

-----------------------------------------------------------------------------
(* handleSend.                                                             *)

\* The composer comes back with what was posted, its strip with what the store
\* still has; replies to the page it replaces reach nobody.
Refuse(r) ==
    LET j == job[r]
        back == [Fresh EXCEPT !.text = j.text, !.uid = j.uid,
                              !.file = IF Missing(j.file) THEN 0 ELSE j.file]
    IN  Become(Shown(r, back),
               [q \in Requests |->
                  IF q = r THEN Over
                  ELSE IF job[q].page \in Waiting(r) THEN [job[q] EXCEPT !.page = None]
                  ELSE job[q]],
               drafts, store)

\* A file that is gone.
RefuseShort(r) ==
    /\ job[r].at = "deliver" /\ Missing(job[r].file)
    /\ Refuse(r)
    /\ UNCHANGED <<edits, History>>

\* SendMessage, deliver: the server has the message once DATA is answered.
Accepted(r) ==
    /\ sent' = TRUE
    /\ Excuses(Form(r))
Deliver(r) ==
    /\ job[r].at = "deliver" /\ ~Missing(job[r].file)
    /\ Accepted(r)
    /\ Become(page, [job EXCEPT ![r].at = "conclude", ![r].text = {}], drafts, store)
    /\ UNCHANGED <<edits, trouble>>
\* An earlier command refused, a connection lost, or the answer to QUIT, which
\* deliver returns as its own.
DeliverFails(r) ==
    /\ job[r].at = "deliver" /\ ~Missing(job[r].file)
    /\ Accepted(r) \/ UNCHANGED <<sent, Debt>>
    /\ Refuse(r)
    /\ UNCHANGED edits
    /\ Trouble

\* The files are dropped (AttachStore.Forget), then the stored copy; either
\* way the browser is sent on.
Concluded(r, dr, st) ==
    /\ job[r].at = "conclude"
    /\ Become(Shown(r, Closed), Done(r), dr, st)
    /\ UNCHANGED <<edits, sent, Debt>>
Forgotten(r) == store \ {job[r].file}
Conclude(r) == Concluded(r, Without(job[r].uid), Forgotten(r)) /\ Calm
ConcludeFails(r) ==
    /\ \E st \in {store, Forgotten(r)} : Concluded(r, drafts, st)
    /\ Trouble

-----------------------------------------------------------------------------
(* The store and the process.                                              *)

\* AttachStore.reap, evictLocked: a file unused for attachTTL, or the least
\* recently used of too many.
AgeOut(f) ==
    /\ f \in store
    /\ Become(page, job, drafts, store \ {f})
    /\ Excuses({File})
    /\ UNCHANGED <<edits, sent, trouble>>

\* NewAttachStore: nothing in it is durable, and requests in flight are cut off.
Restart ==
    /\ Become(page, [r \in Requests |-> IF r \in Busy THEN Over ELSE job[r]], drafts, {})
    /\ Excuses({File})
    /\ UNCHANGED <<edits, sent>>
    /\ Trouble

Writer(p) ==
    \/ Type(p) \/ Attach(p) \/ AttachRefused(p) \/ AttachTooLarge(p)
    \/ RemoveFile(p) \/ LeavePage(p)
    \/ \E u \in DOMAIN drafts : Resume(p, u)
    \/ \E r \in Requests :
         \/ FollowLink(r, p) \/ PageHide(r, p)
         \/ Press(r, p, "append") \/ Press(r, p, "deliver")
Handler(r) ==
    \/ Append(r, "supersede") \/ Append(r, "find") \/ AppendFails(r) \/ Find(r) \/ FindFails(r)
    \/ Supersede(r) \/ SupersedeFails(r)
    \/ RefuseShort(r) \/ Deliver(r) \/ DeliverFails(r)
    \/ Conclude(r) \/ ConcludeFails(r)

DraftsNext ==
    \/ \E p \in Pages : Writer(p)
    \/ \E r \in Requests : Handler(r)
    \/ \E f \in store : AgeOut(f)
    \/ Restart

DraftsSpec == DraftsInit /\ [][DraftsNext]_draftsVars

-----------------------------------------------------------------------------
(* What must hold.                                                         *)

\* Whatever a stored copy has held is still in Drafts, unless it went out, was
\* taken off, or is a file the store has lost or the empty strip of an upload
\* over the limit has left out: however saves, sends and composers on the same
\* draft overlap and fail, a copy is only deleted by a request that has stored
\* or delivered all it held (handleDraftSave).
NothingUnsaid == owed \subseteq UNION {drafts[u] : u \in DOMAIN drafts}

\* Saves and sends that neither overlap nor fail leave one copy in Drafts, and
\* none once the message is sent, whether or not the server names the UIDs it
\* gives (handleDraftSave, handleSend).
NothingStacksUp ==
    Busy = {} /\ trouble = 0 => \A u, v \in DOMAIN drafts : u = v /\ ~sent
=============================================================================
