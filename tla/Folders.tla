------------------------------ MODULE Folders -------------------------------
(***************************************************************************)
(* The folders of one mailbox, the one connection it has, and the folder   *)
(* manager.                                                                *)
(*                                                                         *)
(* The pool remembers which folder its connection has selected and how     *)
(* (pooledConn.selected, readOnly) and skips the SELECT when the next      *)
(* caller asks for the same one.  The memory is a name; what the server    *)
(* holds open is a mailbox, and renaming or deleting parts the two.  A     *)
(* rename or a delete from the folder manager lists first and acts in a    *)
(* second command, with other windows and other mail programs in between.  *)
(*                                                                         *)
(* A path is the sequence of its names below the personal namespace, so    *)
(* the prefix and the delimiter personalNamespace finds are implicit; a    *)
(* name holds no delimiter, which CreateFolder and RenameFolder refuse.    *)
(* One command runs at a time, under the connection's mutex.               *)
(***************************************************************************)
EXTENDS Naturals, Sequences

CONSTANTS
    Path,        \* paths the bound admits, sequences of names
    MaxMbox,     \* bound: mailboxes the server comes to hold at a time
    Nowhere,     \* neither a path nor a mailbox
    Inbox,       \* the path of INBOX
    Attr,        \* path -> the SPECIAL-USE role the server gives it, or ""
    RoleName,    \* name -> its role in specialUseOfName, or ""
    Rank,        \* path -> its place in the order of sortFolders
    Dependable,  \* protectedFolderLeaves, as names
    Hand         \* windows of the folder manager

ASSUME PathAssumption ==
    /\ Inbox \in Path /\ Len(Inbox) = 1   \* INBOX is below nothing
    /\ \A p \in Path : Len(p) \in Nat \ {0}
ASSUME MaxMboxAssumption == MaxMbox \in Nat \ {0}
ASSUME NowhereAssumption == Nowhere \notin Path \union Nat
ASSUME RankAssumption ==
    /\ Rank \in [Path -> Nat]
    /\ \A p, q \in Path : Rank[p] = Rank[q] => p = q

VARIABLES
    holds,       \* path -> mailbox, over the folders the server has
    subs,        \* the server's subscriptions, by path
    conn,        \* the pooled connection, and what the server has open on it
    asked,       \* window -> what it is about to do, having listed
    ran,         \* history: the command that has just run
    stirred,     \* history: who moved the folder selected, since it was
    made         \* history: folders made and subscribed to here, and kept

folderVars == <<holds, subs, conn, asked, ran, stirred, made>>

Mbox == 1 .. MaxMbox

Connection ==
    [live : BOOLEAN,
     at : Path \union {Nowhere},        \* pc.selected
     readOnly : BOOLEAN,                \* pc.readOnly
     has : BOOLEAN,                     \* c.Mailbox() is not nil
     open : Mbox \union {Nowhere},      \* on the server
     examined : BOOLEAN]                \* on the server: opened by EXAMINE

FolderCommand == [path : Path \union {Nowhere}, readOnly : BOOLEAN]

Change == [op : {"no", "rename", "delete", "create"},
           path : Path \union {Nowhere}, to : Path \union {Nowhere}]

FoldersTypeOK ==
    /\ \E P \in SUBSET Path : Inbox \in P /\ holds \in [P -> Mbox]
    /\ subs \subseteq Path
    /\ conn \in Connection
    /\ asked \in [Hand -> Change]
    /\ ran \in FolderCommand
    /\ stirred \subseteq {"others", "parent"}
    /\ made \subseteq Path

Present == DOMAIN holds
Leaf(p) == p[Len(p)]
Parent(p) == SubSeq(p, 1, Len(p) - 1)
Under(p, q) == Len(q) > Len(p) /\ SubSeq(q, 1, Len(p)) = p
Moved(p, q, to) == to \o SubSeq(q, Len(p) + 1, Len(q))  \* q, once p is at to

NoConn == [live |-> FALSE, at |-> Nowhere, readOnly |-> FALSE, has |-> FALSE,
           open |-> Nowhere, examined |-> FALSE]
Nobody == [op |-> "no", path |-> Nowhere, to |-> Nowhere]
NoCommand == [path |-> Nowhere, readOnly |-> FALSE]
Idle(h) == asked[h].op = "no"
Settle(h) == asked' = [asked EXCEPT ![h] = Nobody]

PutAt(p, b) == [q \in Present \union {p} |-> IF q = p THEN b ELSE holds[q]]
Gone(p) == [q \in Present \ {p} |-> holds[q]]

\* A mailbox that is nowhere and not open: the least, of those alike.
Unused == {b \in Mbox : b # conn.open /\ \A q \in Present : holds[q] # b}
Fresh(b) == b \in Unused /\ \A c \in Unused : b <= c

\* The server's RENAME: a folder takes those below it along.
Renamed(p, to) ==
    LET moving == {q \in Present : q = p \/ Under(p, q)}
        landed == {Moved(p, q, to) : q \in moving}
    IN [q \in (Present \ moving) \union landed |->
            IF q \in landed
            THEN holds[CHOOSE s \in moving : Moved(p, s, to) = q]
            ELSE holds[q]]

MayRename(p, to) ==
    /\ p \in Present /\ to \notin Present
    /\ \A q \in Present : q = p \/ Under(p, q) => Moved(p, q, to) \in Path \ Present

-----------------------------------------------------------------------------
(* What is shown, and what is protected. *)

SpecialUse(p) ==
    IF Attr[p] # "" THEN Attr[p]
    ELSE IF Len(p) = 1 THEN RoleName[Leaf(p)] ELSE ""

\* The sidebar's list hides what is not subscribed to, if anything is, and
\* never INBOX or a folder with a job.
Sidebar ==
    {p \in Present : \/ subs = {} \/ p \in subs
                   \/ p = Inbox \/ SpecialUse(p) # ""}

\* specialFolderMap: of the folders with a role, the first listed has it.
HasTheRole(p) ==
    /\ SpecialUse(p) # ""
    /\ \A q \in Present : SpecialUse(q) = SpecialUse(p) => Rank[p] <= Rank[q]

\* protectedFolder.  The leaf of a nested path is found through its row, so
\* a path that is not listed is compared whole.
Protected(p) ==
    \/ (p \in Present \/ Len(p) = 1) /\ Leaf(p) \in Dependable
    \/ p \in Present /\ HasTheRole(p)

-----------------------------------------------------------------------------
(* The connection. *)

\* withConn: a dead or missing connection is replaced, and nothing is
\* selected on the new one.
Live == IF conn.live THEN conn ELSE [NoConn EXCEPT !.live = TRUE]

\* Dropped, reaped, or lost under way.
Lose ==
    /\ conn.live
    /\ conn' = NoConn
    /\ ran' = NoCommand
    /\ stirred' = {}
    /\ UNCHANGED <<holds, subs, asked, made>>

AnyReuse(haveReadOnly, wantReadOnly) == TRUE    \* mutant: the name alone
CanReuse(haveReadOnly, wantReadOnly) == haveReadOnly => wantReadOnly

Reusable(p, readOnly) ==
    Live.at = p /\ Live.has /\ CanReuse(Live.readOnly, readOnly)

\* The rest of a closure runs on whatever the connection has open.
Runs(p, readOnly) == ran' = [path |-> p, readOnly |-> readOnly]

\* selectMailbox, where the memory serves.
Reuse(p, readOnly) ==
    /\ Reusable(p, readOnly)
    /\ Runs(p, readOnly)
    /\ UNCHANGED <<holds, subs, conn, asked, stirred, made>>

\* And where it does not.
Select(p, readOnly) ==
    /\ ~ Reusable(p, readOnly)
    /\ p \in Present
    /\ conn' = [Live EXCEPT !.at = p, !.readOnly = readOnly, !.has = TRUE,
                            !.open = holds[p], !.examined = readOnly]
    /\ Runs(p, readOnly)
    /\ stirred' = {}
    /\ UNCHANGED <<holds, subs, asked, made>>

\* A SELECT that is refused closes what was open, while the pool keeps the
\* name of it.  Whether the library still reports a mailbox is left open.
SelectRefused(p, readOnly) ==
    /\ ~ Reusable(p, readOnly)
    /\ p \notin Present
    /\ \E has \in {FALSE, Live.has} :
         conn' = [Live EXCEPT !.open = Nowhere, !.has = has]
    /\ ran' = NoCommand
    /\ UNCHANGED <<holds, subs, asked, stirred, made>>

-----------------------------------------------------------------------------
(* The folder manager. *)

\* A rename or a delete lists every folder first.  A list that fails skips
\* the check (handlers.go:3046, 3072).
AskChange(h, op, p, to) ==
    /\ Idle(h)
    /\ \E listed \in BOOLEAN : listed => ~ Protected(p)
    /\ asked' = [asked EXCEPT ![h] = [op |-> op, path |-> p, to |-> to]]
    /\ conn' = Live
    /\ ran' = NoCommand
    /\ UNCHANGED <<holds, subs, stirred, made>>

\* A parent must be one of the folders the sidebar offers.
AskCreate(h, p) ==
    /\ Idle(h)
    /\ Len(p) > 1 => Parent(p) \in Sidebar
    /\ asked' = [asked EXCEPT ![h] = [Nobody EXCEPT !.op = "create", !.path = p]]
    /\ conn' = Live
    /\ ran' = NoCommand
    /\ UNCHANGED <<holds, subs, stirred, made>>

Remembers(p) == Live                            \* mutant: never dropped

\* The memory is dropped where it named the very folder that went.
Forgets(p) == [Live EXCEPT !.at = IF @ = p THEN Nowhere ELSE @]

SubscribedAtTheTop(p) == subs \union {<<Leaf(p)>>}   \* mutant: the leaf
Subscribed(p) == subs \union {p}
Unsubscribed(p) == subs \ {p}

\* SUBSCRIBE is best effort; CREATE of what is there is refused.
Create(h) ==
    LET p == asked[h].path
    IN /\ asked[h].op = "create"
       /\ Settle(h)
       /\ conn' = Live
       /\ ran' = NoCommand
       /\ IF p \in Present
          THEN UNCHANGED <<holds, subs, made>>
          ELSE \E b \in Mbox, subscribed \in BOOLEAN :
                 /\ Fresh(b)
                 /\ holds' = PutAt(p, b)
                 /\ subs' = IF subscribed THEN Subscribed(p) ELSE subs
                 /\ made' = IF subscribed THEN made \union {p} ELSE made
       /\ UNCHANGED stirred

Rename(h) ==
    LET p == asked[h].path
        to == asked[h].to
    IN /\ asked[h].op = "rename"
       /\ Settle(h)
       /\ ran' = NoCommand
       /\ IF p # Inbox /\ MayRename(p, to)
          THEN /\ holds' = Renamed(p, to)
               /\ conn' = Forgets(p)
               /\ stirred' = IF Live.at # Nowhere /\ Under(p, Live.at)
                             THEN stirred \union {"parent"} ELSE stirred
               /\ made' = {q \in made : q # p /\ ~ Under(p, q)}
          ELSE conn' = Live /\ UNCHANGED <<holds, stirred, made>>
       /\ UNCHANGED subs

\* The server closes what was open of a mailbox that goes.
ClosedOn(c, p) == [c EXCEPT !.open = IF @ = holds[p] THEN Nowhere ELSE @]

Delete(h) ==
    LET p == asked[h].path
    IN /\ asked[h].op = "delete"
       /\ Settle(h)
       /\ ran' = NoCommand
       /\ IF p # Inbox /\ p \in Present
          THEN /\ holds' = Gone(p)
               /\ conn' = ClosedOn(Forgets(p), p)
               /\ \E failed \in BOOLEAN :
                    subs' = IF failed THEN subs ELSE Unsubscribed(p)
               /\ made' = made \ {p}
          ELSE conn' = Live /\ UNCHANGED <<holds, subs, made>>
       /\ UNCHANGED stirred

\* SetFolderSubscribed asks nothing of the folder; INBOX is not hidden.
SetSubscribed(p, on) ==
    /\ on \/ p # Inbox
    /\ subs' = IF on THEN Subscribed(p) ELSE Unsubscribed(p)
    /\ made' = IF on THEN made ELSE made \ {p}
    /\ conn' = Live
    /\ ran' = NoCommand
    /\ UNCHANGED <<holds, asked, stirred>>

-----------------------------------------------------------------------------
(* Other mail programs, on connections of their own. *)

OtherCreate(p) ==
    /\ p \notin Present
    /\ \E b \in Mbox : Fresh(b) /\ holds' = PutAt(p, b)
    /\ ran' = NoCommand
    /\ UNCHANGED <<subs, conn, asked, stirred, made>>

OtherDelete(p) ==
    /\ p \in Present /\ p # Inbox
    /\ holds' = Gone(p)
    /\ conn' = ClosedOn(conn, p)
    /\ made' = made \ {p}
    /\ ran' = NoCommand
    /\ UNCHANGED <<subs, asked, stirred>>

OtherRename(p, to) ==
    /\ p # Inbox /\ MayRename(p, to)
    /\ holds' = Renamed(p, to)
    /\ stirred' = IF conn.at = p \/ (conn.at # Nowhere /\ Under(p, conn.at))
                  THEN stirred \union {"others"} ELSE stirred
    /\ made' = {q \in made : q # p /\ ~ Under(p, q)}
    /\ ran' = NoCommand
    /\ UNCHANGED <<subs, conn, asked>>

-----------------------------------------------------------------------------

FoldersInit ==
    /\ holds = [p \in {Inbox} |-> 1]
    /\ subs = {}
    /\ conn = NoConn
    /\ asked = [h \in Hand |-> Nobody]
    /\ ran = NoCommand
    /\ stirred = {}
    /\ made = {}

FoldersNext ==
    \/ Lose
    \/ \E p \in Path, readOnly \in BOOLEAN :
         \/ Reuse(p, readOnly)
         \/ Select(p, readOnly)
         \/ SelectRefused(p, readOnly)
    \/ \E h \in Hand, p \in Present :   \* pressed on a row of the manager
         \/ \E to \in Path : Parent(to) = Parent(p) /\ AskChange(h, "rename", p, to)
         \/ AskChange(h, "delete", p, Nowhere)
    \/ \E h \in Hand, p \in Path : AskCreate(h, p)
    \/ \E h \in Hand : Create(h) \/ Rename(h) \/ Delete(h)
    \/ \E p \in Present, on \in BOOLEAN : SetSubscribed(p, on)
    \/ \E p \in Path : OtherCreate(p) \/ OtherDelete(p)
    \/ \E p, to \in Path : OtherRename(p, to)

FoldersSpec == FoldersInit /\ [][FoldersNext]_folderVars

-----------------------------------------------------------------------------
(* Properties. *)

OnItsFolder ==
    /\ ran.path \in Present /\ conn.open = holds[ran.path]
    /\ conn.examined => ran.readOnly

\* A command that runs at all runs on the folder it names, opened for what it
\* does: skipping the SELECT never sends it to another mailbox, and never a
\* write to one opened for reading.  Two cases are known and excused.  The
\* server says nothing when another program renames the folder that is
\* open; and renaming a parent here leaves the memory of a child in place
\* (mail.go:1211 compares the whole name).
RightFolder ==
    (ran # NoCommand /\ conn.open # Nowhere /\ stirred = {}) => OnItsFolder

\* A folder made here stays in the sidebar until it is hidden, deleted or
\* renamed, whatever else is subscribed to or hidden meanwhile
\* (mail.go:351, 1096, 1251).
MadeIsShown == made \subseteq Sidebar
=============================================================================
