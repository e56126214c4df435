------------------------------ MODULE SentScan ------------------------------
(***************************************************************************)
(* The assistant's scan of a mailbox's Sent folder.                        *)
(*                                                                         *)
(* A press of Scan opens the file its findings are kept in, lists the      *)
(* folder, reads which of it has been scanned, and then asks the model     *)
(* about one message after another until its time is up, recording each    *)
(* answer in a transaction of its own (handlers.go:3259).  Nothing stops   *)
(* two presses at once, mail being sent or deleted meanwhile, or the       *)
(* browser going away.  The name of the file loses what is not a letter or *)
(* a digit, so that two addresses may come to the same one, and the file   *)
(* says whose it is (ollamascan_store.go:212).                             *)
(*                                                                         *)
(* There is one provider: another has files of its own.  What a message    *)
(* says is how many findings the model quotes from it.                     *)
(***************************************************************************)
EXTENDS Naturals, Sequences, FiniteSets, Functions

CONSTANTS
    Box,        \* mailboxes
    MessageId,  \* Message-IDs; a copy of one may be in two Sent folders
    Presses,    \* requests that may scan at once
    NoOwner,     \* not a mailbox
    ScanLimit,  \* messages one press looks at (scanListLimit)
    MaxSent,    \* bound: messages in the Sent folders together
    MaxFound    \* bound: findings in a message

ASSUME NoOwnerAssumption == NoOwner \notin Box
ASSUME ScanBounds == {ScanLimit, MaxSent, MaxFound} \subseteq Nat

VARIABLES
    fileOf,     \* the file each address comes to; a file is named by a mailbox
    fileOwner,  \* the owner row of each file
    scanned,    \* scanned and qa of each file: id -> row, over the rows there are
    opened,     \* scanStores.open: mailboxes whose file is open
    sentMail,   \* the Sent folders, oldest first
    scan        \* each press

scanVars == <<fileOf, fileOwner, scanned, opened, sentMail, scan>>

\* A row of scanned, the number of its rows in qa, and whose message it was of.
ScanRow == [ok : BOOLEAN, found : 0 .. MaxFound, qa : 0 .. 2 * MaxFound, of : Box]

Scan == [pc : {"rest", "list", "read", "each", "record", "told"},
         box : Box \union {NoOwner},
         list : Seq(MessageId),         \* as the folder was listed
         already : SUBSET MessageId,    \* as the file was read
         at : Nat,                      \* the next message
         late : BOOLEAN,                \* its time is up
         ok : BOOLEAN, found : 0 .. MaxFound,   \* the answer to record
         left : Nat]                    \* messages left for the next press

ScanTypeOK ==
    /\ fileOf \in [Box -> Box]
    /\ fileOwner \in [Box -> Box \union {NoOwner}]
    /\ DOMAIN scanned = Box
    /\ \A f \in Box : /\ DOMAIN scanned[f] \subseteq MessageId
                      /\ Range(scanned[f]) \subseteq ScanRow
    /\ opened \subseteq Box
    /\ sentMail \in [Box -> Seq(MessageId)]
    /\ scan \in [Presses -> Scan]

NoScan == [pc |-> "rest", box |-> NoOwner, list |-> <<>>, already |-> {}, at |-> 1,
           late |-> FALSE, ok |-> FALSE, found |-> 0, left |-> 0]

File(p) == fileOf[scan[p].box]

-----------------------------------------------------------------------------
(* A press. *)

\* openScanStore: the first to open a file owns it, and nobody else may.
FileIsOwn(b) == fileOwner[fileOf[b]] \in {NoOwner, b}

\* handleScan up to scanSentFolder's store: For, under the mutex.  A refusal is
\* told and changes nothing.
StartScan(p, b) ==
    /\ scan[p].pc = "rest"
    /\ IF b \in opened \/ FileIsOwn(b)
       THEN /\ fileOwner' = [fileOwner EXCEPT ![fileOf[b]] = IF @ = NoOwner THEN b ELSE @]
            /\ opened' = opened \union {b}
            /\ scan' = [scan EXCEPT ![p] = [NoScan EXCEPT !.pc = "list", !.box = b]]
       ELSE UNCHANGED <<fileOwner, opened, scan>>
    /\ UNCHANGED <<fileOf, scanned, sentMail>>

\* ListMessages, page 1 of scanListLimit, oldest first.
ListPage(p) ==
    /\ scan[p].pc = "list"
    /\ LET all == sentMail[scan[p].box] IN
       scan' = [scan EXCEPT
                  ![p].pc = "read",
                  ![p].list = SubSeq(all, 1, IF Len(all) < ScanLimit THEN Len(all)
                                                                     ELSE ScanLimit)]
    /\ UNCHANGED <<fileOf, fileOwner, scanned, opened, sentMail>>

ReadAlready(p) ==
    /\ scan[p].pc = "read"
    /\ scan' = [scan EXCEPT
                  ![p].pc = "each",
                  ![p].already = Range(scan[p].list) \intersect DOMAIN scanned[File(p)]]
    /\ UNCHANGED <<fileOf, fileOwner, scanned, opened, sentMail>>

\* The list, the file or the credentials could not be read, or a row could not
\* be written; the browser going away comes to the same.
Fail(p) ==
    /\ scan[p].pc \in {"list", "read", "each", "record"}
    /\ scan' = [scan EXCEPT ![p] = NoScan]
    /\ UNCHANGED <<fileOf, fileOwner, scanned, opened, sentMail>>

Next1(p) == scan[p].list[scan[p].at]

\* The loop passes over what was there when it looked, and counts what is left
\* once its time is up.  A slip: it stops there.
Stopped(p) == 0
StillToDo(p) == 1

Pass(p) ==
    /\ scan[p].pc = "each" /\ scan[p].at <= Len(scan[p].list)
    /\ \/ /\ Next1(p) \in scan[p].already
          /\ scan' = [scan EXCEPT ![p].at = @ + 1]
       \/ /\ Next1(p) \notin scan[p].already
          /\ scan' = [scan EXCEPT ![p].at = @ + 1, ![p].late = TRUE,
                                  ![p].left = @ + StillToDo(p)]
    /\ UNCHANGED <<fileOf, fileOwner, scanned, opened, sentMail>>

\* scanOne: the message is fetched, which fails if it has gone, and the model
\* is asked, which fails if it will not answer or not in JSON.  Failing is an
\* answer too.
Ask(p, ok, n) ==
    /\ scan[p].pc = "each" /\ scan[p].at <= Len(scan[p].list)
    /\ Next1(p) \notin scan[p].already /\ ~ scan[p].late
    /\ ~ ok => n = 0
    /\ scan' = [scan EXCEPT ![p].pc = "record", ![p].ok = ok, ![p].found = n]
    /\ UNCHANGED <<fileOf, fileOwner, scanned, opened, sentMail>>

\* Record deletes a message's findings before it inserts them, in one
\* transaction.
Replacing(p, before) == scan[p].found

Record(p) ==
    /\ scan[p].pc = "record"
    /\ LET id == Next1(p)
           rows == scanned[File(p)]
           before == IF id \in DOMAIN rows THEN rows[id].qa ELSE 0
           row == [ok |-> scan[p].ok, found |-> scan[p].found,
                   qa |-> Replacing(p, before), of |-> scan[p].box]
       IN scanned' = [scanned EXCEPT
            ![File(p)] = [i \in DOMAIN rows \union {id} |-> IF i = id THEN row ELSE rows[i]]]
    /\ scan' = [scan EXCEPT ![p].pc = "each", ![p].at = @ + 1,
                            ![p].ok = FALSE, ![p].found = 0]
    /\ UNCHANGED <<fileOf, fileOwner, opened, sentMail>>

\* What the writer is told: that so many are still to do, or that nothing is.
Told(p) ==
    /\ scan[p].pc = "each" /\ scan[p].at > Len(scan[p].list)
    /\ scan' = [scan EXCEPT ![p].pc = "told"]
    /\ UNCHANGED <<fileOf, fileOwner, scanned, opened, sentMail>>

Done(p) ==
    /\ scan[p].pc = "told"
    /\ scan' = [scan EXCEPT ![p] = NoScan]
    /\ UNCHANGED <<fileOf, fileOwner, scanned, opened, sentMail>>

-----------------------------------------------------------------------------
(* Meanwhile.  A message deleted is one that cannot be fetched. *)

Send(b, id) ==
    /\ Cardinality({c \in Box \X (1 .. MaxSent) : c[2] \in DOMAIN sentMail[c[1]]}) < MaxSent
    /\ id \notin Range(sentMail[b])
    /\ sentMail' = [sentMail EXCEPT ![b] = Append(@, id)]
    /\ UNCHANGED <<fileOf, fileOwner, scanned, opened, scan>>

\* The handles and the requests of the process are gone, and the files stay.
ScanRestart ==
    /\ opened' = {}
    /\ scan' = [p \in Presses |-> NoScan]
    /\ UNCHANGED <<fileOf, fileOwner, scanned, sentMail>>

-----------------------------------------------------------------------------
\* Either every address has a file of its own, or they all come to one.
ScanInit ==
    /\ \/ fileOf = [b \in Box |-> b]
       \/ \E f \in Box : fileOf = [b \in Box |-> f]
    /\ fileOwner = [f \in Box |-> NoOwner]
    /\ scanned = [f \in Box |-> <<>>]
    /\ opened = {}
    /\ sentMail = [b \in Box |-> <<>>]
    /\ scan = [p \in Presses |-> NoScan]

ScanNext ==
    \/ \E p \in Presses :
          \/ \E b \in Box : StartScan(p, b)
          \/ ListPage(p) \/ ReadAlready(p) \/ Pass(p) \/ Record(p)
          \/ \E ok \in BOOLEAN, n \in 0 .. MaxFound : Ask(p, ok, n)
          \/ Told(p) \/ Fail(p) \/ Done(p)
    \/ \E b \in Box, id \in MessageId : Send(b, id)
    \/ ScanRestart

ScanSpec == ScanInit /\ [][ScanNext]_scanVars

-----------------------------------------------------------------------------
(* Correctness. *)

\* A press that says nothing is left (handlers.go:3244) has an answer on record
\* for every message it listed, its own, an earlier one's or that of a press
\* beside it, whatever failed, was sent or was deleted meanwhile.  It lists the
\* oldest ScanLimit.
NothingLeftIsSo ==
    \A p \in Presses :
       scan[p].pc = "told" /\ scan[p].left = 0
          => Range(scan[p].list) \subseteq DOMAIN scanned[File(p)]

\* A file answers for one mailbox's messages, also where two addresses come to
\* one name (ollamascan_store.go:66).
FileIsOnesOwn ==
    \A f \in Box : \A row \in Range(scanned[f]) : row.of = fileOwner[f]

\* What is shown for a message is what its row counts: none where the model
\* failed, and the last answer's where it was asked twice.
FindingsMatch ==
    \A f \in Box : \A row \in Range(scanned[f]) :
       row.qa = row.found /\ (~ row.ok => row.qa = 0)

\* What a scan leaves on record is one mailbox's, once, and what it said.
ScanTellsTrue == NothingLeftIsSo /\ FileIsOnesOwn /\ FindingsMatch

=============================================================================
