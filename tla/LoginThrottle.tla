--------------------------- MODULE LoginThrottle ----------------------------
(***************************************************************************)
(* The failed-sign-in throttle: loginthrottle.go, called by handleLogin    *)
(* and handleLoginPost of handlers.go, and `mailctl blocks unblock`.       *)
(*                                                                         *)
(* Each sign-in is a goroutine that checks for a block, tries the password *)
(* and records the outcome, one SQL statement at a time.  The statements   *)
(* of concurrent sign-ins interleave: none of this is in a transaction.    *)
(* A statement may fail, and the code then carries on without it.          *)
(***************************************************************************)
EXTENDS Naturals, FiniteSets

CONSTANTS
  Attempts,           \* goroutines serving /login
  IPs, Names,         \* client addresses, and what is typed as a username
  Window,             \* the rolling hour
  IPLimit, IPBlock,   \* ip_failures_per_hour, ip_block_minutes
  NameLimit, NameBlock,
  Keep,               \* how long the sweep leaves a failure, 24 hours
  NoOne,              \* no address, no name
  MaxFaults,          \* how many SQL statements fail (model bound)
  MaxTime, MaxRows    \* the clock and login_failures are bounded (model bounds)

ASSUME RuleAssumption ==
  /\ {Window, IPLimit, IPBlock, NameLimit, NameBlock, Keep, MaxFaults, MaxTime, MaxRows}
       \subseteq Nat
  /\ Window > 0 /\ Keep > Window
  /\ IPLimit > 0 /\ NameLimit > 0 /\ IPBlock > 0 /\ NameBlock > 0
ASSUME NoOneAssumption == NoOne \notin IPs \cup Names

VARIABLES
  now,
  failures,   \* login_failures: rows [id, ip, name, at]
  seq,        \* its AUTOINCREMENT: the last failure_id given
  blocks,     \* login_blocks: address -> until, 0 for no row
  logged,     \* blocked_ip_log: how many rows for an address and an expiry
  pc, ip, name,
  t0,         \* the time recordLoginFailure read
  until,      \* the expiry a refused attempt read, or the one it will write
  mine,       \* the row an attempt is still recording, 0 for none
  todo,       \* addresses blockEveryAddressFor has still to write
  faults,     \* history: how many statements have failed
  promised,   \* history: the latest expiry written for an address
  raced       \* history: addresses whose standing block a late DELETE took

tables   == <<failures, seq, blocks, logged>>
attempts == <<pc, ip, name, t0, until, mine, todo>>
history  == <<faults, promised, raced>>
vars == <<now, tables, attempts, history>>

PC == {"idle", "purge", "deny", "log", "try", "insert", "countIP", "blockIP",
       "countName", "listName", "blockName"}
Times == 0 .. MaxTime
Untils == 0 .. MaxTime + IPBlock + NameBlock
RowIds == Nat \ {0}
Row == [id : RowIds, ip : IPs, name : Names, at : Times]

TypeOK ==
  /\ now \in Times
  /\ failures \in SUBSET Row
  /\ seq \in Nat
  /\ blocks \in [IPs -> Untils]
  /\ logged \in [IPs \X Untils -> Nat]
  /\ pc \in [Attempts -> PC]
  /\ ip \in [Attempts -> IPs \cup {NoOne}]
  /\ name \in [Attempts -> Names \cup {NoOne}]
  /\ t0 \in [Attempts -> Times]
  /\ until \in [Attempts -> Untils]
  /\ mine \in [Attempts -> RowIds \cup {0}]
  /\ todo \in [Attempts -> SUBSET IPs]
  /\ faults \in 0 .. MaxFaults
  /\ promised \in [IPs -> Untils]
  /\ raced \in SUBSET IPs

Init ==
  /\ now = 0
  /\ failures = {}
  /\ seq = 0
  /\ blocks = [i \in IPs |-> 0]
  /\ logged = [k \in IPs \X Untils |-> 0]
  /\ pc = [p \in Attempts |-> "idle"]
  /\ ip = [p \in Attempts |-> NoOne]
  /\ name = [p \in Attempts |-> NoOne]
  /\ t0 = [p \in Attempts |-> 0]
  /\ until = [p \in Attempts |-> 0]
  /\ mine = [p \in Attempts |-> 0]
  /\ todo = [p \in Attempts |-> {}]
  /\ faults = 0
  /\ promised = [i \in IPs |-> 0]
  /\ raced = {}

At(p, l)   == pc[p] = l
Goto(p, l) == pc' = [pc EXCEPT ![p] = l]

\* The attempt is over and its request with it.
Leave(p) ==
  /\ pc' = [pc EXCEPT ![p] = "idle"]
  /\ ip' = [ip EXCEPT ![p] = NoOne]
  /\ name' = [name EXCEPT ![p] = NoOne]
  /\ t0' = [t0 EXCEPT ![p] = 0]
  /\ until' = [until EXCEPT ![p] = 0]
  /\ mine' = [mine EXCEPT ![p] = 0]
  /\ todo' = [todo EXCEPT ![p] = {}]

-----------------------------------------------------------------------------
(* blockedUntil, and denyLogin for a refused address.                      *)

\* The SELECT, with what is decided from its row.
Check(p, i, n) ==
  /\ At(p, "idle")
  /\ ip' = [ip EXCEPT ![p] = i]
  /\ name' = [name EXCEPT ![p] = n]
  /\ \/ blocks[i] = 0 /\ Goto(p, "try") /\ UNCHANGED until
     \/ /\ blocks[i] > now
        /\ until' = [until EXCEPT ![p] = blocks[i]]
        /\ Goto(p, "deny")
     \/ blocks[i] \in 1 .. now /\ Goto(p, "purge") /\ UNCHANGED until
  /\ UNCHANGED <<now, tables, t0, mine, todo, history>>

\* The DELETE of an expired row, by address alone.
Purge(p) ==
  /\ At(p, "purge")
  /\ blocks' = [blocks EXCEPT ![ip[p]] = 0]
  /\ raced' = IF blocks[ip[p]] > now THEN raced \cup {ip[p]} ELSE raced
  /\ Goto(p, "try")
  /\ UNCHANGED <<now, failures, seq, logged, ip, name, t0, until, mine, todo,
                 faults, promised>>

\* noteBlockedAttempt: the COUNT, then the INSERT.
Deny(p) ==
  /\ At(p, "deny")
  /\ \/ logged[<<ip[p], until[p]>>] = 0 /\ Goto(p, "log")
        /\ UNCHANGED <<ip, name, t0, until, mine, todo>>
     \/ logged[<<ip[p], until[p]>>] > 0 /\ Leave(p)
  /\ UNCHANGED <<now, tables, history>>

Log(p) ==
  /\ At(p, "log")
  /\ logged' = [logged EXCEPT ![<<ip[p], until[p]>>] = @ + 1]
  /\ Leave(p)
  /\ UNCHANGED <<now, failures, seq, blocks, history>>

-----------------------------------------------------------------------------
(* The password, and recordLoginFailure or clearLoginFailures.             *)

\* The form alone, or a right password with the code still to come.
NotCounted(p) ==
  /\ At(p, "try")
  /\ Leave(p)
  /\ UNCHANGED <<now, tables, history>>

Succeed(p) ==
  /\ At(p, "try")
  /\ failures' = {f \in failures : f.ip # ip[p]}
  /\ Leave(p)
  /\ UNCHANGED <<now, seq, blocks, logged, history>>

\* Row ids in use; one whose attempt goes on counts when its row is gone.
Used == {f.id : f \in failures} \cup ({mine[p] : p \in Attempts} \ {0})

\* The second conjunct is the bound on rows.
Fail(p) ==
  /\ At(p, "try")
  /\ Cardinality(Used) + Cardinality({q \in Attempts : At(q, "insert")}) < MaxRows
  /\ t0' = [t0 EXCEPT ![p] = now]
  /\ Goto(p, "insert")
  /\ UNCHANGED <<now, tables, ip, name, until, mine, todo, history>>

Insert(p) ==
  /\ At(p, "insert")
  /\ seq' = seq + 1
  /\ failures' = failures \cup
       {[id |-> seq + 1, ip |-> ip[p], name |-> name[p], at |-> t0[p]]}
  /\ mine' = [mine EXCEPT ![p] = seq + 1]
  /\ Goto(p, "countIP")
  /\ UNCHANGED <<now, blocks, logged, ip, name, t0, until, todo, history>>

\* The rolling window of a count.
InWindow(t) == {f \in failures : f.at + Window >= t}

FailuresOf(i, t)  == {f \in InWindow(t) : f.ip = i}
FailuresFor(n, t) == {f \in InWindow(t) : f.name = n}
AddressesIn(rows) == {f.ip : f \in rows}

\* Whether a count fires its rule.  (Mutant: one too late.)
PastLimit(n, limit) == n > limit
AtLimit(n, limit)   == n >= limit

CountIP(p) ==
  /\ At(p, "countIP")
  /\ \/ /\ AtLimit(Cardinality(FailuresOf(ip[p], t0[p])), IPLimit)
        /\ until' = [until EXCEPT ![p] = t0[p] + IPBlock]
        /\ Goto(p, "blockIP")
     \/ /\ ~AtLimit(Cardinality(FailuresOf(ip[p], t0[p])), IPLimit)
        /\ Goto(p, "countName")
        /\ UNCHANGED until
  /\ UNCHANGED <<now, tables, ip, name, t0, mine, todo, history>>

\* What the upsert of blockIP leaves.  (Mutant: it replaces.)
Replaced(i, u) == u
Extended(i, u) == IF u > blocks[i] THEN u ELSE blocks[i]

Write(i, u) ==
  /\ blocks' = [blocks EXCEPT ![i] = Extended(i, u)]
  /\ promised' = [promised EXCEPT ![i] = IF u > @ THEN u ELSE @]
  /\ raced' = IF u >= promised[i] THEN raced \ {i} ELSE raced

BlockIP(p) ==
  /\ At(p, "blockIP")
  /\ Write(ip[p], until[p])
  /\ Goto(p, "countName")
  /\ UNCHANGED <<now, failures, seq, logged, ip, name, t0, until, mine, todo,
                 faults>>

CountName(p) ==
  /\ At(p, "countName")
  /\ LET rows == FailuresFor(name[p], t0[p])
         hit  == AtLimit(Cardinality(rows), NameLimit) /\ Cardinality(AddressesIn(rows)) > 1
     IN  \/ hit /\ Goto(p, "listName") /\ UNCHANGED <<ip, name, t0, until, mine, todo>>
         \/ ~hit /\ Leave(p)
  /\ UNCHANGED <<now, tables, history>>

\* The addresses the username rule refuses.  (Mutant: the last one.)
OnlyThis(p)  == {ip[p]}
Everyone(p)  == AddressesIn(FailuresFor(name[p], t0[p]))

ListName(p) ==
  /\ At(p, "listName")
  /\ todo' = [todo EXCEPT ![p] = Everyone(p)]
  /\ until' = [until EXCEPT ![p] = t0[p] + NameBlock]
  /\ Goto(p, "blockName")
  /\ UNCHANGED <<now, tables, ip, name, t0, mine, history>>

BlockName(p) ==
  /\ At(p, "blockName")
  /\ \/ \E i \in todo[p] :
          /\ Write(i, until[p])
          /\ todo' = [todo EXCEPT ![p] = @ \ {i}]
          /\ UNCHANGED <<pc, ip, name, t0, until, mine>>
     \/ todo[p] = {} /\ Leave(p) /\ UNCHANGED <<blocks, promised, raced>>
  /\ UNCHANGED <<now, failures, seq, logged, faults>>

\* A statement of the attempt fails.  A failed INSERT ends the recording, a
\* failed COUNT or upsert is skipped; for the rest the request goes on, and a
\* block that cannot be read is no block ("Fail OPEN").
Broken(p) ==
  /\ faults < MaxFaults
  /\ faults' = faults + 1
  /\ \/ /\ At(p, "idle")
        /\ \E i \in IPs, n \in Names :
             /\ ip' = [ip EXCEPT ![p] = i]
             /\ name' = [name EXCEPT ![p] = n]
        /\ Goto(p, "try")
        /\ UNCHANGED <<t0, until, mine, todo>>
     \/ /\ pc[p] \in {"purge", "countIP", "blockIP"}
        /\ Goto(p, IF At(p, "purge") THEN "try" ELSE "countName")
        /\ UNCHANGED <<ip, name, t0, until, mine, todo>>
     \/ /\ pc[p] \in {"deny", "log", "try", "insert", "countName", "listName"}
        /\ Leave(p)
     \/ \E i \in todo[p] :
          /\ todo' = [todo EXCEPT ![p] = @ \ {i}]
          /\ UNCHANGED <<pc, ip, name, t0, until, mine>>
  /\ UNCHANGED <<now, tables, promised, raced>>

-----------------------------------------------------------------------------
(* The daily sweep, the operator, the clock.                               *)

SweepFailures ==
  /\ \E f \in failures : f.at + Keep < now
  /\ failures' = {f \in failures : f.at + Keep >= now}
  /\ UNCHANGED <<now, seq, blocks, logged, attempts, history>>

\* mailctl blocks unblock: one transaction.
Unblock(i) ==
  /\ blocks[i] > 0
  /\ blocks' = [blocks EXCEPT ![i] = 0]
  /\ failures' = {f \in failures : f.ip # i}
  /\ logged' = [k \in IPs \X Untils |-> IF k[1] = i THEN 0 ELSE logged[k]]
  /\ promised' = [promised EXCEPT ![i] = 0]
  /\ raced' = raced \ {i}
  /\ UNCHANGED <<now, seq, attempts, faults>>

Tick ==
  /\ now < MaxTime
  /\ now' = now + 1
  /\ UNCHANGED <<tables, attempts, history>>

-----------------------------------------------------------------------------
Attempt(p) ==
  \/ \E i \in IPs, n \in Names : Check(p, i, n)
  \/ Purge(p) \/ Deny(p) \/ Log(p)
  \/ NotCounted(p) \/ Succeed(p) \/ Fail(p)
  \/ Insert(p) \/ CountIP(p) \/ BlockIP(p)
  \/ CountName(p) \/ ListName(p) \/ BlockName(p)
  \/ Broken(p)

Next ==
  \/ \E p \in Attempts : Attempt(p)
  \/ SweepFailures
  \/ \E i \in IPs : Unblock(i)
  \/ Tick

Spec == Init /\ [][Next]_vars

-----------------------------------------------------------------------------
(* Properties.                                                             *)

\* Failures whose recording has finished.
Recorded == {f \in failures : \A p \in Attempts : mine[p] # f.id}

\* What a failure was counted with: the rows no later than its own, in the hour
\* before it, of its address, or of its name.
UpTo(f)     == {g \in failures : g.id <= f.id /\ g.at + Window >= f.at}
FromSame(f) == {g \in UpTo(f) : g.ip = f.ip}
ForSame(f)  == {g \in UpTo(f) : g.name = f.name}

Refused(i) == blocks[i] > now

\* A recorded failure that made as many as the limit allows has its address
\* refused for the length of the block;
AddressRule ==
  \A f \in Recorded :
    (Cardinality(FromSame(f)) >= IPLimit /\ f.at + IPBlock > now)
      => Refused(f.ip) \/ f.ip \in raced

\* one that made as many for a username tried from several addresses, all.
UsernameRule ==
  \A f \in Recorded :
    LET rows == ForSame(f)
    IN  (/\ Cardinality(rows) >= NameLimit /\ Cardinality(AddressesIn(rows)) > 1
         /\ f.at + NameBlock > now)
          => \A i \in AddressesIn(rows) : Refused(i) \/ i \in raced

\* Both rules hold (recordLoginFailure), whether a block is longer or
\* shorter than the window, however the statements of attempts interleaved,
\* unless a statement failed.
LimitsHold == faults = 0 => AddressRule /\ UsernameRule

\* A block, once written, stands until the latest expiry written for it, but
\* for an attempt that found an earlier block expired and deletes the row after
\* a new one has taken its place (blockIP, blockedUntil).
BlockStandsUnlessRaced ==
  \A i \in IPs : promised[i] > now => blocks[i] >= promised[i] \/ i \in raced
=============================================================================
