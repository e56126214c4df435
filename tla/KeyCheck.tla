------------------------------ MODULE KeyCheck ------------------------------
(***************************************************************************)
(* Starting the server on a database, and the key everything in it is      *)
(* sealed under.                                                           *)
(*                                                                         *)
(* The key comes from secret_key and the pepper, and either can be changed *)
(* between two starts.  A database written since schema step 14 holds a    *)
(* probe, sealed once, which every start must be able to open.  One        *)
(* written before holds only what it was used for, and the first start     *)
(* that brings it to step 14 opens a sample of that before it seals the    *)
(* probe (keycheck.go).  mailctl seals too, as another process with a key  *)
(* of its own, from the moment the schema is at the version it knows.      *)
(*                                                                         *)
(* A sealed value is here the key that sealed it: Open with another fails  *)
(* (AES-GCM authenticates).  The values are kept by kind, as the sample is *)
(* taken by kind.                                                          *)
(***************************************************************************)
EXTENDS Naturals

CONSTANTS
    Key,        \* what secret_key and the pepper may come to
    NoKey       \* no value, no key

ASSUME NoKeyAssumption == NoKey \notin Key

VARIABLES
    version,    \* PRAGMA user_version
    sealed,     \* kind of value -> the keys that values in the database need
    probe,      \* key_check
    server,     \* the server process
    tool,       \* a mailctl command that seals or opens
    owner,      \* history: the key of the first value of a sampled kind, or
                \* of the probe
    blind       \* history: mailctl sealed with nothing to test its key on

keyVars == <<version, sealed, probe, server, tool, owner, blind>>

\* mail_accounts.imap_password and smtp_password, app_users.totp_secret, and
\* mail_accounts.totp_secret of a mailbox that signs in on its own.
Kinds == {"imap", "smtp", "factor", "boxFactor"}

\* existingCiphertext's three queries, and openSealer's two.
Sampled == {"imap", "smtp", "factor"}
CtlSampled == {"imap", "factor"}

Versions == {0, 10, 11, 12, 13, 14}
Latest == 14

ServerStep == {"off", "migrate", "check", "seed", "insert", "serving", "refused"}
Server == [pc : ServerStep, key : Key \union {NoKey}]

Command == [pc : {"off", "opened", "ready"}, key : Key \union {NoKey},
            blind : BOOLEAN]

KeyTypeOK ==
    /\ version \in Versions
    /\ sealed \in [Kinds -> SUBSET Key]
    /\ probe \in Key \union {NoKey}
    /\ server \in Server
    /\ tool \in Command
    /\ owner \in Key \union {NoKey}
    /\ blind \in BOOLEAN

Off == [pc |-> "off", key |-> NoKey]
CtlOff == [pc |-> "off", key |-> NoKey, blind |-> FALSE]
Nothing == [kind \in Kinds |-> {}]

Holds(kinds) == {kind \in kinds : sealed[kind] # {}}

\* The key a sample of these kinds needs, NoKey when there is none: the first
\* kind that has a value, which of its values is the table's affair.
SampleOf(kinds) ==
    IF Holds(kinds) = {} THEN {NoKey}
    ELSE UNION {sealed[kind] : kind \in Holds(kinds)}

-----------------------------------------------------------------------------
(* Starting: OpenDB, migrate, NewSealer, verifyEncryptionKey. *)

\* run: the file and the pepper are read, the database is opened.
Start(k) ==
    /\ server.pc \in {"off", "refused"}
    /\ server' = [pc |-> "migrate", key |-> k]
    /\ UNCHANGED <<version, sealed, probe, tool, owner, blind>>

Steps == {11, 12, 13, 14}
Due == {v \in Steps : v > version}
NextStep == CHOOSE v \in Due : \A w \in Due : v <= w

\* One step and its stamp, in one transaction.  Step 11 drops every table that
\* held anything before it; the later ones only add.
Migrate ==
    /\ server.pc = "migrate" /\ Due # {}
    /\ version' = NextStep
    /\ sealed' = IF NextStep = 11 THEN Nothing ELSE sealed
    /\ owner' = IF NextStep = 11 THEN NoKey ELSE owner
    /\ UNCHANGED <<probe, server, tool, blind>>

Migrated ==
    /\ server.pc = "migrate" /\ Due = {}
    /\ server' = [server EXCEPT !.pc = "check"]
    /\ UNCHANGED <<version, sealed, probe, tool, owner, blind>>

Refused == [server EXCEPT !.pc = "refused"]

\* Whether the probe opens.  A slip: that there is one is enough.
ProbeThere(k) == TRUE
OpensProbe(k) == probe = k

\* verifyEncryptionKey, the SELECT.
CheckProbe ==
    /\ server.pc = "check"
    /\ server' = IF probe = NoKey THEN [server EXCEPT !.pc = "seed"]
                 ELSE IF OpensProbe(server.key) THEN [server EXCEPT !.pc = "serving"]
                 ELSE Refused
    /\ UNCHANGED <<version, sealed, probe, tool, owner, blind>>

\* What seedKeyCheck does about a sample.
SampleOpens(sample, k) == sample \in {NoKey, k}

\* seedKeyCheck as far as the sample; its three queries are one step, as only
\* mailctl could write between them and what it writes is found by one or by
\* none of them either way.
Sample ==
    /\ server.pc = "seed"
    /\ \E s \in SampleOf(Sampled) :
          server' = IF SampleOpens(s, server.key)
                    THEN [server EXCEPT !.pc = "insert"] ELSE Refused
    /\ UNCHANGED <<version, sealed, probe, tool, owner, blind>>

\* INSERT ... ON CONFLICT DO NOTHING, and the rest of run.
Seed ==
    /\ server.pc = "insert"
    /\ probe' = IF probe = NoKey THEN server.key ELSE probe
    /\ owner' = IF owner = NoKey THEN server.key ELSE owner
    /\ server' = [server EXCEPT !.pc = "serving"]
    /\ UNCHANGED <<version, sealed, tool, blind>>

\* Any step may fail, and the process may be stopped or killed.
Stop ==
    /\ server.pc # "off"
    /\ server' = Off
    /\ UNCHANGED <<version, sealed, probe, tool, owner, blind>>

-----------------------------------------------------------------------------
(* Sealing and discarding. *)

With(kind, k) == [sealed EXCEPT ![kind] = @ \union {k}]

\* Attaching a mailbox, or turning a second factor on.
Store(kind) ==
    /\ server.pc = "serving"
    /\ sealed' = With(kind, server.key)
    /\ UNCHANGED <<version, probe, server, tool, owner, blind>>

\* The rows that need one key are deleted or written over.
Discard(kind, k) ==
    /\ server.pc = "serving" /\ k \in sealed[kind]
    /\ sealed' = [sealed EXCEPT ![kind] = @ \ {k}]
    /\ UNCHANGED <<version, probe, server, tool, owner, blind>>

\* mailctl's openDB: it works on the schema it was built for and no other.
CtlOpen(k) ==
    /\ tool.pc = "off" /\ version = Latest
    /\ tool' = [pc |-> "opened", key |-> k, blind |-> FALSE]
    /\ UNCHANGED <<version, sealed, probe, server, owner, blind>>

\* What openSealer may be given to open: the probe, failing that one of the
\* two kinds it knows, and NoKey where a read fails, as its errors are dropped.
CtlSample == (IF probe # NoKey THEN {probe} ELSE SampleOf(CtlSampled))
             \union {NoKey}

\* openSealer: given nothing, SelfTest tries the key against itself.
CtlOpenSealer ==
    /\ tool.pc = "opened"
    /\ \E s \in CtlSample :
          tool' = IF s \in {NoKey, tool.key}
                 THEN [tool EXCEPT !.pc = "ready", !.blind = (s = NoKey)]
                 ELSE CtlOff
    /\ UNCHANGED <<version, sealed, probe, server, owner, blind>>

\* totpEnable: the one thing mailctl seals.
CtlSeal ==
    /\ tool.pc = "ready"
    /\ sealed' = With("factor", tool.key)
    /\ owner' = IF owner = NoKey THEN tool.key ELSE owner
    /\ blind' = (blind \/ tool.blind)
    /\ tool' = CtlOff
    /\ UNCHANGED <<version, probe, server>>

CtlQuit ==
    /\ tool.pc # "off"
    /\ tool' = CtlOff
    /\ UNCHANGED <<version, sealed, probe, server, owner, blind>>

-----------------------------------------------------------------------------
\* A database of any age.  Before step 14 there is no probe, and what the
\* server of the time sealed it sealed under one key.
KeyInit ==
    /\ version \in Versions \ {14}
    /\ probe = NoKey
    /\ \E k \in Key, kinds \in SUBSET Kinds :
          /\ version = 0 => kinds = {}
          /\ sealed = [kind \in Kinds |-> IF kind \in kinds THEN {k} ELSE {}]
          /\ owner = IF kinds \cap Sampled = {} THEN NoKey ELSE k
    /\ server = Off
    /\ tool = CtlOff
    /\ blind = FALSE

KeyNext ==
    \/ \E k \in Key : Start(k)
    \/ Migrate \/ Migrated \/ CheckProbe \/ Sample \/ Seed \/ Stop
    \/ \E kind \in Kinds : Store(kind) \/ \E k \in Key : Discard(kind, k)
    \/ \E k \in Key : CtlOpen(k)
    \/ CtlOpenSealer \/ CtlSeal \/ CtlQuit

KeySpec == KeyInit /\ [][KeyNext]_keyVars

-----------------------------------------------------------------------------
(* Properties. *)

Readable(kinds) == \A kind \in kinds : sealed[kind] \subseteq {server.key}

\* A server that answers can open every stored mail password and every account's
\* second factor, whatever was changed between starts and however far an
\* earlier start got (keycheck.go:60): unless mailctl sealed something with no
\* sample to show it that its key was another one.
ServingReads == server.pc = "serving" => Readable(Sampled) \/ blind

\* keyMismatch: "put the original back and start again; nothing has been
\* altered."  A start with the key the database was first sealed under is never
\* the one refused: no start with another key, stopped wherever it was, has
\* left its mark.
OriginalStarts == server.pc = "refused" => server.key # owner \/ blind

\* Both: the key is the data's, and the data's key is let in.  A mailbox's own
\* second factor is not among what is sampled (keycheck.go:112), so that a
\* database with nothing else sealed is taken on trust, and is left out of both.
KeyServesItsData == ServingReads /\ OriginalStarts

=============================================================================
