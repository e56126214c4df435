# Starry Go Mail, specified

Starry Go Mail is a webmail server written in Go: one process with an SQLite
database, which serves HTML to browsers and speaks IMAP and SMTP to the mail
servers its mailboxes live on. Its source is under `src/src/`; paths below leave
that prefix out. These modules model the parts of it where order matters:
goroutines that share a connection, a session, a table or a position, with mail
servers and databases that fail in between.

- [The system](#the-system): its parts, their state, what is hard about them
- [Modules](#modules): which module models what, and how it corresponds to the code
- [Runs](#runs): what TLC checks, within which bounds, under which fairness
- [Proofs](#proofs): what is proved for every value of the constants
- [What the code does that its comments do not say](#what-the-code-does-that-its-comments-do-not-say)
- [What is not modelled](#what-is-not-modelled)
- [Plan](#plan)

## The system

Two kinds of people sign in. An *application account* (`auth.go`, `store.go`)
holds mailboxes whose passwords are sealed in the database. A *direct* sign-in
(`direct.go`) is with a mailbox's own address and mail password; the password is
kept in memory and ends with the session. "Who owns this address" must have one
answer, and decides which of the two doors is open for it.

| Part | State | Operations | Talks to |
| --- | --- | --- | --- |
| IMAP connection pool (`mail.go`) | a map from account to connection behind `Pool.mu`; per connection a mutex, the client, when it was last used | `withConn` (find, lock, NOOP, dial, provision, use), `Drop`, the reaper | every handler that reads mail; the mailbox form, sign-out and the sweeper call `Drop` |
| Mailbox sessions (`direct.go`, `auth.go`) | session store, passwords in memory, cookies, expiry | sign-in, `requireAuth`, `credentialsFor`, sign-out, sweeper | pool, view state, mailbox rows |
| Sign-in throttle (`loginthrottle.go`) | `login_failures`, `login_blocks`, `blocked_ip_log` | check, record a failure, clear, block, sweep; `mailctl blocks unblock` | both sign-in handlers |
| Accounts and mailboxes (`store.go`, `mailboxes.go`) | `app_users`, `mail_accounts` | attach (create or claim), edit, detach, remove an account; the row a direct sign-in makes | pool, preferences, direct sessions |
| Second factor (`totp.go`, `mailboxes_totp.go`) | a secret per account and per self-owned mailbox | enrol, remove, ask | sign-in; lost when a mailbox is claimed |
| Settings caches (`settings.go`, `settings_mailbox.go`) | a table and an in-memory copy of all of it | `Set`, `Forget`, `Load`, read | detaching a mailbox forgets its preferences |
| View state (`viewstate.go`, `handlers.go`) | per sign-in: folder, page, sort, query, ticks, open message | every list, reader and action request | IMAP operations |
| IMAP operations (`mail.go`) | folders on the mail server, shared with other clients | list, fetch, flag, move (MOVE, or COPY + STORE + EXPUNGE), append | the pool |
| Drafts and sending (`handlers.go`, `smtp.go`) | a draft on the server, named by UID or Message-ID | save, autosave, send, file in Sent, delete the draft | pool, SMTP, composer stores, contacts |
| Composer pictures and attachments (`imagestore.go`, `attachstore.go`) | bounded in-memory stores | add, take, evict, reap | sending |
| Contacts (`contacts.go`) | contacts per mailbox, keys, what was scraped | learn from Sent, edit, remove, restore, set a key | background scans |
| Sent-mail scan (`ollamascan*.go`) | a database per mailbox, batches, a claim | start, batch, record, resume | mail, an external model |
| Deployment key check (`keycheck.go`) | a sealed check value | verify or seed at start-up | everything sealed |
| Application sessions (`auth.go`, `superuser.go`) | signed tokens, nothing on the server | issue, verify, expire | accounts |
| Administration (`admin.go`, `superuseradmin.go`, `cmd/mailctl`) | the tables above | create, change, remove, from the server and from another process | everything |
| Assistants (`assistant.go`, `claude.go`, `ollama.go`) | switches and approved models in the settings, a mailbox's choice | withdraw, choose, ask, retry | settings, an external model |
| OpenPGP (`pgp.go`, `pgpmail.go`, `app.js`) | a key pair per mailbox, its private half here or in the browser | make, keep, move, clear, collect keys, encrypt | preferences, contacts, sending |
| Folder management (`mail.go`, `handlers.go`) | the server's folders and subscriptions; the folder a pooled connection has selected | create, rename, delete, subscribe, hide, SELECT or skip it | the pool, other mail programs |
| Delivery of responses (`compress.go`, `main.go`, `views.go`) | what a response has written; a cache outside | compress or pass on, tag, answer 304 | every response |

The rest (configuration, client address and origin checks, sanitising, templates,
build tools) keeps no state that two actors share; `PROJECT.json` lists each with
the reason it is or is not modelled.

### What is hard

`PROJECT.json` lists the hazards at their lines, the ones of a kind together. They
come in seven kinds.

1. *Two locks in two orders.* A request holds a connection's mutex and takes
   `Pool.mu` (`ensureStandardFolders`); the reaper holds `Pool.mu` and wants the
   connection's. An entry leaves the map between the moment it was found and
   the moment it was locked.
2. *Ending something others are using.* A session is removed, then its view
   forgotten, its connection dropped and its password wiped, while requests that
   passed `requireAuth` before go on with copies of what they need.
3. *Read, then write, in separate statements.* There is one database connection
   (`db.go`) and each statement is atomic, but most handlers issue several:
   attach, claim, enrol, block, forget, load.
4. *Commands on a mail server that fail half-way*, and other clients of the same
   mailbox between any two of them.
5. *Positions.* A UID means something only in its folder; two tabs of one
   sign-in share one position and each records its outcome late. A connection
   remembers which folder it has selected, while folders are renamed.
6. *Names that outlive what they name.* Cookies carry an account's number and a
   view id, and nothing lists the ones issued; `mailctl` asks a question between
   reading a row and writing it.
7. *Stops between two starts.* A migration, a key check and a scan are each done in
   several steps, and the next process goes on from wherever they stopped.

### What makes it correct

- *Pool*: one goroutine per connection; no request's client is closed under it; no
  mailbox's request on another's connection; every connection closed in the end;
  after credentials change, old ones are not used; every call returns.
- *Sessions*: a password is in memory only as long as its session; what is derived
  from a session (socket, view) goes with it; every expired one is erased.
- *Throttle*: whoever completes as many recorded failures as a rule allows is refused for
  the length of the block, whatever the interleaving and whether a block is longer or
  shorter than the window; a block stands for the longest time it was given.
- *Mailboxes*: one owner per address, changed only by the steps that may; one door
  per address; no second factor of its own on an owned mailbox; a secret in
  somebody's phone goes on working; one default mailbox per account.
- *Preferences*: an address's new holder inherits nothing of the old one's; nobody
  else's request changes mine; the cache agrees with the table at rest.
- *Drafts*: what Drafts has held is still there, or went out, or was taken off;
  copies of one message do not pile up.
- *Reading*: no message is lost by a move, however it fails; only what was asked
  for leaves a folder; what is open or ticked goes on naming the same message.
- *Accounts*: whoever is switched off, removed or no longer named is out at the next
  request; a number never comes to mean another account; a password or a second
  factor gives way only to whoever proved or was shown the old state.
- *Assistants*: what was withdrawn is not asked again; a question a model can answer
  is answered.
- *Key check*: a server that answers can open everything; the right key always starts.
- *Contacts*: what the owner did stands against the background walk; a harvested key
  was announced by its own address, or in a message that names no sender.
- *OpenPGP*: no private half is lost unasked, as long as its public half is on file; an
  encrypted message can be read by all it went to.
- *Sent-mail scan*: each message has one answer, in its own mailbox's file, and what is
  reported left is so.
- *Pictures*: the cap costs originals first; a message goes out whole.
- *Folders*: a command runs on the folder it names; what was made here is shown.
- *Delivery*: what arrives is what was written, packed as the headers say.

## Modules

| Module | Models | Extends or composes |
| --- | --- | --- |
| `ConnPool` | connection pool, the mailbox form's row writes and `Drop`, the reaper | |
| `DirectSessions` | mailbox sessions with the connection and view each opened | uses the pool as `ConnPool` promises it |
| `LoginThrottle` | throttle | |
| `Ownership` | abstract: who has an address, and which steps may change that | |
| `Mailboxes` | `mail_accounts` and its writers | implements `Ownership` |
| `Preferences` | `mailbox_settings`, its cache, and addresses changing hands | `INSTANCE Ownership` for the hands |
| `Reading` | view state, message actions, the folders, another client | |
| `Drafts` | composers, attached files, the copies in Drafts, delivery | |
| `Accounts` | application accounts, cookies, the superuser, `mailctl` | |
| `Assistants` | the assistants' settings, a mailbox's choice, who is asked | |
| `KeyCheck` | start-up on a database: migrations, probe, sample, another process | |
| `Contacts` | the address book, the background walk, its owner | |
| `OpenPGP` | a key pair and its windows; collecting keys and sealing | |
| `SentScan` | presses of Scan, their file, mail coming and going | |
| `Pictures` | the composer's picture store and the messages that use it | |
| `Folders` | folders, subscriptions, the selection of a pooled connection | |
| `ClaudeChat` | one question, with its retries | |
| `Delivery` | one response, its compression, and a cache | |
| `ConnPoolProofs`, `DirectSessionsProofs`, `MailboxesProofs`, `PreferencesProofs`, `ReadingProofs` | theorems about the module they name | it, theorem modules, `TLAPS` |
| `AccountsProofs`, `ThrottleDraftsProofs`, `PartsProofs` | theorems about `Accounts` and `Assistants`; `LoginThrottle` and `Drafts`; the eight from `KeyCheck` on | the same |
| `MC...` | model values, symmetry, views and bounds of each for TLC | `MCAccounts` has `Assistants` too; `MCReading` has `Contacts` too; `MCParts` the other seven from `KeyCheck` on |

`map` in `PROJECT.json` gives, for every definition, the lines it models. In all
modules an action is one *atomic step of the code*: a critical section, one SQL
statement or transaction, one IMAP command, or what a handler does in memory
between two of those. Variables named *history* are read by properties only. A
definition whose comment calls it a slip or a mutant is a plausible mistake in the
one after it; no specification uses it (see [Runs](#runs)).

### ConnPool

A request is `Begin` (reads the row), then the run of `withConn`: `Entry`, `Lock`,
`Check` (NOOP), `Dial`, the three steps of `ensureStandardFolders`, `fn`, `EndUse`;
then `Again`, since handlers call `withConn` several times with the credentials
they read once, or `Finish`. An editor is `WriteRow`, then `Drop` as `Take`,
`DropLock`, `DropClose`. The reaper is `Wake`, `Skip` or `LockIdle` for each
account in the map, `Reap`, `Sleep`.

| Code | Model |
| --- | --- |
| `Pool.mu`, `Pool.conns`, `Pool.provisioned` | `poolMu`, `conns`, `provisioned` |
| `pooledConn.mu`, `.client`, `.lastUsed` | `connMu`, `client` (nil, open, dead, closed here), `idle` |
| a mailbox's row, as the password a dial uses | `stored` and `cred`: generations |
| local variables of a goroutine | `pc`, `acct`, `ent`, `cred` |

`Pool.mu` is held across steps only by the reaper; every other critical section
under it touches memory and is one step that needs it free. `closed` is a client
the reaper closed without setting it to nil: a request that had fetched the entry
finds it and must notice. What IMAP commands do is not here, only that they take
place under the lock and may lose the connection.

### DirectSessions

`Start`, `Issue` or `Refuse` are `handleDirectLoginPost`; `Get`, `Navigate`, `Copy`,
`Connect`, `Release`, `Done` a request; `Logout`, `Sweep` and `SweepNext` take
sessions out of the store; `Drop`, `Dropped`, `WipePassword`, `Forget` are
`endDirectSession`, one step per call it makes. `Get` on an expired session ends it
its own way. `socket[a]` is the session that opened the pooled connection of
mailbox `a`; that there is at most one is what `ConnPool` shows. A `Restart` forgets
everything but the cookies.

### LoginThrottle

One action per SQL statement: `Check`, `Purge`, `Deny`, `Log`, `Insert`, `CountIP`,
`BlockIP`, `CountName`, `ListName`, `BlockName`. `Broken` is any of them failing, with
the code's way of going on without it. Time is a counter; `t0` is the time a
recording read, which the statements after it use. A username and an address are
model values; what `normalizeLogin` does to them happened before. A row of `failures`
has its `failure_id`, which `seq` gives out (`AUTOINCREMENT`), and the rules are stated of
each row, with the rows that were there for its attempt to count (`UpTo`): what an earlier
block was for may have run out while its rows are still in the window, since the
configuration takes a block of any positive length.

### Ownership, Mailboxes

`Ownership` is the promise: an address is nobody's, its own, or one account's, and
changes hands by a direct sign-in, a take from nobody or itself, a release, a rename
and the removal of an account. `Mailboxes` is the table: `rows`, with owner, whether
a password is stored, `is_default` and the second factor's secret. An account
holder's request is `Prove`, `Find`, then `Claim` or `Create`; `Edit`, `Detach` and
`RemoveAccount` are one transaction each. A direct sign-in is `CheckAttached`, `LookUp`,
`Insert`, `Dial`, `Factor`; its session may change its second factor with `StartEnable`
or `StartDisable`, `ReadOwner`, `WriteSecret`. The refinement maps an address to the
owner of its row (`OwnerOf`), and `OwnershipKept` says every behaviour of the table is
one of `Ownership`: there is no step of `Ownership` by which an account takes from an
account.

### Preferences

Uses `Ownership`'s steps for who has an address, and adds `mailbox_settings` (what an
address has stored is modelled by *who* stored it) and the in-memory copy. A write
is `Open`, `Set`, `Select`, `Publish`: the last two are `Load`, whose result another
`Load` may overtake. Detaching is `Confirm`, `Detach`, `Forget`, and the same `Load`.

### Reading

`view` is `viewState`, reduced to folder, open message and ticks; page, sort and query
are there by what changing them resets. `box` maps a folder's UIDs to messages,
`next` is its UIDNEXT: a UID is never used again. `cap` is what the server offers:
MOVE, UIDPLUS or neither. A message action is `Press` (settles the UIDs and the
successor), one of `DeleteInTrash`, `Move`, or `Copy`, `Mark`, `Expunge` (setting other flags
changes nothing the model keeps), and then
`Settle`, which records the outcome and redraws. `LineFree` is the pool's lock: a
move's three commands exclude other requests of the sign-in, not `Others`, another
mail client. `Fail` is a command that was refused or lost, before or after it took
effect.

### Drafts

One message. What it says is a set of parts: each edit ever made is one, and part 0
is an attached file, which a composer has only as an id in `store`
(`AttachStore.items`) until a request resolves it. `drafts` maps the UIDs in the
Drafts folder to what each copy holds; `page` is each composer the message is open
in, `job` the requests posted from them, with the form as it was when posted.

| Code | Model |
| --- | --- |
| typing; the file input and its three answers; a file taken off | `Type`; `Attach`, `AttachRefused`, `AttachTooLarge`; `RemoveFile` |
| autosave on a followed link; on `pagehide`; the buttons | `FollowLink`, `PageHide`, `Press` |
| Close, or a swap of the reading pane | `LeavePage` |
| `handleDraftSave` | `Append`, `Find` (without UIDPLUS), `Supersede` |
| `draftSaveReply` and what the script does with it | `Answers` |
| `handleSend` | `RefuseShort`, or `Deliver`, then `Conclude` |
| `resumeDraft`, `restoreAttachments` | `Resume` |
| `reap`, `evictLocked`; a restart | `AgeOut`; `Restart` |
| an error, a lost answer, a lost reply | the actions `...Fails` |

Where a module's proofs share a module with another's, what both define carries the
component's name (`DraftsSpec`, `BookTypeOK`).

UIDs and file ids are never given twice, so all those whose copy or file is gone are
one value (`Gone`, `Lost`); `Become` renames them as a step makes them so. This
lets a short range stand for names without end. `owed` is what some copy in Drafts
has held and nobody has sent, taken off or, for the file, seen age out.

### Accounts, Assistants

`users` is `app_users` by number. A browser has a cookie (of an account, or of the
superuser) and one request: `req[b]` holds what the door read, the page's handler
goes on with that, and every statement after it is a step of its own. `birth` is a history
of which account a number was for. `mailctl`
(`ctl`) reads the row, asks, and writes. `Restart` starts the server with another
file, whose superuser and address list the doors compare with from then on; with
another `secret_key` no cookie is worth anything (`kept`).

| Code | Model |
| --- | --- |
| `handleLoginPost`, `authenticateWithTOTP` | `SignIn`, then `Issue` |
| the superuser's sign-in; signing out | `SuperSignIn`; `SignOut` |
| `requireAuth`, `ReadAppUser` | `Open`, or `TurnAway`; `Answer` ends the request |
| `handleChangePassword` | `Prove`, `ChangePassword` |
| `handleSettingsTOTP` | `TotpEnable`, `TotpDisable`, on what `Open` read |
| the superuser's screens | `Target` (who is asking, about whom), then `SetActive`, `ResetPassword`, `ClearTOTP`, `RemoveUser`, `AddUser` |
| `mailctl user ...`, `mailctl totp ...` | `CtlLoad`, then `CtlPasswd`, `CtlActive`, `CtlRemove`, `CtlTotpEnable`, `CtlTotpDisable`, or `CtlAdd` |

In `Assistants` a save is `BeginSave`, then `Write`, `SelectRows`, `PublishRows` for each
setting: the last two are `SettingsStore.Load`. `AssistantFor` and `AssistantNamed` are
who would be asked, read from the copy.

### KeyCheck, Contacts, OpenPGP

A sealed value is the key that sealed it. `Start`, `Migrate`, `Migrated`, `CheckProbe`,
`Sample`, `Seed` are a start, `Stop` ends it anywhere. `sealed` keeps the keys by kind of
value, because `existingCiphertext` samples by kind. `Ctl...` is `mailctl`.

A walk of `Contacts` is `Visit`, `ListSent`, `ReadSent`, `Learn`, `ReadHeaders`, `HarvestKey` for
each, `WalkEnds`; between any two come the owner's `SaveContact`, `RemoveContact`,
`RestoreContact`, `SaveKey`, and mail. `book` has a row for a removed contact too:
that is what keeps it removed. A header in the inbox is from somebody or from `NoSender`
(an envelope without a From), and `Announces` says which of them are heeded.

In `OpenPGP` a pair is a number, its two halves are `own.public` and `own.private`
(the mailbox's preferences) and `kept` (the browser's storage). `Generate` and
`SavePGP` list the rows they will write, `WriteRow` writes them one at a time, `Reply`
hands the private half over. `letGo` has the private halves given up, with `bare` those
that stood in the browser while the mailbox had no public half. A message is `Compose`, `CheckEnabled`, `LookUp` for
each address in turn, `LookedUp`, `AddOwn`, `Deliver`, while `ContactChanges`.

### SentScan, Pictures, Folders

A press is `StartScan`, `ListPage`, `ReadAlready`, then `Pass`, `Ask` and `Record` for each
message, `Told`. `fileOf` may send two addresses to one file name, as the name keeps
only letters and digits.

`Pictures.items` is `ImageStore.items`, with weights instead of bytes; `recent` is the
order of last use. `StartScaling` and `Scaled` are the two halves of `Variant` around the
time it gives the lock up. `Inline`, then `Delivered` or `Undelivered`, is a send.

`Folders.conn` is what the pooled connection remembers (`at`, `examined`) and what the
server has open on it (`open`): `Reuse` runs a command without a SELECT, `Select` with
one. `AskChange` lists the folders and finds the change allowed, `Rename` or
`Delete` does it later, by name.

### ClaudeChat, Delivery

`Answer`, `Declines`, `Unreached` are the outcomes of a request; `Lacking` is what the
next one has. `Delivery` counts a body in units: `Announce` is `WriteHeader`, `WriteSome`
is `Write`, `Finish` is `Close`, and `Keep` is a cache on the way that puts a static file
by and asks again with its tag.

## Runs

Bounds are as small as lets each property's interesting case happen, which its
mutant shows: for each property of a passing run `PROJECT.json` names a definition
and a plausible slip in it (the operator just before it in the module), and with
the slip TLC finds the property violated under the very same bounds.

| Run | Bounds | Shows |
| --- | --- | --- |
| `pool_safety` | 1 mailbox, 2 requests, 1 editor, 2 entries, 1 rewrite | `ExclusiveUse`, `NeverCutShort`, `OrphansAreLate`, `StaleOnlyByOverlap` |
| `pool_live` | 1 mailbox, 1 request, 1 editor, 2 entries; fairness | `CallsReturn`, `IdleIsClosed` |
| `sessions` | 2 sessions of 1 mailbox, 2 requests; fairness | `PasswordOnlyInStore`, `SocketOnlyByOverlap`, `ForgottenUnlessBusy`, `ErasedInTheEnd` |
| `throttle` | 2 attempts at once, 2 addresses, 1 name, limits of 2, window 1, blocks of 1 and 3, time to 3, 2 rows, 1 fault | `LimitsHold`, `BlockStandsUnlessRaced` |
| `mailboxes` | 2 addresses, 2 accounts, 2 requests, 2 direct sign-ins, 2 rows ever, 2 requests in flight | `OwnershipKept` (refinement), `OneDoorUnlessOvertaken`, `NoFactorOnOwned`, `WorkingSecretStays`, `DefaultKept` |
| `mailboxes_default` | 2 addresses, 1 account, 1 request, 1 sign-in | *violated*: `HasDefault` |
| `preferences` | 2 addresses, 2 accounts, 2 requests | `NothingInherited`, `CacheCurrent`, `OwnPrefsStand` |
| `reading` | 2 folders, 2 messages, 2 tabs, 2 UIDs a folder, 1 tick, 1 mishap, 2 requests or mishaps at once; or 2 correspondents, 2 keys, 2 headers in the inbox | `NothingLost`, `OpenIsThere`, `OthersStand`, `KeepsItsMeaning`, `BookIsOwners` |
| `drafts` | 2 composers, 3 saves or sends, 1 edit, 2 files and 3 copies at once, 2 troubles | `NothingUnsaid`, `NothingStacksUp` |
| `accounts` | 2 browsers, 1 username, 2 passwords, 2 accounts ever, 2 secrets ever, 2 files; or 2 superuser windows, 1 model | `NumbersNotReused`, `ProvedIsReplaced`, `Admitted`, `FactorStands`, `AskedWithLeave` |
| `accounts_change` | the same | *violated*: `PasswordAloneProves` |
| `parts` | below | `KeyServesItsData`, `KeysServe`, `ScanTellsTrue`, `PicturesStand`, `RightFolder`, `MadeIsShown`, `AnswersWhole`, `ArrivesWhole` |

`accounts`, `reading` and `parts` hold components that share no state. Which of them moves is
chosen in the initial state, so that one run adds their state spaces up instead of
multiplying them, and each behaviour is one of that component alone. The bounds in
`parts`:

- `KeyCheck`: 2 keys, any number of starts. The versions are those around step 14.
- `OpenPGP`: 2 pairs, 1 settings request at a time, 2 correspondents.
- `SentScan`: 2 mailboxes, 2 Message-IDs, 2 presses, 2 messages, pages of 2.
- `Pictures`: 2 pictures, 2 windows, originals of weight 2 under a cap of 3: one
  original and a copy fit, two originals do not.
- `Folders`: INBOX, a folder with a child, a protected one; 3 mailboxes at once; 1
  window beside another program.
- `Delivery`: bodies of 3 units, compressed from 2; 2 builds.

*Bounds.* Two of each actor is what a race needs, and the code treats actors alike
(`SYMMETRY` is declared over them; never in a run with fairness). `MaxGen`,
`MaxId`, `MaxTime`, `MaxRows`, `MaxUid`, `MaxEdit`, `MaxFile`, `MaxFaults`,
`MaxMishaps`, `MaxTrouble`, `MaxAtOnce`, `MaxSecret`, `MaxMail`, `MaxPair`, `MaxSent`,
`MaxFound`, `MaxMbox`, `MaxBody`, `MaxBuild` cap what counts up or goes wrong; each is
in a guard (two are a `CONSTRAINT`: `AtMostBusy`, how many requests of `mailboxes`
are between two of their steps, and `AtMostOneDoor`, how many direct sessions
`preferences` has at once). A trouble of `Drafts` is a failure, or a request
posted while another is under way; each of its requests is made once.
`LoginThrottle`'s limits of 2 stand for the configured ones: the rules compare a
count with a limit and nothing else. Of its blocks one is no longer than the window and one
is longer. `VIEW`s leave out fields that nothing reads
again, or the parts that do not move, and say which. Where a theorem states a run's property it holds for any number
of everything, and the run is the cross-check.

*Types.* Each module has a type invariant. All are proved but that of `Pictures`, of which
the proof needs and has a part (`PictureTypes`); its whole holds in the run's bounds when
added to the configuration.

*Deadlock* is checked in every run but `drafts` and `parts`. In `Drafts` the requests are
used up and the writer may close the last composer; in `parts` a component whose bound
is used up (a picture's id is made once) may have nothing left to do.

*Fairness* is assumed in `pool_live` and `sessions` only.

- A goroutine that can run does: weak fairness on each step that waits for nothing
  but a server that answers. Which servers may fall silent is `Hung`; for the
  others an answer, or an error, comes.
- A step that takes a mutex gets strong fairness: `sync.Mutex` in starvation mode
  hands the lock to whoever has waited for a millisecond.
- The reaper's and the sweeper's tickers tick, and time passes for an idle
  connection.
- Nothing is assumed of people: no request need ever be made, no browser need
  sign out, no handler need call `withConn` again.
- A mail server hangs up on a connection nobody speaks on (`HangUp` of an orphan);
  it matters only for reusing the orphan's place in the model.

## Proofs

TLAPS checks each theorem for every value of the constants satisfying the modules'
named assumptions. These say that a value standing for *nothing* is none of the values it
stands beside (`NoneAssumption`, `NobodyAssumption`, `NoKeyAssumption`, ...), that bounds
are numbers, that the sets of goroutines are disjoint, and that `Hung` names mailboxes.
Of the throttle they say what `config.go` does, that limits and blocks are positive, and
that failures are kept longer than the window they are counted in (`RuleAssumption`).
Three say more: INBOX is a path of length 1, no path is empty, and the server lists paths
in one order (`PathAssumption`, `RankAssumption`); in `Reading` the messages are finite in
number and no more than `MaxUid`, so that a folder can hold them all at the start
(`MessagesAssumption`). Nothing else is assumed finite: any number of requests,
editors, entries, mailboxes, sessions, accounts, attempts, composers.

Every theorem is proved the same way. The property is not inductive; the *inductive
invariant* adds what the code relies on without saying so, and each of its conjuncts has a
step, or a lemma, for each action that can disturb it. A property of steps follows from the invariant and a case for each
action.

| Theorem (`ConnPoolProofs`) | Says |
| --- | --- |
| `PoolInvariant` | `Spec => []IInv` |
| `PoolTypes`, `PoolExclusive`, `PoolNeverCutShort` | `TypeOK`, `ExclusiveUse`, `NeverCutShort` |
| `PoolOwnConnection` | no request is on another mailbox's connection |
| `PoolOrphansAreLate`, `PoolStaleOnlyByOverlap` | the only unreachable sockets, and the only stale sessions, are those two races' |

`ExclusiveUse` is not inductive. That two goroutines are not both *between Lock and
Unlock* says nothing of who the mutex says holds it, and a step that locks looks at
the mutex. So `IInv` has `Mutual` (a goroutine between the two is the one
`connMu` names), `Placed` and `Pass` (which pointers are set at which control point,
and that the reaper holds `Pool.mu` exactly in a pass, over accounts still in the
map), and `OwnConnection`, which gives that an entry found under an account is
nobody else's. `NeverCutShort` then follows, because whoever closes a client
holds its mutex. `Tracked` (an open client that nothing refers to was locked late)
gives `OrphansAreLate`. `StaleOnlyByOverlap` needs `Rows` (no `Drop` is ahead of the
row), `Shared` (requests with one connection in hand are of one mailbox) and `Fresh`
(until a `Drop` overtakes a request with an older row, all that is in flight or
pooled for a mailbox is at least as new as its last `Drop`). Each
conjunct has a lemma `...Step` with one step per action; `IInvStep` puts them
together.

| Theorem (`DirectSessionsProofs`) | Says |
| --- | --- |
| `SessionInvariant` | `Spec => []` of the inductive invariant |
| `SessionTypes`, `PasswordTheorem` | `TypeOK`, `PasswordOnlyInStore` |
| `SocketTheorem`, `ForgottenTheorem` | `SocketOnlyByOverlap`, `ForgottenUnlessBusy` |

The strengthening is `Shape` (only a session that has left the store is being ended;
a request past `requireAuth` belongs to a session that has a mailbox), `Filed` (a
socket is pooled under the mailbox of the session that opened it), `Serving` (a
request that can still dial belongs to a session that is in the store, or whose
`Drop` is yet to come, or which is on record as outlived) and `SignedOut` (a finished
sign-out left the store, and the requests it met are on record). `Serving` is what
`SocketOnlyByOverlap` lacks by itself: the next step of such a request makes the
socket.

| Theorem (`AccountsProofs`) | Says |
| --- | --- |
| `AccountsInvariant`, `AccountsTypes` | the inductive invariant; `TypeOK` |
| `NumbersTheorem`, `ProvedTheorem`, `AdmittedTheorem` | `NumbersNotReused`, `ProvedIsReplaced`, `Admitted` |
| `FactorTheorem` | `FactorStands`, a property of steps |
| `AskedWithLeaveTheorem` | `AskedWithLeave`, of `Assistants` |

`NumbersNotReused` compares births and is not inductive: a cookie of a removed account
says nothing of the next one to be created. `Numbers` says where births come from: a
row's, a cookie's and a request's birth is its number, and none is above `created`. The
other three are inductive given the types, because each step that could break one sets
the history it is excused by (`late`, `cut`) in the same step. `AskedWithLeave` is about
the screens at rest; `CopyCurrent` says of any moment that the copy in memory is the table,
or a save has still to make it so, or two saves met (`doubt`).

| Theorem (`ThrottleDraftsProofs`) | Says |
| --- | --- |
| `ThrottleInvariant`, `ThrottleTypes` | the inductive invariant; `TypeOK` |
| `StandsTheorem` | `BlockStandsUnlessRaced` |
| `LimitsInvariant`, `LimitsTheorem` | `LimitsHold` |
| `DraftsInvariant`, `NothingUnsaidTheorem` | `NothingUnsaid` |
| `AloneInvariant`, `NothingStacksUpTheorem` | `NothingStacksUp` |

`LimitsHold` is about failures whose recording has finished; what their attempts had
counted is past. `LimitsInv` says it of every row from the count on: one that has been
counted for its address (`AddressesRefused`), or listed for its name (`NamesRefused`), and made
up the limit, had a whole block written, counted from the row's own time, for the address
or for each address the name was tried from, or its attempt is still about to write that
one (`SeenTo`). Blocks are compared with `promised`, the latest expiry written, and
`BlockStandsUnlessRaced` turns the promise into a refusal. The rows that count for a row are
those before it, so that later rows change nothing and a sweep only takes away
(`FewerCounted`); `RowsKnown` says that no row is newer than `seq` and that an attempt
knows which row is its own. Nothing is assumed of a block but that it has a length. Both are
claimed while no statement has failed (`faults`), as the property is.

`DraftsInv` has four parts. `RefsOK`: a composer and a request name copies and files that
are there, or none. `Holds`: each holds what the copy it names holds, but for what is
excused. `Kept`: what is owed is in a copy that `Stays`, which is one no request is about to
delete. An upload over the limit breaks `Holds` for the file, which is why it excuses it. Without `Holds` the step that deletes a superseded copy might delete the last one
with some edit in it. `AloneInv` says of the time without trouble that at most one
composer is open and one request under way, and that the copies in Drafts are the one these
name and the one the request has just made.

| Theorem (`MailboxesProofs`) | Says |
| --- | --- |
| `MailboxesInvariant`, `MailboxesTypes` | the inductive invariant; `TypeOK` |
| `OneDoorTheorem`, `NoFactorTheorem` | `OneDoorUnlessOvertaken`, `NoFactorOnOwned` |
| `WorkingSecretTheorem`, `DefaultTheorem` | `WorkingSecretStays`, `DefaultKept`, properties of steps |
| `OwnershipTheorem` | `OwnershipKept`: the table implements `Ownership` |

`OneDoorUnlessOvertaken` and `NoFactorOnOwned` do not say what a sign-in or a session
knows while it goes on. `Placed` says a number
read is not one still to be given; `OneRow` is the unique index; `RowIsOwn` that from
the lookup on a direct sign-in's row is its address's and nobody's, until a claim that
is on record; `WriteIsOwn` the same of the row a secret is about to be written to.
`SecretFresh` is what `WorkingSecretStays` needs: a request putting a secret in goes to a row
without one, unless another came in since it looked. `DefaultKept` is about
cardinality 1, which the proof reads as a singleton; that an account which loses its default
has a first row to take its place is by well-foundedness of the numbers. In the refinement
the owner of an address is that of its one row (`OneRow` again), and each action has a lemma
naming the abstract step it is: `ClaimTakes`, `CreateTakes`, `InsertSignsIn`,
`DetachReleases`, `EditRenames`, `RemoveRemoves`; the rest stutter.

| Theorem (`PreferencesProofs`) | Says |
| --- | --- |
| `PreferencesInvariant`, `PreferencesTypes` | the inductive invariant; `TypeOK` |
| `InheritedTheorem`, `CacheTheorem` | `NothingInherited`, `CacheCurrent` |
| `OwnPrefsTheorem` | `OwnPrefsStand`, a property of steps |

`NothingInherited` is about addresses somebody has; `LeftOnRecord` says it of those
nobody has as well, since one of them is handed over next. `SnapCurrent` says what a
`Load` between its two steps holds: the table, or the table has changed since and that
is on record. `OwnPrefsStand` rests on what a request knows when it writes: `OpenedIsOwn`
(an open form is of its holder's address, or the address changed hands since) and
`ForgetsNobodys` (nobody has the address a request is about to forget, with the same
exception).

| Theorem (`ReadingProofs`) | Says |
| --- | --- |
| `ReadingInvariant` | a request in the middle of a move in three commands is on a server without MOVE |
| `OthersTheorem` | `OthersStand`, a property of steps |
| `FilingInvariant`, `TypeTheorem` | the inductive invariant; `TypeOK` |
| `NothingLostTheorem`, `OpenIsThereTheorem` | `NothingLost`, `OpenIsThere` |
| `MeaningTheorem` | `KeepsItsMeaning`, a property of steps |

`NothingLost` says a message is in some folder. In the middle of a move its original is
marked deleted, and the next EXPUNGE takes it. `AllSafe` is the strengthening: a message not
deleted for good is somewhere *unmarked, where no move is about to mark it*. `Numbered` (UIDs in use
are below `next`) makes a copy's UID a new one; `HandedOut` says that a UID a request has
in hand was given out, so what it names now is what it named then, or nothing. `OpenIsThere`
holds with no request in flight; `OpenSeenTo` says of any moment that an open message which
is gone is one a request in flight has still to settle.

| Theorem (`PartsProofs`) | Says |
| --- | --- |
| `KeyInvariant`, `KeyServesTheorem` | `KeyServesItsData` |
| `BookInvariant`, `BookTheorem` | `BookIsOwners` |
| `PgpInvariant`, `PgpTheorem` | `KeysServe` |
| `ScanInvariant`, `ScanTheorem` | `ScanTellsTrue` |
| `FoldersInvariant`, `RightFolderTheorem`, `MadeIsShownTheorem` | `RightFolder`, `MadeIsShown` |
| `ChatTheorem` | `AnswersWhole` |
| `DeliveryInvariant`, `DeliveryTheorem` | `ArrivesWhole` |
| `PicturesInvariant`, `SentWholeTheorem` | `SentWhole`, the half of `PicturesStand` about messages |

- *Key check*: `KeyStages` is what a start knows at each stage of it; `OneKey`, that all a
  database was sealed with is one key, unless a `mailctl` sealed blindly (`blind`).
- *Contacts*: `RowsStay` (a row once there stays, and a key set by hand is marked so),
  `KeysAnnounced`, and `WalkCarriesTheirs`: a key the background walk has read and not yet
  written stands in the inbox, from its own address or with no From.
- *OpenPGP*: `PairsKnown`; `LetterStands` (a letter about to be sealed has the keys it needs);
  and `OneKeeps`: with one settings request at a time a private key is in one place, the row
  or the browser, what the rows still to be written write over can be spared, and so can the
  browser's copy where no public half is on file, since the button may go over it.
- *Sent-mail scan*: `FileHeld` (an open file is its opener's, and a press works on one that
  is open) and `Counted` (what a press has passed without counting it as left is on record).
- *Folders*: `MemoryServes` (the folder the pool remembers is the one that is open, unless
  somebody moved it, or a SELECT failed) and `MadeStands` (what was made here is there and
  subscribed to).
- *ClaudeChat*: `OneFewer`, each retry asks for one option fewer, so that the attempts suffice.
- *Delivery*: `AskStands` and `OutStands` (of what a handler has written, what is held back,
  passed on or packed at each stage), `TagTells` (of which build and which packing a tag is).
- *Pictures*: `PagesThere` and `SendingWhole`: a picture a message refers to is in the store,
  or its loss is on record, while it is written and while it is sent.

*Only model-checked*: the three liveness properties (`CallsReturn`, `IdleIsClosed`,
`ErasedInTheEnd`), which are with fairness and `ENABLED` outside what the prover handles; and
`OriginalsGoFirst`, the other half of `PicturesStand`, which weighs the store with a fold over
the set of pictures: that a sum grows with its set takes induction over data.

A proof that failed showed one thing wrong with a model: two guards of a CASE in
`PrivateRow` (`OpenPGP`) overlapped. TLC takes the first, TLA+ leaves the value open; the code
is a chain of `if`, and so is the definition now.

## What the code does that its comments do not say

Two runs end in a violation, each of one sentence from the source (quoted under
"findings" in `PROJECT.json`).

- `mailboxes_default`: the edit dialog has no default box, so saving the default
  mailbox leaves its account without one.
- `accounts_change`: `handleChangePassword` checks the current password with
  `authenticate`, which is the check with an empty code (`auth.go:509`): an account with a
  second factor is refused, though the comment above the call (`handlers.go:3530`)
  says it is spared the code.

Others were met while modelling; the steps are in the models and no run asserts the
sentence:

- an upload whose form is over the limit is answered before the ids in it are read
  (`attach.go:68`), with an empty strip: the files attached before are gone from the
  composer, though what "comes back is the complete strip" (`attach.go:44`). The next save
  stores a copy without them and deletes the one that had them (`AttachTooLarge` in
  `Drafts`; `NothingUnsaid` excuses the file there and nowhere else for it);
- the Generate button goes by what the server has (`handlers.go:2893`). With the private
  key kept by the browser and the public box saved empty, or never filled, it makes a new
  pair, and the reply goes over the private key in the browser (`app.js:1052`), though "it
  refuses to overwrite an existing private key" (`handlers.go:2874`). `KeysServe` excuses
  the private halves that have stood so (`bare` in `OpenPGP`);
- `parseAutocrypt` compares addresses only where there is a sender (`mail.go:1066`): in a
  message without a From a header speaks for any address, though "a header can only ever
  speak for the sender it arrived from" (`mail.go:1029`). `BookIsOwners` allows for that
  and nothing more (`NoSender`, `Announces` in `Contacts`);
- the script looks its list of files up once (`app.js:611`) and every upload replaces the
  strip it is in: attaching a file is not the edit that `app.js:624` says it is, and a
  composer left by a link with nothing else changed saves nothing (`Attach` in `Drafts`
  leaves it `clean`; what no copy has held is not promised by `NothingUnsaid`);
- the reaper waits for a server's answer to LOGOUT with `Pool.mu` held (`mail.go:116`), so
  one silent server stops every mailbox, though "the reaper must not block behind a slow
  request" (`Hung`, `Stuck` in `ConnPool`; `CallsReturn` is for servers that answer);
- deleting in Trash marks and never expunges (`handlers.go:1376`, against 1366-1372;
  `DeleteInTrash` in `Reading`);
- the error of QUIT (`smtp.go:614`) is reported as if the message had not been accepted,
  and the composer comes back to send it again (`DeliverFails` in `Drafts`, against
  `handlers.go:1923`);
- a static file without a compressed copy beside it, compressed on the way out, gets a
  tag with "-gzip" put after it (`compress.go:134`), which `handleStatic` does not take for
  its own: it is sent whole each time (`Delivery`);
- a shell template that fails answers an empty 200 (`views.go:877`);
- renaming a folder forgets the selection only where it is that very folder
  (`mail.go:1211`, whose comment says it names a folder that no longer exists): a selected
  child is remembered by the name it had (`stirred` in `Folders`);
- "Leave this box empty to keep it" (`settings.html:518`): where the key is kept by the
  browser, saving clears the one kept here, box or no box (`handlers.go:2642`; `letGo`);
- a scan lists the oldest 500 messages and reports nothing left when those are done,
  which the screen tells as everything in Sent; one that failed is on record and is not
  tried again (`SentScan`).

The other exceptions are written into the properties, by name, so that what remains
is checked without them:

- a connection dialled by a request that locked its entry after it left the map
  belongs to nothing and stays open until the server hangs up (`mail.go:165`);
- a request that still has the password opens a new connection after `Drop`, and an
  expiry noticed by `get` never calls `Drop` (`direct.go:222`, `SocketOnlyByOverlap`);
- the DELETE of an expired block (`loginthrottle.go:79`) takes the new block another
  attempt wrote in between (`BlockStandsUnlessRaced`);
- the same race as the first makes a request use the old password after `Drop` (`mail.go:178`);
- with a silent server the sweeper waits in `Drop`, and passwords of other expired
  sessions wait with it (`direct.go:207`; `ErasedInTheEnd` is for servers that answer);
- a view is made again by a request in flight at sign-out (`viewstate.go:272`), and
  `views.forget(sess.id)` (`direct.go:221`) never matches, views being kept by VID: only
  sign-out, which calls it with the VID, forgets one;
- two refused requests at once log twice (`loginthrottle.go:216`);
- claiming a mailbox leaves its direct session alive (`store.go:936`);
- a claim between the two statements of `SetMailboxTOTP` leaves a secret in an owned
  row (`store.go:915`); a double submit of the enrolment replaces a secret already
  in somebody's phone (`totp.go:394`);
- a claimed row keeps its `is_default`, which may be the account's second
  (`store.go:949`);
- removing an account or renaming a mailbox forgets no preferences
  (`superuseradmin.go:229`); a late `Forget` wipes the next holder's
  (`mailboxes.go:246`); an overtaken `Load` leaves the cache old until the next write
  (`settings_mailbox.go:67`);
- a listing, a step or a successor worked out in one folder is recorded in the
  folder another tab has opened since (`handlers.go:443`), where its UIDs name
  other messages, or none until one arrives; in the middle of a move by COPY, a
  message that arrives under such a UID is expunged without having been copied
  (`astray`);
- a row of the message list is a button that swaps the pane, not the "ordinary link" of
  `app.js:787`: clicking one while composing saves nothing (`LeavePage`); nor does leaving
  the composer a failed send brought back, which counts as clean;
- text typed while an autosave is under way, or before it fails, counts as saved
  (`app.js:831`); the properties of `Drafts` speak of what Drafts has held;
- a save after a file aged out stores the message without it and deletes the copy that
  had it (`handlers.go:1771`; `AgeOut` and `Restart` excuse the file), as does one after a
  file of another client's draft was too large to come back (`handlers.go:1035`, where the
  model takes none to be);
- Send pressed twice sends twice; a save under way during a send leaves a draft of what
  was sent (both overlap, which `NothingStacksUp` excludes);
- a request past the door goes on though its account is switched off or removed
  meanwhile (`cut`), and a password put in between the proof of the old one and the
  write of the new is overwritten (`late`);
- `mailctl` on a database with nothing sampled seals under whatever key it has
  (`blind`), and a mailbox's own second factor is not among what is sampled
  (`keycheck.go:112`);
- two saves of the assistants' screens at once may leave the copy older than the table
  until the next write (`doubt`; `settings.go:315`); choosing a date format in one
  mailbox applies it to the whole process until the next (`handlers.go:2349`);
- two settings windows at once, or a row that was not written, may cost a private key
  (`letGo`), and so may a sealed key lost with the redirect that carries it;
- a failed SELECT leaves the connection's memory on the folder before it, which the
  server no longer has open: the next command is refused, not misdirected; the check
  that a folder is protected is skipped when the folders cannot be listed
  (`handlers.go:3046`, 3072), and looks at the last name only, so that a protected folder's
  parent may be renamed; a renamed folder is not subscribed to again; hiding the one
  folder subscribed to shows everything.

## What is not modelled

- *Strings, markup, layout, logging.* Addresses, names, folders and messages are model
  values. HTML sanitising and MIME assembly are pure functions of text.
- *Cryptography*: sealing, TOTP codes, OpenPGP packets. A secret is an opaque value that
  is right or not, a sealed value the key that opens it.
- *mailctl's mailbox commands, listings and exports.* Removing a mailbox there is a
  DELETE beside the running server: to the rows it is `Detach`.
- *Receiving*: parsing bodies, threads, search, opening and verifying encrypted mail.
  These read and write nothing.
- *Rows of a query failing part-way.* A statement succeeds or fails as a whole.
- *A crash inside an SQLite transaction.* The library's rollback is trusted; restarts
  are modelled where memory and database disagree afterwards (`DirectSessions`,
  `Preferences`).
- *Reading timers, page numbers and sort orders* as values; only what they reset.
- *UIDVALIDITY*: the code ignores it, and in the model a folder never resets its UIDs.
- Configuration files, what a migration does to tables, build tools, templates, client
  addresses: see `PROJECT.json`.

## Plan

Done, the most important behaviour first: the pool and the sessions on it; the
throttle; ownership and preferences; reading; drafts; accounts and assistants; the
eight parts; and theorems for every safety property of a run but one half of
`PicturesStand`. What is left, in this order:

1. `mailctl mailbox remove` as a further writer of `Mailboxes`, beside the running
   server, and the proofs about `Mailboxes` with it.
2. The two clauses of `OriginalsGoFirst` that do not weigh the store: under pressure a
   copy goes only when no original stays, and none before one used longer ago.
3. Which attachment goes first under the byte cap; reference chains and the successor
   of a message, by reference definitions over bounded inputs.
