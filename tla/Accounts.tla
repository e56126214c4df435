------------------------------ MODULE Accounts ------------------------------
(***************************************************************************)
(* Application accounts and everybody who acts on one: its holder, through *)
(* a session cookie; the superuser, through a cookie of another kind; and  *)
(* an operator at a terminal running mailctl on the same database.         *)
(*                                                                         *)
(* A session is a signed cookie and nothing else: no table lists the ones  *)
(* issued, so an account is switched off, deleted or given a new password  *)
(* beside cookies that go on naming it.  Each request reads the account's  *)
(* row once, at the door (auth.go:425), and acts on what it read then;     *)
(* mailctl reads the row, asks a question, and writes after the answer.    *)
(* One statement is one step, as there is one connection per process and   *)
(* SQLite serialises the processes.                                        *)
(*                                                                         *)
(* Sign-in throttling is LoginThrottle, mailboxes are Mailboxes, and the   *)
(* key the second factor is sealed under is KeyCheck: here every secret    *)
(* can be read.                                                            *)
(***************************************************************************)
EXTENDS Naturals, FiniteSets

CONSTANTS
    Names,      \* usernames, case folded
    Passwords,  \* passwords long enough to be accepted
    Browsers,   \* each with one cookie and one request at a time
    Configs,    \* [super, allowed]: the superuser's name, if there is one, and
                \* the browsers its address list admits (an empty list: all)
    MaxId,      \* bound: accounts ever created (AUTOINCREMENT, never reused)
    MaxSecret,  \* bound: second-factor secrets ever generated
    Nobody      \* no name

ASSUME MaxIdAssumption == MaxId \in Nat
ASSUME MaxSecretAssumption == MaxSecret \in Nat
ASSUME NobodyAssumption == Nobody \notin Names \union Passwords

VARIABLES
    users,      \* app_users: user_id -> row, over the ids present
    created,    \* accounts ever created
    secrets,    \* secrets ever generated
    cookie,     \* each browser's session cookie
    req,        \* each browser's request
    ctl,        \* the mailctl command being run
    config      \* the file the server started with

vars == <<users, created, secrets, cookie, req, ctl, config>>

Ids == 1 .. MaxId
Secrets == 1 .. MaxSecret       \* 0 where there is none
SuperNames == {c.super : c \in Configs}

\* `birth` is which creation put the row there, a history the program has not.
Row == [name : Names, pw : Passwords, active : BOOLEAN,
        factor : Secrets \union {0}, birth : Ids]

Cookie == [kind : {"none", "user", "super"}, id : Ids \union {0},
           name : SuperNames \union {Nobody}, birth : Ids \union {0}]

Req == [pc : {"idle", "issue", "open", "proved", "target"},
        id : Ids \union {0}, birth : Ids \union {0},
        name : SuperNames \union {Nobody},      \* the superuser it runs as
        factor : Secrets \union {0},            \* totp_secret as it was read
        pw : Passwords \union {Nobody},         \* the password it proved
        late : BOOLEAN,     \* history: a password went in since the proof
        cut : BOOLEAN]      \* history: switched off or removed since the door

Ctl == [pc : {"idle", "asked"}, id : Ids \union {0}, birth : Ids \union {0},
        factor : Secrets \union {0}]

NoCookie == [kind |-> "none", id |-> 0, name |-> Nobody, birth |-> 0]
Idle == [pc |-> "idle", id |-> 0, birth |-> 0, name |-> Nobody, factor |-> 0,
         pw |-> Nobody, late |-> FALSE, cut |-> FALSE]
CtlIdle == [pc |-> "idle", id |-> 0, birth |-> 0, factor |-> 0]

TypeOK ==
    /\ \E I \in SUBSET Ids : users \in [I -> Row]
    /\ created \in 0 .. MaxId
    /\ secrets \in 0 .. MaxSecret
    /\ cookie \in [Browsers -> Cookie]
    /\ req \in [Browsers -> Req]
    /\ ctl \in Ctl
    /\ config \in Configs

-----------------------------------------------------------------------------
(* Statements on app_users. *)

Live == DOMAIN users

\* ReadAppUserByUsername: the row of a name.  The unique index keeps it to one.
Called(n) == {i \in Live : users[i].name = n}

\* The user_id the next INSERT gets: AUTOINCREMENT counts on.  A slip: the
\* plain rowid, one past the largest in the table.
PlainRowid == 1 + Cardinality(Live)
NewId == created + 1

\* INSERT INTO app_users, refused by the index when the name is taken.
Insert(n, p) ==
    /\ Called(n) = {} /\ created < MaxId
    /\ created' = created + 1
    /\ users' = [i \in Live \union {NewId} |->
                    IF i = NewId
                    THEN [name |-> n, pw |-> p, active |-> TRUE, factor |-> 0,
                          birth |-> created + 1]
                    ELSE users[i]]

\* UPDATE app_users SET ... WHERE user_id = ?: of a row that has gone, it
\* changes nothing and is no error.
WithPassword(i, p) ==
    [j \in Live |-> IF j = i THEN [users[j] EXCEPT !.pw = p] ELSE users[j]]
WithActive(i, on) ==
    [j \in Live |-> IF j = i THEN [users[j] EXCEPT !.active = on] ELSE users[j]]
WithFactor(i, s) ==
    [j \in Live |-> IF j = i THEN [users[j] EXCEPT !.factor = s] ELSE users[j]]
WithoutUser(i) == [j \in Live \ {i} |-> users[j]]

\* A request answered, and what the others have missed by it.
Answered(r, b) == [r EXCEPT ![b] = Idle]
MissedPassword(r, i) ==
    [b \in Browsers |-> [r[b] EXCEPT !.late = @ \/ r[b].id = i]]
MissedCut(r, i) ==
    [b \in Browsers |-> [r[b] EXCEPT !.cut = @ \/ r[b].id = i]]

-----------------------------------------------------------------------------
(* Signing in and out. *)

\* authenticateWithTOTP, on one read of the row: the password, then a code if
\* the account wants one (`code`: a valid one was typed), then is_active.
Accepts(i, p, code) ==
    /\ users[i].pw = p
    /\ users[i].factor # 0 => code
    /\ users[i].active

\* handleLoginPost: the superuser's name is tried first, and an account that
\* happens to have it is never asked.
SignIn(b, n, p, code) ==
    /\ req[b].pc = "idle" /\ n # config.super
    /\ \E i \in Called(n) :
          /\ Accepts(i, p, code)
          /\ req' = [req EXCEPT ![b] = [Idle EXCEPT !.pc = "issue", !.id = i,
                                                    !.birth = users[i].birth]]
    /\ UNCHANGED <<users, created, secrets, cookie, ctl, config>>

\* issueSessionAt: the cookie names the row that was read.
Issue(b) ==
    /\ req[b].pc = "issue"
    /\ cookie' = [cookie EXCEPT ![b] = [kind |-> "user", id |-> req[b].id,
                                        name |-> Nobody, birth |-> req[b].birth]]
    /\ req' = Answered(req, b)
    /\ UNCHANGED <<users, created, secrets, ctl, config>>

\* superuserAddressAllowed.
FromAllowed(b) == b \in config.allowed

\* authenticateSuperuser, with the right password, and issueSuperuserSession.
SuperSignIn(b) ==
    /\ req[b].pc = "idle" /\ FromAllowed(b) /\ config.super # Nobody
    /\ cookie' = [cookie EXCEPT ![b] = [kind |-> "super", id |-> 0,
                                        name |-> config.super, birth |-> 0]]
    /\ UNCHANGED <<users, created, secrets, req, ctl, config>>

\* handleLogout, or four in the morning: the cookie is cleared or expires.  A
\* request already past the door goes on.
SignOut(b) ==
    /\ cookie[b].kind # "none"
    /\ cookie' = [cookie EXCEPT ![b] = NoCookie]
    /\ UNCHANGED <<users, created, secrets, req, ctl, config>>

-----------------------------------------------------------------------------
(* The holder's requests. *)

\* Who requireAuth lets in.  A slip: is_active was a matter for the sign-in.
StillListed(c) == c.kind = "user" /\ c.id \in Live
LetIn(c) == c.kind = "user" /\ c.id \in Live /\ users[c.id].active

\* refuseSuperuser and requireAuth, which leave the row on the request.
Open(b) ==
    LET c == cookie[b]
    IN  /\ req[b].pc = "idle" /\ LetIn(c)
        /\ req' = [req EXCEPT ![b] = [Idle EXCEPT !.pc = "open", !.id = c.id,
                        !.birth = c.birth, !.factor = users[c.id].factor]]
        /\ UNCHANGED <<users, created, secrets, cookie, ctl, config>>

\* requireAuth turning a cookie away clears it.
TurnAway(b) ==
    /\ req[b].pc = "idle" /\ cookie[b].kind = "user" /\ ~ LetIn(cookie[b])
    /\ cookie' = [cookie EXCEPT ![b] = NoCookie]
    /\ UNCHANGED <<users, created, secrets, req, ctl, config>>

\* Any request that changes nothing here.
Answer(b) ==
    /\ req[b].pc \in {"open", "proved", "target"}
    /\ req' = Answered(req, b)
    /\ UNCHANGED <<users, created, secrets, cookie, ctl, config>>

\* authenticate, which is authenticateWithTOTP with no code: the row is read
\* again, by name.  A slip: whatever was typed will do.
AnyPassword(i, p) == users[i].active
Proves(i, p) == Accepts(i, p, FALSE)

\* handleChangePassword, as far as the current password.  The name is not
\* editable, so the row of the name is the row of the id while it is there.
Prove(b, p) ==
    /\ req[b].pc = "open"
    /\ req' = IF req[b].id \in Live /\ Proves(req[b].id, p)
              THEN [req EXCEPT ![b].pc = "proved", ![b].pw = p, ![b].late = FALSE]
              ELSE Answered(req, b)
    /\ UNCHANGED <<users, created, secrets, cookie, ctl, config>>

\* handleChangePassword, SetAppUserPassword.
ChangePassword(b, p) ==
    /\ req[b].pc = "proved"
    /\ users' = WithPassword(req[b].id, p)
    /\ req' = MissedPassword(Answered(req, b), req[b].id)
    /\ UNCHANGED <<created, secrets, cookie, ctl, config>>

\* saveTOTP's "already on", of the row the request came in with.  A slip: not
\* asking.
NeverOn(b) == TRUE
ReadOff(b) == req[b].factor = 0

\* saveTOTP with the box ticked.
TotpEnable(b) ==
    /\ req[b].pc = "open" /\ ReadOff(b) /\ secrets < MaxSecret
    /\ secrets' = secrets + 1
    /\ users' = WithFactor(req[b].id, secrets + 1)
    /\ req' = Answered(req, b)
    /\ UNCHANGED <<created, cookie, ctl, config>>

\* saveTOTP with the box empty, totpDisable.
TotpDisable(b) ==
    /\ req[b].pc = "open"
    /\ users' = WithFactor(req[b].id, 0)
    /\ req' = Answered(req, b)
    /\ UNCHANGED <<created, secrets, cookie, ctl, config>>

-----------------------------------------------------------------------------
(* The superuser's requests. *)

\* requireSuperuser: the name is the one the file has now.
Named(c) == c.kind = "super" /\ c.name = config.super /\ config.super # Nobody

\* requireSuperuser and superuserTarget, which reads the row a button is for.
Target(b, i) ==
    /\ req[b].pc = "idle" /\ Named(cookie[b]) /\ FromAllowed(b)
    /\ i \in Live
    /\ req' = [req EXCEPT ![b] = [Idle EXCEPT !.pc = "target", !.id = i,
                        !.birth = users[i].birth, !.name = cookie[b].name]]
    /\ UNCHANGED <<users, created, secrets, cookie, ctl, config>>

\* requireSuperuser clears the cookie of another name, or from elsewhere.
ShutSuperuser(b) ==
    /\ req[b].pc = "idle" /\ cookie[b].kind = "super"
    /\ ~ (Named(cookie[b]) /\ FromAllowed(b))
    /\ cookie' = [cookie EXCEPT ![b] = NoCookie]
    /\ UNCHANGED <<users, created, secrets, req, ctl, config>>

AddUser(b, n, p) ==
    /\ req[b].pc = "idle" /\ Named(cookie[b]) /\ FromAllowed(b)
    /\ Insert(n, p)
    /\ UNCHANGED <<secrets, cookie, req, ctl, config>>

SetActive(b, on) ==
    /\ req[b].pc = "target"
    /\ users' = WithActive(req[b].id, on)
    /\ req' = IF on THEN Answered(req, b)
              ELSE MissedCut(Answered(req, b), req[b].id)
    /\ UNCHANGED <<created, secrets, cookie, ctl, config>>

ResetPassword(b, p) ==
    /\ req[b].pc = "target"
    /\ users' = WithPassword(req[b].id, p)
    /\ req' = MissedPassword(Answered(req, b), req[b].id)
    /\ UNCHANGED <<created, secrets, cookie, ctl, config>>

ClearTOTP(b) ==
    /\ req[b].pc = "target"
    /\ users' = WithFactor(req[b].id, 0)
    /\ req' = Answered(req, b)
    /\ UNCHANGED <<created, secrets, cookie, ctl, config>>

\* DeleteAppUser, after the name was typed.
RemoveUser(b) ==
    /\ req[b].pc = "target"
    /\ users' = WithoutUser(req[b].id)
    /\ req' = MissedCut(Answered(req, b), req[b].id)
    /\ UNCHANGED <<created, secrets, cookie, ctl, config>>

-----------------------------------------------------------------------------
(* mailctl, beside the running server. *)

\* loadUser, and the question the command asks before it writes.
CtlLoad(n) ==
    /\ ctl.pc = "idle"
    /\ \E i \in Called(n) :
          ctl' = [pc |-> "asked", id |-> i, birth |-> users[i].birth,
                  factor |-> users[i].factor]
    /\ UNCHANGED <<users, created, secrets, cookie, req, config>>

CtlAdd(n, p) ==
    /\ ctl.pc = "idle"
    /\ Insert(n, p)
    /\ UNCHANGED <<secrets, cookie, req, ctl, config>>

\* "cancelled", a password too short, or nothing to do.
CtlCancel ==
    /\ ctl.pc = "asked"
    /\ ctl' = CtlIdle
    /\ UNCHANGED <<users, created, secrets, cookie, req, config>>

CtlPasswd(p) ==
    /\ ctl.pc = "asked"
    /\ users' = WithPassword(ctl.id, p)
    /\ req' = MissedPassword(req, ctl.id)
    /\ ctl' = CtlIdle
    /\ UNCHANGED <<created, secrets, cookie, config>>

CtlActive(on) ==
    /\ ctl.pc = "asked"
    /\ users' = WithActive(ctl.id, on)
    /\ req' = IF on THEN req ELSE MissedCut(req, ctl.id)
    /\ ctl' = CtlIdle
    /\ UNCHANGED <<created, secrets, cookie, config>>

CtlRemove ==
    /\ ctl.pc = "asked"
    /\ users' = WithoutUser(ctl.id)
    /\ req' = MissedCut(req, ctl.id)
    /\ ctl' = CtlIdle
    /\ UNCHANGED <<created, secrets, cookie, config>>

\* totpEnable: a new secret, over one already there if the operator says so.
CtlTotpEnable ==
    /\ ctl.pc = "asked" /\ secrets < MaxSecret
    /\ secrets' = secrets + 1
    /\ users' = WithFactor(ctl.id, secrets + 1)
    /\ ctl' = CtlIdle
    /\ UNCHANGED <<created, cookie, req, config>>

\* totpDisable: only of a factor that was on when the row was read.
CtlTotpDisable ==
    /\ ctl.pc = "asked" /\ ctl.factor # 0
    /\ users' = WithFactor(ctl.id, 0)
    /\ ctl' = CtlIdle
    /\ UNCHANGED <<created, secrets, cookie, req, config>>

-----------------------------------------------------------------------------
\* The server is restarted, perhaps on an edited file.  With no session_secret
\* in it the cookies are signed with a key that is gone.
Restart(c, kept) ==
    /\ config' = c
    /\ req' = [b \in Browsers |-> Idle]
    /\ cookie' = IF kept THEN cookie ELSE [b \in Browsers |-> NoCookie]
    /\ UNCHANGED <<users, created, secrets, ctl>>

Init ==
    /\ users = [i \in {} |-> 0]
    /\ created = 0
    /\ secrets = 0
    /\ cookie = [b \in Browsers |-> NoCookie]
    /\ req = [b \in Browsers |-> Idle]
    /\ ctl = CtlIdle
    /\ config \in Configs

Holder(b) ==
    \/ \E n \in Names, p \in Passwords, code \in BOOLEAN : SignIn(b, n, p, code)
    \/ Issue(b) \/ SuperSignIn(b) \/ SignOut(b)
    \/ Open(b) \/ TurnAway(b) \/ Answer(b)
    \/ \E p \in Passwords : Prove(b, p) \/ ChangePassword(b, p)
    \/ TotpEnable(b) \/ TotpDisable(b)

Superuser(b) ==
    \/ \E i \in Ids : Target(b, i)
    \/ ShutSuperuser(b)
    \/ \E n \in Names, p \in Passwords : AddUser(b, n, p)
    \/ \E on \in BOOLEAN : SetActive(b, on)
    \/ \E p \in Passwords : ResetPassword(b, p)
    \/ ClearTOTP(b) \/ RemoveUser(b)

Operator ==
    \/ \E n \in Names : CtlLoad(n) \/ \E p \in Passwords : CtlAdd(n, p)
    \/ CtlCancel \/ CtlRemove \/ CtlTotpEnable \/ CtlTotpDisable
    \/ \E p \in Passwords : CtlPasswd(p)
    \/ \E on \in BOOLEAN : CtlActive(on)

Next ==
    \/ \E b \in Browsers : Holder(b) \/ Superuser(b)
    \/ Operator
    \/ \E c \in Configs, kept \in BOOLEAN : Restart(c, kept)

Spec == Init /\ [][Next]_vars

-----------------------------------------------------------------------------
(* Properties. *)

SameAccount(x) == x.id \in Live => users[x.id].birth = x.birth

\* A cookie, a request and a mailctl command name an account by its number, and
\* outlive it: whatever is created since, under the same name or another, they
\* reach the account they were about or none.
NumbersNotReused ==
    /\ \A b \in Browsers : SameAccount(cookie[b]) /\ SameAccount(req[b])
    /\ SameAccount(ctl)

\* handleChangePassword replaces the password its caller proved.  One that the
\* superuser, mailctl or another window put in is overwritten unread only when
\* it went in between that proof and the write.
ProvedIsReplaced ==
    \A b \in Browsers : req[b].pc = "proved" /\ req[b].id \in Live =>
        users[req[b].id].pw = req[b].pw \/ req[b].late

\* A request of an account that is off or gone is one that was past the door
\* when that happened: a cookie issued before, or by a sign-in that read the
\* row before, is worth nothing after.
OffMeansOut ==
    \A b \in Browsers : req[b].pc \in {"open", "proved"} =>
        \/ req[b].id \in Live /\ users[req[b].id].active
        \/ req[b].cut

\* The management screen answers the superuser the file names now, from where
\* the file admits it now, through restarts and edits of the file.
AdminIsNamed ==
    \A b \in Browsers : req[b].pc = "target" =>
        req[b].name = config.super /\ FromAllowed(b)

\* Who is let in, at either door, is who the table or the file says now.
Admitted == OffMeansOut /\ AdminIsNamed

\* A second factor in use gives way to another only where the one asking was
\* shown the account without it or, at the terminal, was asked about it: what
\* an authenticator has been given keeps working through repeated presses.
Replaced(i) == i \in Live /\ i \in DOMAIN users' /\ users[i].factor # 0
               /\ users'[i].factor \notin {0, users[i].factor}
FactorKept ==
    \A i \in Ids : Replaced(i) =>
        \/ ctl.pc = "asked" /\ ctl.id = i
        \/ \E b \in Browsers : req[b].pc = "open" /\ req[b].id = i
                              /\ req[b].factor # users[i].factor
FactorStands == [][FactorKept]_vars

\* handlers.go:3530: "Deliberately the password-only check ... Demanding a TOTP
\* code here as well would mean an account with two-factor could never change
\* its password from a machine without the phone to hand."
PasswordAloneProves ==
    [][\A b \in Browsers, p \in Passwords :
          /\ Prove(b, p)
          /\ req[b].id \in Live
          /\ users[req[b].id].pw = p /\ users[req[b].id].active
          => req'[b].pc = "proved"]_vars

=============================================================================
