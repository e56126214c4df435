--------------------------- MODULE DirectSessions ---------------------------
(***************************************************************************)
(* Mailbox sessions (direct.go, with their sign-in and sign-out in         *)
(* handlers.go, requireAuth and credentialsFor in auth.go, and what is     *)
(* kept per sign-in in viewstate.go).  A session holds a mailbox password  *)
(* in memory; the store maps the id in the cookie to it.                   *)
(*                                                                         *)
(* A session is ended by the sign-out handler, by the sign-in handler when *)
(* the second factor fails, or by the sweeper, always by taking it out of  *)
(* the store and then running endDirectSession, which is not one step.     *)
(* directStore.get ends one too, when it meets it expired, in its own way. *)
(*                                                                         *)
(* The connection pool appears as ConnPool promises it: at most one socket *)
(* per mailbox, opened by the first request that needs it; Drop unlinks it *)
(* and waits for the requests that are using it.                           *)
(***************************************************************************)
EXTENDS Naturals

CONSTANTS
  Sessions,    \* sessions; one that is gone stands for the next sign-in
  Accounts,    \* the mailboxes' rows
  Requests,    \* request goroutines under /app/
  Hung,        \* mailboxes whose server may stop answering
  None

ASSUME NoneAssumption == None \notin Sessions \cup Accounts
ASSUME HungAssumption == Hung \subseteq Accounts

VARIABLES
  account,   \* directSession.account; None before sign-in
  live,      \* directStore.sessions
  held,      \* sessions whose password is not nil
  expired,   \* sessions past directSession.expires
  cookies,   \* session ids some browser presents
  signing,   \* sessions whose sign-in handler has not finished
  stage,     \* how far endDirectSession is with a session
  swept,     \* sessions the sweeper took out
  waitFor,   \* the requests pool.Drop waits for
  pc, sid,   \* where each request is, and its session
  socket,    \* the pooled connection of a mailbox: the session that opened it
  views,     \* viewStore.m; the key is the VID made with the session's cookie
  readOut,   \* history: sessions get found expired
  overlap,   \* history: sessions ended while a request was serving them
  signedOut  \* history: sessions whose sign-out has finished

sessionVars == <<account, live, held, expired, cookies, signing>>
endVars     == <<stage, swept, waitFor>>
requestVars == <<pc, sid>>
history     == <<readOut, overlap, signedOut>>
vars == <<sessionVars, endVars, requestVars, socket, views, history>>

Stage == {"none", "queued", "drop", "wait", "wipe", "forget"}
RequestPC == {"idle", "authed", "creds", "conn"}

TypeOK ==
  /\ account \in [Sessions -> Accounts \cup {None}]
  /\ live \in SUBSET Sessions /\ held \in SUBSET Sessions
  /\ expired \in SUBSET Sessions /\ cookies \in SUBSET Sessions
  /\ signing \in SUBSET Sessions
  /\ stage \in [Sessions -> Stage]
  /\ swept \in SUBSET Sessions
  /\ waitFor \in [Sessions -> SUBSET Requests]
  /\ pc \in [Requests -> RequestPC]
  /\ sid \in [Requests -> Sessions \cup {None}]
  /\ socket \in [Accounts -> Sessions \cup {None}]
  /\ views \in SUBSET Sessions
  /\ readOut \in SUBSET Sessions /\ overlap \in SUBSET Sessions
  /\ signedOut \in SUBSET Sessions

Init ==
  /\ account = [s \in Sessions |-> None]
  /\ live = {} /\ held = {} /\ expired = {} /\ cookies = {} /\ signing = {}
  /\ stage = [s \in Sessions |-> "none"]
  /\ swept = {}
  /\ waitFor = [s \in Sessions |-> {}]
  /\ pc = [r \in Requests |-> "idle"]
  /\ sid = [r \in Requests |-> None]
  /\ socket = [a \in Accounts |-> None]
  /\ views = {} /\ readOut = {} /\ overlap = {} /\ signedOut = {}

-----------------------------------------------------------------------------
(* Sign-in: handleDirectLoginPost.                                         *)

\* randomSessionID never repeats an id, so this one is nowhere.
Unused(s) ==
  /\ s \notin live \cup held \cup cookies \cup signing \cup views
  /\ stage[s] = "none"
  /\ \A r \in Requests : sid[r] # s
  /\ \A a \in Accounts : socket[a] # s

\* startDirectSession: the mail server took the password, on a connection of
\* its own that is closed again, and the session is in the store.
Start(s, a) ==
  /\ Unused(s)
  /\ account' = [account EXCEPT ![s] = a]
  /\ live' = live \cup {s}
  /\ held' = held \cup {s}
  /\ signing' = signing \cup {s}
  /\ expired' = expired \ {s}
  /\ swept' = swept \ {s}
  /\ readOut' = readOut \ {s} /\ overlap' = overlap \ {s}
  /\ signedOut' = signedOut \ {s}
  /\ UNCHANGED <<cookies, stage, waitFor, requestVars, socket, views>>

\* The second factor is right, or there is none: issueDirectSession.
Issue(s) ==
  /\ s \in signing
  /\ signing' = signing \ {s}
  /\ cookies' = cookies \cup {s}
  /\ UNCHANGED <<account, live, held, expired, endVars, requestVars, socket,
                 views, history>>

Overtake(s) ==
  overlap' = IF \E r \in Requests : sid[r] = s THEN overlap \cup {s} ELSE overlap

\* remove gives the session to one caller only; endDirectSession(nil) returns.
Remove(s) ==
  /\ live' = live \ {s}
  /\ stage' = IF s \in live THEN [stage EXCEPT ![s] = "drop"] ELSE stage

\* The second factor fails.  (Mutant: out of the store, and no more.)
ForgetOnly(s) == live' = live \ {s} /\ UNCHANGED stage
GiveUp(s)     == Remove(s)

\* The code is missing or wrong, or the cookie cannot be signed.
Refuse(s) ==
  /\ s \in signing
  /\ signing' = signing \ {s}
  /\ GiveUp(s)
  /\ UNCHANGED <<account, held, expired, cookies, swept, waitFor, requestVars,
                 socket, views, history>>

-----------------------------------------------------------------------------
(* A request: requireAuth, then any number of uses of the mailbox.         *)

\* What get does to a session it finds expired.  (Mutant: it only forgets.)
OnlyForget(s) == UNCHANGED held
Wipe(s)       == held' = held \ {s}

\* directStore.get, called by requireAuth.
Get(r, s) ==
  /\ pc[r] = "idle" /\ s \in cookies
  /\ \/ /\ s \in live \ expired
        /\ pc' = [pc EXCEPT ![r] = "authed"]
        /\ sid' = [sid EXCEPT ![r] = s]
        /\ UNCHANGED <<live, held, cookies, readOut>>
     \/ /\ s \in live \cap expired
        /\ live' = live \ {s}
        /\ Wipe(s)
        /\ readOut' = readOut \cup {s}
        /\ cookies' = cookies \ {s}
        /\ UNCHANGED requestVars
     \/ /\ s \notin live
        /\ cookies' = cookies \ {s}
        /\ UNCHANGED <<live, held, requestVars, readOut>>
  /\ UNCHANGED <<account, expired, signing, endVars, socket, views, overlap, signedOut>>

\* updateView
Navigate(r) ==
  /\ pc[r] = "authed"
  /\ views' = views \cup {sid[r]}
  /\ UNCHANGED <<sessionVars, endVars, requestVars, socket, history>>

\* credentialsFor copies the password, or the request fails.
Copy(r) ==
  /\ pc[r] = "authed" /\ sid[r] \in held
  /\ pc' = [pc EXCEPT ![r] = "creds"]
  /\ UNCHANGED <<sessionVars, endVars, sid, socket, views, history>>

\* Pool.withConn; the NOOP or the dial succeeds.
Connect(r) ==
  /\ pc[r] = "creds"
  /\ pc' = [pc EXCEPT ![r] = "conn"]
  /\ LET a == account[sid[r]]
     IN  \/ socket[a] # None /\ UNCHANGED socket
         \/ socket' = [socket EXCEPT ![a] = sid[r]]
  /\ UNCHANGED <<sessionVars, endVars, sid, views, history>>

\* withConn returns.  The handler may call it again.
Release(r) ==
  /\ pc[r] = "conn"
  /\ pc' = [pc EXCEPT ![r] = "creds"]
  /\ waitFor' = [s \in Sessions |-> waitFor[s] \ {r}]
  /\ UNCHANGED <<sessionVars, stage, swept, sid, socket, views, history>>

Done(r) ==
  /\ pc[r] \in {"authed", "creds"}
  /\ pc' = [pc EXCEPT ![r] = "idle"]
  /\ sid' = [sid EXCEPT ![r] = None]
  /\ UNCHANGED <<sessionVars, endVars, socket, views, history>>

-----------------------------------------------------------------------------
(* endDirectSession, after the session left the store.                     *)

\* views.forget(cl.VID), the last a sign-out does.  (Mutant: by session id.)
BySessionId(s) == views
ByViewId(s)    == views \ {s}

ForgetView(s) ==
  /\ views' = ByViewId(s)
  /\ Overtake(s)
  /\ signedOut' = signedOut \cup {s}

\* handleLogout.  With the session gone only the view is left to forget.
Logout(s) ==
  /\ s \in cookies
  /\ Remove(s)
  /\ IF s \in live THEN UNCHANGED <<views, overlap, signedOut>>
                    ELSE ForgetView(s)
  /\ cookies' = cookies \ {s}
  /\ UNCHANGED <<account, held, expired, signing, swept, waitFor, requestVars,
                 socket, readOut>>

\* One tick of sweepDirectSessions: the sweeper is one goroutine, and ends the
\* sessions it took out one after the other.
Sweep ==
  /\ live \cap expired # {}
  /\ \A s \in swept : stage[s] = "none"
  /\ swept' = live \cap expired
  /\ live' = live \ expired
  /\ stage' = [s \in Sessions |-> IF s \in swept' THEN "queued" ELSE stage[s]]
  /\ UNCHANGED <<account, held, expired, cookies, signing, waitFor, requestVars,
                 socket, views, history>>

SweepNext(s) ==
  /\ stage[s] = "queued"
  /\ \A t \in swept : stage[t] \in {"queued", "none"}
  /\ stage' = [stage EXCEPT ![s] = "drop"]
  /\ UNCHANGED <<sessionVars, swept, waitFor, requestVars, socket, views, history>>

\* What Drop leaves in the pool.  (Mutant: the connection.)
LeftPooled(s) == socket[account[s]]
AfterDrop(s)  == None

\* Requests on the connection the pool has for the mailbox of s.
Users(s) ==
  {r \in Requests : /\ pc[r] = "conn" /\ account[sid[r]] = account[s]
                    /\ \A t \in Sessions : r \notin waitFor[t]}

\* views.forget(sess.id) comes first and finds nothing: the views are kept by
\* VID.  Then Pool.Drop takes the connection, if there is one, out of the pool.
Drop(s) ==
  /\ stage[s] = "drop"
  /\ \/ /\ socket[account[s]] # None
        /\ waitFor' = [waitFor EXCEPT ![s] = Users(s)]
        /\ stage' = [stage EXCEPT ![s] = "wait"]
     \/ /\ socket[account[s]] = None
        /\ stage' = [stage EXCEPT ![s] = "wipe"]
        /\ UNCHANGED waitFor
  /\ socket' = [socket EXCEPT ![account[s]] = AfterDrop(s)]
  /\ Overtake(s)
  /\ UNCHANGED <<sessionVars, swept, requestVars, views, readOut, signedOut>>

\* Drop has the connection to itself, logs out of it and closes it.
Dropped(s) ==
  /\ stage[s] = "wait" /\ waitFor[s] = {}
  /\ stage' = [stage EXCEPT ![s] = "wipe"]
  /\ UNCHANGED <<sessionVars, swept, waitFor, requestVars, socket, views, history>>

\* wipePassword; a sign-out goes on to forget the view.
WipePassword(s) ==
  /\ stage[s] = "wipe"
  /\ held' = held \ {s}
  /\ stage' = [stage EXCEPT ![s] = IF s \in swept THEN "none" ELSE "forget"]
  /\ UNCHANGED <<account, live, expired, cookies, signing, swept, waitFor,
                 requestVars, socket, views, history>>

\* A refused sign-in has no view to forget.
Forget(s) ==
  /\ stage[s] = "forget"
  /\ ForgetView(s)
  /\ stage' = [stage EXCEPT ![s] = "none"]
  /\ UNCHANGED <<sessionVars, swept, waitFor, requestVars, socket, readOut>>

-----------------------------------------------------------------------------
(* The clock, sweepViewState, the pool's reaper, and a restart, which the  *)
(* cookies survive.                                                        *)

Expire(s) ==
  /\ s \in live \ expired
  /\ expired' = expired \cup {s}
  /\ UNCHANGED <<account, live, held, cookies, signing, endVars, requestVars,
                 socket, views, history>>

\* Untouched for longer than any session lasts.
SweepView(s) ==
  /\ s \in views \ live
  /\ views' = views \ {s}
  /\ UNCHANGED <<sessionVars, endVars, requestVars, socket, history>>

\* reap, a server that hangs up, or a connection error.
Close(a) ==
  /\ socket[a] # None
  /\ socket' = [socket EXCEPT ![a] = None]
  /\ UNCHANGED <<sessionVars, endVars, requestVars, views, history>>

Restart ==
  /\ live \cup held # {}
  /\ live' = {} /\ held' = {} /\ signing' = {} /\ views' = {} /\ swept' = {}
  /\ stage' = [s \in Sessions |-> "none"]
  /\ waitFor' = [s \in Sessions |-> {}]
  /\ pc' = [r \in Requests |-> "idle"]
  /\ sid' = [r \in Requests |-> None]
  /\ socket' = [a \in Accounts |-> None]
  /\ UNCHANGED <<account, expired, cookies, history>>

-----------------------------------------------------------------------------
SignIn(s)   == (\E a \in Accounts : Start(s, a)) \/ Issue(s) \/ Refuse(s)
Request(r)  == \/ \E s \in Sessions : Get(r, s)
               \/ Navigate(r) \/ Copy(r) \/ Connect(r) \/ Release(r) \/ Done(r)
End(s)      == Drop(s) \/ Dropped(s) \/ WipePassword(s) \/ Forget(s)

Next ==
  \/ \E s \in Sessions : SignIn(s) \/ Logout(s) \/ SweepNext(s) \/ End(s)
                            \/ Expire(s) \/ SweepView(s)
  \/ \E r \in Requests : Request(r)
  \/ Sweep
  \/ \E a \in Accounts : Close(a)
  \/ Restart

Spec == Init /\ [][Next]_vars

\* Handlers and the sweeper run on; a server outside Hung answers.
Fairness ==
  /\ WF_vars(Sweep)
  /\ \A s \in Sessions :
       /\ WF_vars(SweepNext(s)) /\ WF_vars(Issue(s) \/ Refuse(s))
       /\ WF_vars(End(s) /\ (stage[s] = "wait" => account[s] \notin Hung))
  /\ \A r \in Requests : WF_vars(Release(r) /\ account[sid[r]] \notin Hung)

FairSpec == Spec /\ Fairness

-----------------------------------------------------------------------------
(* Properties.                                                             *)

Ending(s) == stage[s] \in {"queued", "drop", "wait", "wipe"}

\* A password is in memory only while its session is in the store or somebody
\* is busy ending it: no way of refusing, expiring or ending a session leaves
\* one behind (handlers.go:3749-3755).
PasswordOnlyInStore == held \subseteq live \cup {s \in Sessions : Ending(s)}

\* "The pooled IMAP connection goes with it": a connection in the pool was
\* opened by a session that has not ended, but for sessions get found expired,
\* and for requests that had their session, or a copy of its password, as Drop
\* ran.
SocketOnlyByOverlap ==
  \A a \in Accounts : socket[a] # None =>
    \/ socket[a] \in live \cup readOut \cup overlap
    \/ stage[socket[a]] \in {"queued", "drop"}

\* Every password is erased once its session has expired, with nobody there
\* to sign out, if the mail servers answer.
ErasedInTheEnd == \A s \in Sessions : (s \in expired) ~> (s \notin held)

\* "Signing out actually forgets where you were": no view outlives a finished
\* sign-out, but for one that met a request of its session, whose updateView
\* makes the view again.
ForgottenUnlessBusy == signedOut \cap views \subseteq overlap
=============================================================================
