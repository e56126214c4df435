------------------------ MODULE DirectSessionsProofs ------------------------
(***************************************************************************)
(* Proofs about DirectSessions, for every set of sessions, mailboxes and   *)
(* requests: what is in memory after a session has ended, and why.         *)
(***************************************************************************)
EXTENDS DirectSessions, TLAPS

\* Only a session that has left the store is being ended, and a request, once
\* past requireAuth, belongs to a session that has a mailbox.
Shape ==
  /\ \A s \in Sessions : stage[s] # "none" => s \notin live
  /\ \A r \in Requests :
       /\ pc[r] # "idle" <=> sid[r] # None
       /\ sid[r] # None => account[sid[r]] \in Accounts
  /\ \A s \in Sessions :
       (s \in live \/ stage[s] # "none") => account[s] \in Accounts

\* A socket is in the pool under the mailbox of the session that opened it.
Filed == \A a \in Accounts : socket[a] # None => account[socket[a]] = a

\* A request that can still dial belongs to a session that is in the store,
\* or whose Drop is yet to come, or which is on record as outlived.
Serving ==
  \A r \in Requests : sid[r] # None =>
    \/ sid[r] \in live \cup readOut \cup overlap
    \/ stage[sid[r]] \in {"queued", "drop"}

\* A finished sign-out was of a session out of the store, and the requests it
\* met are on record.
SignedOut ==
  \A s \in signedOut :
    /\ s \notin live
    /\ \A r \in Requests : sid[r] = s => s \in overlap

IInv ==
  /\ TypeOK /\ Shape /\ Filed /\ Serving /\ SignedOut
  /\ PasswordOnlyInStore /\ SocketOnlyByOverlap /\ ForgottenUnlessBusy

-----------------------------------------------------------------------------

LEMMA InitIInv == Init => IInv
  BY NoneAssumption
  DEF Init, IInv, TypeOK, Shape, Filed, Serving, SignedOut, Stage, RequestPC,
      PasswordOnlyInStore, SocketOnlyByOverlap, ForgottenUnlessBusy, Ending

LEMMA TypeStep == TypeOK /\ Shape /\ [Next]_vars => TypeOK'
<1> SUFFICES ASSUME TypeOK /\ Shape, [Next]_vars PROVE TypeOK'
  OBVIOUS
<1> USE NoneAssumption DEF TypeOK, Shape, Stage, RequestPC, sessionVars,
     endVars, requestVars, history
<1>1. ASSUME NEW s \in Sessions, NEW a \in Accounts, Start(s, a) PROVE TypeOK'
  BY <1>1 DEF Start, Unused
<1>2. ASSUME NEW s \in Sessions, Issue(s) PROVE TypeOK'
  BY <1>2 DEF Issue
<1>3. ASSUME NEW s \in Sessions, Refuse(s) PROVE TypeOK'
  BY <1>3 DEF Refuse, GiveUp, Remove
<1>4. ASSUME NEW r \in Requests, NEW s \in Sessions, Get(r, s) PROVE TypeOK'
  BY <1>4 DEF Get, Wipe
<1>5. ASSUME NEW r \in Requests, Navigate(r) PROVE TypeOK'
  BY <1>5 DEF Navigate
<1>6. ASSUME NEW r \in Requests, Copy(r) PROVE TypeOK'
  BY <1>6 DEF Copy
<1>7. ASSUME NEW r \in Requests, Connect(r) PROVE TypeOK'
  BY <1>7 DEF Connect
<1>8. ASSUME NEW r \in Requests, Release(r) PROVE TypeOK'
  BY <1>8 DEF Release
<1>9. ASSUME NEW r \in Requests, Done(r) PROVE TypeOK'
  BY <1>9 DEF Done
<1>10. ASSUME NEW s \in Sessions, Logout(s) PROVE TypeOK'
  BY <1>10 DEF Logout, Remove, ForgetView, ByViewId, Overtake
<1>11. CASE Sweep
  BY <1>11 DEF Sweep
<1>12. ASSUME NEW s \in Sessions, SweepNext(s) PROVE TypeOK'
  BY <1>12 DEF SweepNext
<1>13. ASSUME NEW s \in Sessions, Drop(s) PROVE TypeOK'
  BY <1>13 DEF Drop, AfterDrop, Overtake, Users
<1>14. ASSUME NEW s \in Sessions, Dropped(s) PROVE TypeOK'
  BY <1>14 DEF Dropped
<1>15. ASSUME NEW s \in Sessions, WipePassword(s) PROVE TypeOK'
  BY <1>15 DEF WipePassword
<1>16. ASSUME NEW s \in Sessions, Forget(s) PROVE TypeOK'
  BY <1>16 DEF Forget, ForgetView, ByViewId, Overtake
<1>17. ASSUME NEW s \in Sessions, Expire(s) PROVE TypeOK'
  BY <1>17 DEF Expire
<1>18. ASSUME NEW s \in Sessions, SweepView(s) PROVE TypeOK'
  BY <1>18 DEF SweepView
<1>19. ASSUME NEW a \in Accounts, Close(a) PROVE TypeOK'
  BY <1>19 DEF Close
<1>20. CASE Restart
  BY <1>20 DEF Restart
<1>21. CASE UNCHANGED vars
  BY <1>21 DEF vars
<1>22. QED
  BY <1>1, <1>2, <1>3, <1>4, <1>5, <1>6, <1>7, <1>8, <1>9, <1>10, <1>11, <1>12,
       <1>13, <1>14, <1>15, <1>16, <1>17, <1>18, <1>19, <1>20, <1>21 DEF Next,
       SignIn, Request, End

LEMMA ShapeStep == TypeOK /\ Shape /\ [Next]_vars => Shape'
<1> SUFFICES ASSUME TypeOK /\ Shape, [Next]_vars PROVE Shape'
  OBVIOUS
<1> USE NoneAssumption DEF TypeOK, Shape, sessionVars, endVars, requestVars,
     history
<1>1. ASSUME NEW s \in Sessions, NEW a \in Accounts, Start(s, a) PROVE Shape'
  BY <1>1 DEF Start, Unused
<1>2. ASSUME NEW s \in Sessions, Issue(s) PROVE Shape'
  BY <1>2 DEF Issue
<1>3. ASSUME NEW s \in Sessions, Refuse(s) PROVE Shape'
  BY <1>3 DEF Refuse, GiveUp, Remove
<1>4. ASSUME NEW r \in Requests, NEW s \in Sessions, Get(r, s) PROVE Shape'
  BY <1>4 DEF Get, Wipe
<1>5. ASSUME NEW r \in Requests, Navigate(r) PROVE Shape'
  BY <1>5 DEF Navigate
<1>6. ASSUME NEW r \in Requests, Copy(r) PROVE Shape'
  BY <1>6 DEF Copy
<1>7. ASSUME NEW r \in Requests, Connect(r) PROVE Shape'
  BY <1>7 DEF Connect
<1>8. ASSUME NEW r \in Requests, Release(r) PROVE Shape'
  BY <1>8 DEF Release
<1>9. ASSUME NEW r \in Requests, Done(r) PROVE Shape'
  BY <1>9 DEF Done
<1>10. ASSUME NEW s \in Sessions, Logout(s) PROVE Shape'
  BY <1>10 DEF Logout, Remove, ForgetView, ByViewId, Overtake
<1>11. CASE Sweep
  BY <1>11 DEF Sweep
<1>12. ASSUME NEW s \in Sessions, SweepNext(s) PROVE Shape'
  BY <1>12 DEF SweepNext
<1>13. ASSUME NEW s \in Sessions, Drop(s) PROVE Shape'
  BY <1>13 DEF Drop, AfterDrop, Overtake, Users
<1>14. ASSUME NEW s \in Sessions, Dropped(s) PROVE Shape'
  BY <1>14 DEF Dropped
<1>15. ASSUME NEW s \in Sessions, WipePassword(s) PROVE Shape'
  BY <1>15 DEF WipePassword
<1>16. ASSUME NEW s \in Sessions, Forget(s) PROVE Shape'
  BY <1>16 DEF Forget, ForgetView, ByViewId, Overtake
<1>17. ASSUME NEW s \in Sessions, Expire(s) PROVE Shape'
  BY <1>17 DEF Expire
<1>18. ASSUME NEW s \in Sessions, SweepView(s) PROVE Shape'
  BY <1>18 DEF SweepView
<1>19. ASSUME NEW a \in Accounts, Close(a) PROVE Shape'
  BY <1>19 DEF Close
<1>20. CASE Restart
  BY <1>20 DEF Restart
<1>21. CASE UNCHANGED vars
  BY <1>21 DEF vars
<1>22. QED
  BY <1>1, <1>2, <1>3, <1>4, <1>5, <1>6, <1>7, <1>8, <1>9, <1>10, <1>11, <1>12,
       <1>13, <1>14, <1>15, <1>16, <1>17, <1>18, <1>19, <1>20, <1>21 DEF Next,
       SignIn, Request, End

\* Connect files the socket under its session; Start only renames one that
\* has no socket.
LEMMA FiledStep == TypeOK /\ Shape /\ Filed /\ [Next]_vars => Filed'
<1> SUFFICES ASSUME TypeOK /\ Shape /\ Filed, [Next]_vars PROVE Filed'
  OBVIOUS
<1> USE NoneAssumption DEF TypeOK, Shape, Filed, sessionVars, endVars,
     requestVars, history
<1>1. ASSUME NEW s \in Sessions, NEW a \in Accounts, Start(s, a) PROVE Filed'
  BY <1>1 DEF Start, Unused
<1>2. ASSUME NEW s \in Sessions, Issue(s) PROVE Filed'
  BY <1>2 DEF Issue
<1>3. ASSUME NEW s \in Sessions, Refuse(s) PROVE Filed'
  BY <1>3 DEF Refuse, GiveUp, Remove
<1>4. ASSUME NEW r \in Requests, NEW s \in Sessions, Get(r, s) PROVE Filed'
  BY <1>4 DEF Get, Wipe
<1>5. ASSUME NEW r \in Requests, Navigate(r) PROVE Filed'
  BY <1>5 DEF Navigate
<1>6. ASSUME NEW r \in Requests, Copy(r) PROVE Filed'
  BY <1>6 DEF Copy
<1>7. ASSUME NEW r \in Requests, Connect(r) PROVE Filed'
  BY <1>7 DEF Connect
<1>8. ASSUME NEW r \in Requests, Release(r) PROVE Filed'
  BY <1>8 DEF Release
<1>9. ASSUME NEW r \in Requests, Done(r) PROVE Filed'
  BY <1>9 DEF Done
<1>10. ASSUME NEW s \in Sessions, Logout(s) PROVE Filed'
  BY <1>10 DEF Logout, Remove, ForgetView, ByViewId, Overtake
<1>11. CASE Sweep
  BY <1>11 DEF Sweep
<1>12. ASSUME NEW s \in Sessions, SweepNext(s) PROVE Filed'
  BY <1>12 DEF SweepNext
<1>13. ASSUME NEW s \in Sessions, Drop(s) PROVE Filed'
  BY <1>13 DEF Drop, AfterDrop, Overtake, Users
<1>14. ASSUME NEW s \in Sessions, Dropped(s) PROVE Filed'
  BY <1>14 DEF Dropped
<1>15. ASSUME NEW s \in Sessions, WipePassword(s) PROVE Filed'
  BY <1>15 DEF WipePassword
<1>16. ASSUME NEW s \in Sessions, Forget(s) PROVE Filed'
  BY <1>16 DEF Forget, ForgetView, ByViewId, Overtake
<1>17. ASSUME NEW s \in Sessions, Expire(s) PROVE Filed'
  BY <1>17 DEF Expire
<1>18. ASSUME NEW s \in Sessions, SweepView(s) PROVE Filed'
  BY <1>18 DEF SweepView
<1>19. ASSUME NEW a \in Accounts, Close(a) PROVE Filed'
  BY <1>19 DEF Close
<1>20. CASE Restart
  BY <1>20 DEF Restart
<1>21. CASE UNCHANGED vars
  BY <1>21 DEF vars
<1>22. QED
  BY <1>1, <1>2, <1>3, <1>4, <1>5, <1>6, <1>7, <1>8, <1>9, <1>10, <1>11, <1>12,
       <1>13, <1>14, <1>15, <1>16, <1>17, <1>18, <1>19, <1>20, <1>21 DEF Next,
       SignIn, Request, End

\* Whatever ends a session while it is being served puts that on record.
LEMMA ServingStep == TypeOK /\ Shape /\ Serving /\ [Next]_vars => Serving'
<1> SUFFICES ASSUME TypeOK /\ Shape /\ Serving, [Next]_vars PROVE Serving'
  OBVIOUS
<1> USE NoneAssumption DEF TypeOK, Shape, Serving, sessionVars, endVars,
     requestVars, history
<1>1. ASSUME NEW s \in Sessions, NEW a \in Accounts, Start(s, a) PROVE Serving'
  BY <1>1 DEF Start, Unused
<1>2. ASSUME NEW s \in Sessions, Issue(s) PROVE Serving'
  BY <1>2 DEF Issue
<1>3. ASSUME NEW s \in Sessions, Refuse(s) PROVE Serving'
  BY <1>3 DEF Refuse, GiveUp, Remove
<1>4. ASSUME NEW r \in Requests, NEW s \in Sessions, Get(r, s) PROVE Serving'
  BY <1>4 DEF Get, Wipe
<1>5. ASSUME NEW r \in Requests, Navigate(r) PROVE Serving'
  BY <1>5 DEF Navigate
<1>6. ASSUME NEW r \in Requests, Copy(r) PROVE Serving'
  BY <1>6 DEF Copy
<1>7. ASSUME NEW r \in Requests, Connect(r) PROVE Serving'
  BY <1>7 DEF Connect
<1>8. ASSUME NEW r \in Requests, Release(r) PROVE Serving'
  BY <1>8 DEF Release
<1>9. ASSUME NEW r \in Requests, Done(r) PROVE Serving'
  BY <1>9 DEF Done
<1>10. ASSUME NEW s \in Sessions, Logout(s) PROVE Serving'
  BY <1>10 DEF Logout, Remove, ForgetView, ByViewId, Overtake
<1>11. CASE Sweep
  BY <1>11 DEF Sweep
<1>12. ASSUME NEW s \in Sessions, SweepNext(s) PROVE Serving'
  BY <1>12 DEF SweepNext
<1>13. ASSUME NEW s \in Sessions, Drop(s) PROVE Serving'
  BY <1>13 DEF Drop, AfterDrop, Overtake, Users
<1>14. ASSUME NEW s \in Sessions, Dropped(s) PROVE Serving'
  BY <1>14 DEF Dropped
<1>15. ASSUME NEW s \in Sessions, WipePassword(s) PROVE Serving'
  BY <1>15 DEF WipePassword
<1>16. ASSUME NEW s \in Sessions, Forget(s) PROVE Serving'
  BY <1>16 DEF Forget, ForgetView, ByViewId, Overtake
<1>17. ASSUME NEW s \in Sessions, Expire(s) PROVE Serving'
  BY <1>17 DEF Expire
<1>18. ASSUME NEW s \in Sessions, SweepView(s) PROVE Serving'
  BY <1>18 DEF SweepView
<1>19. ASSUME NEW a \in Accounts, Close(a) PROVE Serving'
  BY <1>19 DEF Close
<1>20. CASE Restart
  BY <1>20 DEF Restart
<1>21. CASE UNCHANGED vars
  BY <1>21 DEF vars
<1>22. QED
  BY <1>1, <1>2, <1>3, <1>4, <1>5, <1>6, <1>7, <1>8, <1>9, <1>10, <1>11, <1>12,
       <1>13, <1>14, <1>15, <1>16, <1>17, <1>18, <1>19, <1>20, <1>21 DEF Next,
       SignIn, Request, End

LEMMA SignedOutStep == TypeOK /\ Shape /\ SignedOut /\ [Next]_vars =>
     SignedOut'
<1> SUFFICES ASSUME TypeOK /\ Shape /\ SignedOut, [Next]_vars PROVE SignedOut'
  OBVIOUS
<1> USE NoneAssumption DEF TypeOK, Shape, SignedOut, sessionVars, endVars,
     requestVars, history
<1>1. ASSUME NEW s \in Sessions, NEW a \in Accounts, Start(s, a) PROVE
     SignedOut'
  BY <1>1 DEF Start, Unused
<1>2. ASSUME NEW s \in Sessions, Issue(s) PROVE SignedOut'
  BY <1>2 DEF Issue
<1>3. ASSUME NEW s \in Sessions, Refuse(s) PROVE SignedOut'
  BY <1>3 DEF Refuse, GiveUp, Remove
<1>4. ASSUME NEW r \in Requests, NEW s \in Sessions, Get(r, s) PROVE SignedOut'
  BY <1>4 DEF Get, Wipe
<1>5. ASSUME NEW r \in Requests, Navigate(r) PROVE SignedOut'
  BY <1>5 DEF Navigate
<1>6. ASSUME NEW r \in Requests, Copy(r) PROVE SignedOut'
  BY <1>6 DEF Copy
<1>7. ASSUME NEW r \in Requests, Connect(r) PROVE SignedOut'
  BY <1>7 DEF Connect
<1>8. ASSUME NEW r \in Requests, Release(r) PROVE SignedOut'
  BY <1>8 DEF Release
<1>9. ASSUME NEW r \in Requests, Done(r) PROVE SignedOut'
  BY <1>9 DEF Done
<1>10. ASSUME NEW s \in Sessions, Logout(s) PROVE SignedOut'
  BY <1>10 DEF Logout, Remove, ForgetView, ByViewId, Overtake
<1>11. CASE Sweep
  BY <1>11 DEF Sweep
<1>12. ASSUME NEW s \in Sessions, SweepNext(s) PROVE SignedOut'
  BY <1>12 DEF SweepNext
<1>13. ASSUME NEW s \in Sessions, Drop(s) PROVE SignedOut'
  BY <1>13 DEF Drop, AfterDrop, Overtake, Users
<1>14. ASSUME NEW s \in Sessions, Dropped(s) PROVE SignedOut'
  BY <1>14 DEF Dropped
<1>15. ASSUME NEW s \in Sessions, WipePassword(s) PROVE SignedOut'
  BY <1>15 DEF WipePassword
<1>16. ASSUME NEW s \in Sessions, Forget(s) PROVE SignedOut'
  BY <1>16 DEF Forget, ForgetView, ByViewId, Overtake
<1>17. ASSUME NEW s \in Sessions, Expire(s) PROVE SignedOut'
  BY <1>17 DEF Expire
<1>18. ASSUME NEW s \in Sessions, SweepView(s) PROVE SignedOut'
  BY <1>18 DEF SweepView
<1>19. ASSUME NEW a \in Accounts, Close(a) PROVE SignedOut'
  BY <1>19 DEF Close
<1>20. CASE Restart
  BY <1>20 DEF Restart
<1>21. CASE UNCHANGED vars
  BY <1>21 DEF vars
<1>22. QED
  BY <1>1, <1>2, <1>3, <1>4, <1>5, <1>6, <1>7, <1>8, <1>9, <1>10, <1>11, <1>12,
       <1>13, <1>14, <1>15, <1>16, <1>17, <1>18, <1>19, <1>20, <1>21 DEF Next,
       SignIn, Request, End

\* Leaving the store starts the ending; only the wipe finishes it.
LEMMA PasswordStep == TypeOK /\ Shape /\ PasswordOnlyInStore /\ [Next]_vars =>
     PasswordOnlyInStore'
<1> SUFFICES ASSUME TypeOK /\ Shape /\ PasswordOnlyInStore, [Next]_vars PROVE
     PasswordOnlyInStore'
  OBVIOUS
<1> USE NoneAssumption DEF TypeOK, Shape, PasswordOnlyInStore, Ending,
     sessionVars, endVars, requestVars, history
<1>1. ASSUME NEW s \in Sessions, NEW a \in Accounts, Start(s, a) PROVE
     PasswordOnlyInStore'
  BY <1>1 DEF Start, Unused
<1>2. ASSUME NEW s \in Sessions, Issue(s) PROVE PasswordOnlyInStore'
  BY <1>2 DEF Issue
<1>3. ASSUME NEW s \in Sessions, Refuse(s) PROVE PasswordOnlyInStore'
  BY <1>3 DEF Refuse, GiveUp, Remove
<1>4. ASSUME NEW r \in Requests, NEW s \in Sessions, Get(r, s) PROVE
     PasswordOnlyInStore'
  BY <1>4 DEF Get, Wipe
<1>5. ASSUME NEW r \in Requests, Navigate(r) PROVE PasswordOnlyInStore'
  BY <1>5 DEF Navigate
<1>6. ASSUME NEW r \in Requests, Copy(r) PROVE PasswordOnlyInStore'
  BY <1>6 DEF Copy
<1>7. ASSUME NEW r \in Requests, Connect(r) PROVE PasswordOnlyInStore'
  BY <1>7 DEF Connect
<1>8. ASSUME NEW r \in Requests, Release(r) PROVE PasswordOnlyInStore'
  BY <1>8 DEF Release
<1>9. ASSUME NEW r \in Requests, Done(r) PROVE PasswordOnlyInStore'
  BY <1>9 DEF Done
<1>10. ASSUME NEW s \in Sessions, Logout(s) PROVE PasswordOnlyInStore'
  BY <1>10 DEF Logout, Remove, ForgetView, ByViewId, Overtake
<1>11. CASE Sweep
  BY <1>11 DEF Sweep
<1>12. ASSUME NEW s \in Sessions, SweepNext(s) PROVE PasswordOnlyInStore'
  BY <1>12 DEF SweepNext
<1>13. ASSUME NEW s \in Sessions, Drop(s) PROVE PasswordOnlyInStore'
  BY <1>13 DEF Drop, AfterDrop, Overtake, Users
<1>14. ASSUME NEW s \in Sessions, Dropped(s) PROVE PasswordOnlyInStore'
  BY <1>14 DEF Dropped
<1>15. ASSUME NEW s \in Sessions, WipePassword(s) PROVE PasswordOnlyInStore'
  BY <1>15 DEF WipePassword
<1>16. ASSUME NEW s \in Sessions, Forget(s) PROVE PasswordOnlyInStore'
  BY <1>16 DEF Forget, ForgetView, ByViewId, Overtake
<1>17. ASSUME NEW s \in Sessions, Expire(s) PROVE PasswordOnlyInStore'
  BY <1>17 DEF Expire
<1>18. ASSUME NEW s \in Sessions, SweepView(s) PROVE PasswordOnlyInStore'
  BY <1>18 DEF SweepView
<1>19. ASSUME NEW a \in Accounts, Close(a) PROVE PasswordOnlyInStore'
  BY <1>19 DEF Close
<1>20. CASE Restart
  BY <1>20 DEF Restart
<1>21. CASE UNCHANGED vars
  BY <1>21 DEF vars
<1>22. QED
  BY <1>1, <1>2, <1>3, <1>4, <1>5, <1>6, <1>7, <1>8, <1>9, <1>10, <1>11, <1>12,
       <1>13, <1>14, <1>15, <1>16, <1>17, <1>18, <1>19, <1>20, <1>21 DEF Next,
       SignIn, Request, End

\* Drop unlinks the socket of its session, so one that outlives Drop was
\* opened afterwards, by a request on record.
LEMMA SocketStep == TypeOK /\ Shape /\ Filed /\ Serving /\ SocketOnlyByOverlap
     /\ [Next]_vars => SocketOnlyByOverlap'
<1> SUFFICES ASSUME TypeOK /\ Shape /\ Filed /\ Serving /\ SocketOnlyByOverlap,
     [Next]_vars PROVE SocketOnlyByOverlap'
  OBVIOUS
<1> USE NoneAssumption DEF TypeOK, Shape, Filed, Serving, SocketOnlyByOverlap,
     sessionVars, endVars, requestVars, history
<1>1. ASSUME NEW s \in Sessions, NEW a \in Accounts, Start(s, a) PROVE
     SocketOnlyByOverlap'
  BY <1>1 DEF Start, Unused
<1>2. ASSUME NEW s \in Sessions, Issue(s) PROVE SocketOnlyByOverlap'
  BY <1>2 DEF Issue
<1>3. ASSUME NEW s \in Sessions, Refuse(s) PROVE SocketOnlyByOverlap'
  BY <1>3 DEF Refuse, GiveUp, Remove
<1>4. ASSUME NEW r \in Requests, NEW s \in Sessions, Get(r, s) PROVE
     SocketOnlyByOverlap'
  BY <1>4 DEF Get, Wipe
<1>5. ASSUME NEW r \in Requests, Navigate(r) PROVE SocketOnlyByOverlap'
  BY <1>5 DEF Navigate
<1>6. ASSUME NEW r \in Requests, Copy(r) PROVE SocketOnlyByOverlap'
  BY <1>6 DEF Copy
<1>7. ASSUME NEW r \in Requests, Connect(r) PROVE SocketOnlyByOverlap'
  BY <1>7 DEF Connect
<1>8. ASSUME NEW r \in Requests, Release(r) PROVE SocketOnlyByOverlap'
  BY <1>8 DEF Release
<1>9. ASSUME NEW r \in Requests, Done(r) PROVE SocketOnlyByOverlap'
  BY <1>9 DEF Done
<1>10. ASSUME NEW s \in Sessions, Logout(s) PROVE SocketOnlyByOverlap'
  BY <1>10 DEF Logout, Remove, ForgetView, ByViewId, Overtake
<1>11. CASE Sweep
  BY <1>11 DEF Sweep
<1>12. ASSUME NEW s \in Sessions, SweepNext(s) PROVE SocketOnlyByOverlap'
  BY <1>12 DEF SweepNext
<1>13. ASSUME NEW s \in Sessions, Drop(s) PROVE SocketOnlyByOverlap'
  BY <1>13 DEF Drop, AfterDrop, Overtake, Users
<1>14. ASSUME NEW s \in Sessions, Dropped(s) PROVE SocketOnlyByOverlap'
  BY <1>14 DEF Dropped
<1>15. ASSUME NEW s \in Sessions, WipePassword(s) PROVE SocketOnlyByOverlap'
  BY <1>15 DEF WipePassword
<1>16. ASSUME NEW s \in Sessions, Forget(s) PROVE SocketOnlyByOverlap'
  BY <1>16 DEF Forget, ForgetView, ByViewId, Overtake
<1>17. ASSUME NEW s \in Sessions, Expire(s) PROVE SocketOnlyByOverlap'
  BY <1>17 DEF Expire
<1>18. ASSUME NEW s \in Sessions, SweepView(s) PROVE SocketOnlyByOverlap'
  BY <1>18 DEF SweepView
<1>19. ASSUME NEW a \in Accounts, Close(a) PROVE SocketOnlyByOverlap'
  BY <1>19 DEF Close
<1>20. CASE Restart
  BY <1>20 DEF Restart
<1>21. CASE UNCHANGED vars
  BY <1>21 DEF vars
<1>22. QED
  BY <1>1, <1>2, <1>3, <1>4, <1>5, <1>6, <1>7, <1>8, <1>9, <1>10, <1>11, <1>12,
       <1>13, <1>14, <1>15, <1>16, <1>17, <1>18, <1>19, <1>20, <1>21 DEF Next,
       SignIn, Request, End

LEMMA ForgottenStep == TypeOK /\ Shape /\ SignedOut /\ ForgottenUnlessBusy /\
     [Next]_vars => ForgottenUnlessBusy'
<1> SUFFICES ASSUME TypeOK /\ Shape /\ SignedOut /\ ForgottenUnlessBusy,
     [Next]_vars PROVE ForgottenUnlessBusy'
  OBVIOUS
<1> USE NoneAssumption DEF TypeOK, Shape, SignedOut, ForgottenUnlessBusy,
     sessionVars, endVars, requestVars, history
<1>1. ASSUME NEW s \in Sessions, NEW a \in Accounts, Start(s, a) PROVE
     ForgottenUnlessBusy'
  BY <1>1 DEF Start, Unused
<1>2. ASSUME NEW s \in Sessions, Issue(s) PROVE ForgottenUnlessBusy'
  BY <1>2 DEF Issue
<1>3. ASSUME NEW s \in Sessions, Refuse(s) PROVE ForgottenUnlessBusy'
  BY <1>3 DEF Refuse, GiveUp, Remove
<1>4. ASSUME NEW r \in Requests, NEW s \in Sessions, Get(r, s) PROVE
     ForgottenUnlessBusy'
  BY <1>4 DEF Get, Wipe
<1>5. ASSUME NEW r \in Requests, Navigate(r) PROVE ForgottenUnlessBusy'
  BY <1>5 DEF Navigate
<1>6. ASSUME NEW r \in Requests, Copy(r) PROVE ForgottenUnlessBusy'
  BY <1>6 DEF Copy
<1>7. ASSUME NEW r \in Requests, Connect(r) PROVE ForgottenUnlessBusy'
  BY <1>7 DEF Connect
<1>8. ASSUME NEW r \in Requests, Release(r) PROVE ForgottenUnlessBusy'
  BY <1>8 DEF Release
<1>9. ASSUME NEW r \in Requests, Done(r) PROVE ForgottenUnlessBusy'
  BY <1>9 DEF Done
<1>10. ASSUME NEW s \in Sessions, Logout(s) PROVE ForgottenUnlessBusy'
  BY <1>10 DEF Logout, Remove, ForgetView, ByViewId, Overtake
<1>11. CASE Sweep
  BY <1>11 DEF Sweep
<1>12. ASSUME NEW s \in Sessions, SweepNext(s) PROVE ForgottenUnlessBusy'
  BY <1>12 DEF SweepNext
<1>13. ASSUME NEW s \in Sessions, Drop(s) PROVE ForgottenUnlessBusy'
  BY <1>13 DEF Drop, AfterDrop, Overtake, Users
<1>14. ASSUME NEW s \in Sessions, Dropped(s) PROVE ForgottenUnlessBusy'
  BY <1>14 DEF Dropped
<1>15. ASSUME NEW s \in Sessions, WipePassword(s) PROVE ForgottenUnlessBusy'
  BY <1>15 DEF WipePassword
<1>16. ASSUME NEW s \in Sessions, Forget(s) PROVE ForgottenUnlessBusy'
  BY <1>16 DEF Forget, ForgetView, ByViewId, Overtake
<1>17. ASSUME NEW s \in Sessions, Expire(s) PROVE ForgottenUnlessBusy'
  BY <1>17 DEF Expire
<1>18. ASSUME NEW s \in Sessions, SweepView(s) PROVE ForgottenUnlessBusy'
  BY <1>18 DEF SweepView
<1>19. ASSUME NEW a \in Accounts, Close(a) PROVE ForgottenUnlessBusy'
  BY <1>19 DEF Close
<1>20. CASE Restart
  BY <1>20 DEF Restart
<1>21. CASE UNCHANGED vars
  BY <1>21 DEF vars
<1>22. QED
  BY <1>1, <1>2, <1>3, <1>4, <1>5, <1>6, <1>7, <1>8, <1>9, <1>10, <1>11, <1>12,
       <1>13, <1>14, <1>15, <1>16, <1>17, <1>18, <1>19, <1>20, <1>21 DEF Next,
       SignIn, Request, End

LEMMA IInvStep == IInv /\ [Next]_vars => IInv'
  BY TypeStep, ShapeStep, FiledStep, ServingStep, SignedOutStep, PasswordStep,
     SocketStep, ForgottenStep
  DEF IInv

\* The invariant holds in every state of every behaviour.
THEOREM SessionInvariant == Spec => []IInv
  BY InitIInv, IInvStep, PTL DEF Spec

-----------------------------------------------------------------------------

\* The variables keep their types.
THEOREM SessionTypes == Spec => []TypeOK
<1>1. IInv => TypeOK
  BY DEF IInv
<1> QED
  BY <1>1, SessionInvariant, PTL

\* No way of ending a session leaves its password behind (direct.go).
THEOREM PasswordTheorem == Spec => []PasswordOnlyInStore
<1>1. IInv => PasswordOnlyInStore
  BY DEF IInv
<1> QED
  BY <1>1, SessionInvariant, PTL

\* A pooled connection outlives its session only through a request that was
\* being served as the session ended, or through the expiry check of get.
THEOREM SocketTheorem == Spec => []SocketOnlyByOverlap
<1>1. IInv => SocketOnlyByOverlap
  BY DEF IInv
<1> QED
  BY <1>1, SessionInvariant, PTL

\* A view outlives a sign-out only through a request that was in flight.
THEOREM ForgottenTheorem == Spec => []ForgottenUnlessBusy
<1>1. IInv => ForgottenUnlessBusy
  BY DEF IInv
<1> QED
  BY <1>1, SessionInvariant, PTL
=============================================================================
