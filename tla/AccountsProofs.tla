--------------------------- MODULE AccountsProofs ---------------------------
(***************************************************************************)
(* Proofs about Accounts, for every set of names, passwords, browsers and  *)
(* configuration files, and however many accounts and secrets there are,   *)
(* and about the assistants, for any number of administrators.             *)
(***************************************************************************)
EXTENDS Accounts, Assistants, TLAPS

\* A row's number is the place of its creation, and nothing names an account
\* that is still to come.
Numbered(x) == x.birth = x.id /\ x.id <= created

Numbers ==
    /\ \A i \in Live : users[i].birth = i /\ i <= created
    /\ \A b \in Browsers : Numbered(cookie[b]) /\ Numbered(req[b])
    /\ Numbered(ctl)

Typed ==
    /\ Live \subseteq Ids
    /\ users \in [Live -> Row]
    /\ created \in 0 .. MaxId
    /\ secrets \in 0 .. MaxSecret
    /\ cookie \in [Browsers -> Cookie]
    /\ req \in [Browsers -> Req]
    /\ ctl \in Ctl
    /\ config \in Configs

-----------------------------------------------------------------------------

LEMMA TypedIsTypeOK == TypeOK <=> Typed
  BY DEF TypeOK, Typed, Live

LEMMA AnsweredType ==
    ASSUME NEW r \in [Browsers -> Req], NEW b \in Browsers
    PROVE  Answered(r, b) \in [Browsers -> Req]
  BY DEF Answered, Req, Idle, SuperNames

LEMMA MissedType ==
    ASSUME NEW r \in [Browsers -> Req], NEW i
    PROVE  /\ MissedPassword(r, i) \in [Browsers -> Req]
           /\ MissedCut(r, i) \in [Browsers -> Req]
<1>1. ASSUME NEW b \in Browsers
      PROVE  /\ [r[b] EXCEPT !.late = @ \/ r[b].id = i] \in Req
             /\ [r[b] EXCEPT !.cut = @ \/ r[b].id = i] \in Req
  <2>1. /\ r[b] \in Req
        /\ (r[b].late \/ r[b].id = i) \in BOOLEAN
        /\ (r[b].cut \/ r[b].id = i) \in BOOLEAN
    OBVIOUS
  <2>2. QED
    BY <2>1 DEF Req
<1>2. QED
  BY <1>1 DEF MissedPassword, MissedCut

LEMMA PasswordType ==
    ASSUME Typed, NEW i, NEW p \in Passwords
    PROVE  WithPassword(i, p) \in [Live -> Row]
<1>1. ASSUME NEW j \in Live
      PROVE  users[j] \in Row /\ [users[j] EXCEPT !.pw = p] \in Row
  BY DEF Typed, Row
<1>2. QED
  BY <1>1 DEF WithPassword

LEMMA ActiveType ==
    ASSUME Typed, NEW i, NEW on \in BOOLEAN
    PROVE  WithActive(i, on) \in [Live -> Row]
<1>1. ASSUME NEW j \in Live
      PROVE  users[j] \in Row /\ [users[j] EXCEPT !.active = on] \in Row
  BY DEF Typed, Row
<1>2. QED
  BY <1>1 DEF WithActive

LEMMA FactorType ==
    ASSUME Typed, NEW i, NEW s \in Secrets \union {0}
    PROVE  WithFactor(i, s) \in [Live -> Row]
<1>1. ASSUME NEW j \in Live
      PROVE  users[j] \in Row /\ [users[j] EXCEPT !.factor = s] \in Row
  BY DEF Typed, Row
<1>2. QED
  BY <1>1 DEF WithFactor

LEMMA WithoutType ==
    ASSUME Typed, NEW i
    PROVE  WithoutUser(i) \in [Live \ {i} -> Row]
  BY DEF WithoutUser, Typed

LEMMA TypeStep == Typed /\ [Next]_vars => Typed'
<1> SUFFICES ASSUME Typed, [Next]_vars PROVE Typed'
  OBVIOUS
<1> USE MaxIdAssumption, MaxSecretAssumption DEF Typed, Live
<1>1. ASSUME NEW b \in Browsers, NEW n \in Names, NEW p \in Passwords, NEW code
    \in BOOLEAN, SignIn(b, n, p, code) PROVE Typed'
  <2>1. PICK i \in Live :
          req' = [req EXCEPT ![b] = [Idle EXCEPT !.pc = "issue", !.id = i,
                                                 !.birth = users[i].birth]]
    BY <1>1 DEF SignIn, Called
  <2>2. [Idle EXCEPT !.pc = "issue", !.id = i, !.birth = users[i].birth] \in Req
    BY DEF Idle, Req, Row, SuperNames
  <2>3. QED
    BY <2>1, <2>2, <1>1 DEF SignIn
<1>2. ASSUME NEW b \in Browsers, Issue(b) PROVE Typed'
  BY <1>2, AnsweredType DEF Issue, Ids, SuperNames, Cookie, Req
<1>3. ASSUME NEW b \in Browsers, SuperSignIn(b) PROVE Typed'
  BY <1>3 DEF SuperSignIn, Ids, Secrets, SuperNames, Cookie, Req, NoCookie, Idle
<1>4. ASSUME NEW b \in Browsers, SignOut(b) PROVE Typed'
  BY <1>4 DEF SignOut, Ids, Secrets, SuperNames, Cookie, Req, NoCookie, Idle
<1>5. ASSUME NEW b \in Browsers, Open(b) PROVE Typed'
  BY <1>5 DEF Open, LetIn, Ids, Secrets, SuperNames, Cookie, Req, NoCookie, Idle,
      Row
<1>6. ASSUME NEW b \in Browsers, TurnAway(b) PROVE Typed'
  BY <1>6 DEF TurnAway, Ids, Secrets, SuperNames, Cookie, Req, NoCookie, Idle
<1>7. ASSUME NEW b \in Browsers, Answer(b) PROVE Typed'
  BY <1>7, AnsweredType DEF Answer
<1>8. ASSUME NEW b \in Browsers, NEW p \in Passwords, Prove(b, p) PROVE Typed'
  <2>1. CASE req' = Answered(req, b)
    BY <2>1, <1>8, AnsweredType DEF Prove
  <2>2. CASE req' = [req EXCEPT ![b].pc = "proved", ![b].pw = p, ![b].late = FALSE]
    <3>1. [req[b] EXCEPT !.pc = "proved", !.pw = p, !.late = FALSE] \in Req
      BY DEF Req
    <3>2. req' = [req EXCEPT ![b] =
                     [req[b] EXCEPT !.pc = "proved", !.pw = p, !.late = FALSE]]
      BY <2>2
    <3>3. req' \in [Browsers -> Req]
      BY <3>1, <3>2
    <3>4. QED
      BY <3>3, <1>8 DEF Prove
  <2>3. QED
    BY <2>1, <2>2, <1>8 DEF Prove
<1>9. ASSUME NEW b \in Browsers, NEW p \in Passwords, ChangePassword(b, p) PROVE
    Typed'
  BY <1>9, AnsweredType, MissedType, PasswordType DEF ChangePassword
<1>10. ASSUME NEW b \in Browsers, TotpEnable(b) PROVE Typed'
  <2>1. secrets + 1 \in Secrets /\ secrets' \in 0 .. MaxSecret
    BY <1>10 DEF TotpEnable, Secrets
  <2>2. QED
    BY <2>1, <1>10, AnsweredType, FactorType DEF TotpEnable
<1>11. ASSUME NEW b \in Browsers, TotpDisable(b) PROVE Typed'
  BY <1>11, AnsweredType, FactorType DEF TotpDisable, Secrets
<1>12. ASSUME NEW b \in Browsers, NEW i \in Ids, Target(b, i) PROVE Typed'
  BY <1>12 DEF Target, Named, Ids, Secrets, SuperNames, Cookie, Req, NoCookie,
      Idle, Row
<1>13. ASSUME NEW b \in Browsers, ShutSuperuser(b) PROVE Typed'
  BY <1>13 DEF ShutSuperuser, Ids, Secrets, SuperNames, Cookie, Req, NoCookie,
      Idle
<1>14. ASSUME NEW b \in Browsers, NEW n \in Names, NEW p \in Passwords, AddUser(b,
    n, p) PROVE Typed'
  BY <1>14 DEF AddUser, Insert, NewId, Row, Ids, Secrets
<1>15. ASSUME NEW b \in Browsers, NEW on \in BOOLEAN, SetActive(b, on) PROVE
    Typed'
  <2>1. users' \in [Live -> Row]
    BY <1>15, ActiveType DEF SetActive
  <2>2. req' \in [Browsers -> Req]
    BY <1>15, AnsweredType, MissedType DEF SetActive
  <2>3. QED
    BY <2>1, <2>2, <1>15 DEF SetActive
<1>16. ASSUME NEW b \in Browsers, NEW p \in Passwords, ResetPassword(b, p) PROVE
    Typed'
  BY <1>16, AnsweredType, MissedType, PasswordType DEF ResetPassword
<1>17. ASSUME NEW b \in Browsers, ClearTOTP(b) PROVE Typed'
  BY <1>17, AnsweredType, FactorType DEF ClearTOTP, Secrets
<1>18. ASSUME NEW b \in Browsers, RemoveUser(b) PROVE Typed'
  <2>1. users' \in [Live \ {req[b].id} -> Row]
    BY <1>18, WithoutType DEF RemoveUser
  <2>2. req' \in [Browsers -> Req]
    BY <1>18, AnsweredType, MissedType DEF RemoveUser
  <2>3. QED
    BY <2>1, <2>2, <1>18 DEF RemoveUser
<1>19. ASSUME NEW n \in Names, CtlLoad(n) PROVE Typed'
  BY <1>19 DEF CtlLoad, Called, Ctl, Row, Ids, Secrets
<1>20. ASSUME NEW n \in Names, NEW p \in Passwords, CtlAdd(n, p) PROVE Typed'
  BY <1>20 DEF CtlAdd, Insert, NewId, Row, Ids, Secrets
<1>21. CASE CtlCancel
  BY <1>21 DEF CtlCancel, Ctl, CtlIdle, Ids, Secrets
<1>22. CASE CtlRemove
  <2>1. users' \in [Live \ {ctl.id} -> Row]
    BY <1>22, WithoutType DEF CtlRemove
  <2>2. req' \in [Browsers -> Req]
    BY <1>22, MissedType DEF CtlRemove
  <2>3. QED
    BY <2>1, <2>2, <1>22 DEF CtlRemove, Ctl, CtlIdle
<1>23. CASE CtlTotpEnable
  <2>1. secrets + 1 \in Secrets /\ secrets' \in 0 .. MaxSecret
    BY <1>23 DEF CtlTotpEnable, Secrets
  <2>2. QED
    BY <2>1, <1>23, FactorType DEF CtlTotpEnable, Ctl, CtlIdle
<1>24. CASE CtlTotpDisable
  BY <1>24, FactorType DEF CtlTotpDisable, Ctl, CtlIdle, Ids, Secrets
<1>25. ASSUME NEW p \in Passwords, CtlPasswd(p) PROVE Typed'
  BY <1>25, MissedType, PasswordType DEF CtlPasswd, Ctl, CtlIdle, Ids, Secrets
<1>26. ASSUME NEW on \in BOOLEAN, CtlActive(on) PROVE Typed'
  <2>1. users' \in [Live -> Row]
    BY <1>26, ActiveType DEF CtlActive
  <2>2. req' \in [Browsers -> Req]
    BY <1>26, MissedType DEF CtlActive
  <2>3. QED
    BY <2>1, <2>2, <1>26 DEF CtlActive, Ctl, CtlIdle
<1>27. ASSUME NEW c \in Configs, NEW kept \in BOOLEAN, Restart(c, kept) PROVE
    Typed'
  BY <1>27 DEF Restart, Ids, Secrets, SuperNames, Cookie, Req, NoCookie, Idle
<1>28. CASE UNCHANGED vars
  BY <1>28 DEF vars
<1>29. QED
  BY <1>1, <1>2, <1>3, <1>4, <1>5, <1>6, <1>7, <1>8, <1>9, <1>10, <1>11, <1>12,
      <1>13, <1>14, <1>15, <1>16, <1>17, <1>18, <1>19, <1>20, <1>21, <1>22, <1>23,
      <1>24, <1>25, <1>26, <1>27, <1>28 DEF Next, Holder, Superuser, Operator

LEMMA AnsweredAt ==
    ASSUME NEW r \in [Browsers -> Req], NEW b \in Browsers, NEW c \in Browsers
    PROVE  Answered(r, b)[c] = IF c = b THEN Idle ELSE r[c]
  BY DEF Answered

\* Being on record changes nothing else about a request.
Same(x, y) ==
    /\ x.pc = y.pc /\ x.id = y.id /\ x.birth = y.birth
    /\ x.name = y.name /\ x.factor = y.factor /\ x.pw = y.pw

LEMMA MissedAt ==
    ASSUME NEW r \in [Browsers -> Req], NEW i, NEW c \in Browsers
    PROVE  /\ Same(MissedPassword(r, i)[c], r[c])
           /\ r[c].late \/ r[c].id = i => MissedPassword(r, i)[c].late
           /\ r[c].cut => MissedPassword(r, i)[c].cut
           /\ Same(MissedCut(r, i)[c], r[c])
           /\ r[c].cut \/ r[c].id = i => MissedCut(r, i)[c].cut
           /\ r[c].late => MissedCut(r, i)[c].late
  BY DEF MissedPassword, MissedCut, Same, Req

LEMMA MissedAnsweredAt ==
    ASSUME Typed, NEW b \in Browsers, NEW i, NEW c \in Browsers
    PROVE  /\ c = b => /\ Same(MissedPassword(Answered(req, b), i)[c], Idle)
                      /\ Same(MissedCut(Answered(req, b), i)[c], Idle)
           /\ c # b => /\ Same(MissedPassword(Answered(req, b), i)[c], req[c])
                      /\ Same(MissedCut(Answered(req, b), i)[c], req[c])
           /\ c # b => LET p == MissedPassword(Answered(req, b), i)[c]
                           q == MissedCut(Answered(req, b), i)[c]
                       IN /\ req[c].late \/ req[c].id = i => p.late
                          /\ req[c].cut => p.cut
                          /\ req[c].late => q.late
                          /\ req[c].cut \/ req[c].id = i => q.cut
<1>1. req \in [Browsers -> Req]
  BY DEF Typed
<1>2. /\ Answered(req, b) \in [Browsers -> Req]
      /\ Answered(req, b)[c] = IF c = b THEN Idle ELSE req[c]
  BY <1>1, AnsweredType, AnsweredAt
<1>3. CASE c = b
  BY <1>2, <1>3, MissedAt
<1>4. CASE c # b
  BY <1>2, <1>4, MissedAt
<1>5. QED
  BY <1>3, <1>4

LEMMA PasswordAt ==
    ASSUME Typed, NEW i, NEW p
    PROVE  /\ DOMAIN WithPassword(i, p) = Live
           /\ \A j \in Live :
                /\ WithPassword(i, p)[j].birth = users[j].birth
                /\ users[j].active => WithPassword(i, p)[j].active
                /\ WithPassword(i, p)[j].factor = users[j].factor
                /\ j # i => WithPassword(i, p)[j].pw = users[j].pw
  BY DEF WithPassword, Typed, Row

LEMMA ActiveAt ==
    ASSUME Typed, NEW i, NEW on
    PROVE  /\ DOMAIN WithActive(i, on) = Live
           /\ \A j \in Live :
                /\ WithActive(i, on)[j].birth = users[j].birth
                /\ WithActive(i, on)[j].pw = users[j].pw
                /\ WithActive(i, on)[j].factor = users[j].factor
                /\ j # i /\ users[j].active => WithActive(i, on)[j].active
  BY DEF WithActive, Typed, Row

LEMMA OnAt ==
    ASSUME Typed, NEW i, NEW on, on, NEW j \in Live, users[j].active
    PROVE  WithActive(i, on)[j].active
<1>1. on = TRUE \/ on # TRUE
  OBVIOUS
<1>2. WithActive(i, on)[j] = IF j = i THEN [users[j] EXCEPT !.active = on] ELSE users[j]
  BY DEF WithActive
<1>3. QED
  BY <1>2 DEF Typed, Row

LEMMA FactorAt ==
    ASSUME Typed, NEW i, NEW s
    PROVE  /\ DOMAIN WithFactor(i, s) = Live
           /\ \A j \in Live :
                /\ WithFactor(i, s)[j].birth = users[j].birth
                /\ WithFactor(i, s)[j].pw = users[j].pw
                /\ users[j].active => WithFactor(i, s)[j].active
                /\ WithFactor(i, s)[j].factor = IF j = i THEN s ELSE users[j].factor
  BY DEF WithFactor, Typed, Row

LEMMA WithoutAt ==
    ASSUME Typed, NEW i
    PROVE  /\ DOMAIN WithoutUser(i) = Live \ {i}
           /\ \A j \in Live \ {i} : WithoutUser(i)[j] = users[j]
  BY DEF WithoutUser, Typed

LEMMA InsertAt ==
    ASSUME Typed, Numbers, NEW n \in Names, NEW p \in Passwords, Insert(n, p)
    PROVE  /\ created + 1 \notin Live
           /\ Live' = Live \union {created + 1}
           /\ users'[created + 1].birth = created + 1
           /\ users'[created + 1].active
           /\ \A j \in Live : users'[j] = users[j]
           /\ created' = created + 1
  BY DEF Insert, NewId, Typed, Numbers, Live, Ids

LEMMA NumbersStep == Typed /\ Numbers /\ [Next]_vars => Numbers'
<1> SUFFICES ASSUME Typed /\ Numbers, [Next]_vars PROVE Numbers'
  OBVIOUS
<1> USE DEF Typed, Live, Numbers, Numbered, NoCookie, Idle, CtlIdle, Same
<1>1. ASSUME NEW b \in Browsers, NEW n \in Names, NEW p \in Passwords, NEW code
    \in BOOLEAN, SignIn(b, n, p, code) PROVE Numbers'
  BY <1>1 DEF SignIn, Called, Accepts
<1>2. ASSUME NEW b \in Browsers, Issue(b) PROVE Numbers'
  BY <1>2, AnsweredAt DEF Issue
<1>3. ASSUME NEW b \in Browsers, SuperSignIn(b) PROVE Numbers'
  BY <1>3 DEF SuperSignIn
<1>4. ASSUME NEW b \in Browsers, SignOut(b) PROVE Numbers'
  BY <1>4 DEF SignOut
<1>5. ASSUME NEW b \in Browsers, Open(b) PROVE Numbers'
  BY <1>5 DEF Open, LetIn
<1>6. ASSUME NEW b \in Browsers, TurnAway(b) PROVE Numbers'
  BY <1>6 DEF TurnAway
<1>7. ASSUME NEW b \in Browsers, Answer(b) PROVE Numbers'
  BY <1>7, AnsweredAt DEF Answer
<1>8. ASSUME NEW b \in Browsers, NEW p \in Passwords, Prove(b, p) PROVE Numbers'
  BY <1>8, AnsweredAt DEF Prove, Proves, Accepts
<1>9. ASSUME NEW b \in Browsers, NEW p \in Passwords, ChangePassword(b, p) PROVE
    Numbers'
  <2>1. \A i \in Live' : users'[i].birth = i /\ i <= created'
    BY <1>9, PasswordAt DEF ChangePassword
  <2>2. ASSUME NEW c \in Browsers PROVE Numbered(req[c])'
    BY <1>9, MissedAnsweredAt DEF ChangePassword
  <2>3. QED
    BY <2>1, <2>2, <1>9 DEF ChangePassword
<1>10. ASSUME NEW b \in Browsers, TotpEnable(b) PROVE Numbers'
  BY <1>10, AnsweredAt, FactorAt DEF TotpEnable, ReadOff
<1>11. ASSUME NEW b \in Browsers, TotpDisable(b) PROVE Numbers'
  BY <1>11, AnsweredAt, FactorAt DEF TotpDisable
<1>12. ASSUME NEW b \in Browsers, NEW i \in Ids, Target(b, i) PROVE Numbers'
  BY <1>12 DEF Target, Named
<1>13. ASSUME NEW b \in Browsers, ShutSuperuser(b) PROVE Numbers'
  BY <1>13 DEF ShutSuperuser
<1>14. ASSUME NEW b \in Browsers, NEW n \in Names, NEW p \in Passwords, AddUser(b,
    n, p) PROVE Numbers'
  BY <1>14, InsertAt DEF AddUser, Cookie, Req, Ctl, Ids
<1>15. ASSUME NEW b \in Browsers, NEW on \in BOOLEAN, SetActive(b, on) PROVE
    Numbers'
  <2>1. \A i \in Live' : users'[i].birth = i /\ i <= created'
    BY <1>15, ActiveAt DEF SetActive
  <2>2. ASSUME NEW c \in Browsers PROVE Numbered(req[c])'
    BY <1>15, AnsweredAt, MissedAnsweredAt DEF SetActive
  <2>3. QED
    BY <2>1, <2>2, <1>15 DEF SetActive
<1>16. ASSUME NEW b \in Browsers, NEW p \in Passwords, ResetPassword(b, p) PROVE
    Numbers'
  <2>1. \A i \in Live' : users'[i].birth = i /\ i <= created'
    BY <1>16, PasswordAt DEF ResetPassword
  <2>2. ASSUME NEW c \in Browsers PROVE Numbered(req[c])'
    BY <1>16, MissedAnsweredAt DEF ResetPassword
  <2>3. QED
    BY <2>1, <2>2, <1>16 DEF ResetPassword
<1>17. ASSUME NEW b \in Browsers, ClearTOTP(b) PROVE Numbers'
  BY <1>17, AnsweredAt, FactorAt DEF ClearTOTP
<1>18. ASSUME NEW b \in Browsers, RemoveUser(b) PROVE Numbers'
  <2>1. \A i \in Live' : users'[i].birth = i /\ i <= created'
    BY ZenonT(40), <1>18, WithoutAt DEF RemoveUser
  <2>2. ASSUME NEW c \in Browsers PROVE Numbered(req[c])'
    BY <1>18, MissedAnsweredAt DEF RemoveUser
  <2>3. QED
    BY <2>1, <2>2, <1>18 DEF RemoveUser
<1>19. ASSUME NEW n \in Names, CtlLoad(n) PROVE Numbers'
  BY <1>19 DEF CtlLoad, Called
<1>20. ASSUME NEW n \in Names, NEW p \in Passwords, CtlAdd(n, p) PROVE Numbers'
  BY <1>20, InsertAt DEF CtlAdd, Cookie, Req, Ctl, Ids
<1>21. CASE CtlCancel
  BY <1>21 DEF CtlCancel
<1>22. CASE CtlRemove
  <2>1. \A i \in Live' : users'[i].birth = i /\ i <= created'
    BY ZenonT(40), <1>22, WithoutAt DEF CtlRemove
  <2>2. ASSUME NEW c \in Browsers PROVE Numbered(req[c])'
    BY <1>22, MissedAt DEF CtlRemove
  <2>3. QED
    BY <2>1, <2>2, <1>22 DEF CtlRemove
<1>23. CASE CtlTotpEnable
  BY <1>23, FactorAt DEF CtlTotpEnable
<1>24. CASE CtlTotpDisable
  BY <1>24, FactorAt DEF CtlTotpDisable
<1>25. ASSUME NEW p \in Passwords, CtlPasswd(p) PROVE Numbers'
  BY <1>25, MissedAt, PasswordAt DEF CtlPasswd
<1>26. ASSUME NEW on \in BOOLEAN, CtlActive(on) PROVE Numbers'
  BY <1>26, MissedAt, ActiveAt DEF CtlActive
<1>27. ASSUME NEW c \in Configs, NEW kept \in BOOLEAN, Restart(c, kept) PROVE
    Numbers'
  BY <1>27 DEF Restart
<1>28. CASE UNCHANGED vars
  BY <1>28 DEF vars
<1>29. QED
  BY <1>1, <1>2, <1>3, <1>4, <1>5, <1>6, <1>7, <1>8, <1>9, <1>10, <1>11, <1>12,
      <1>13, <1>14, <1>15, <1>16, <1>17, <1>18, <1>19, <1>20, <1>21, <1>22, <1>23,
      <1>24, <1>25, <1>26, <1>27, <1>28 DEF Next, Holder, Superuser, Operator

LEMMA ProvedStep == Typed /\ Numbers /\ ProvedIsReplaced /\ [Next]_vars => ProvedIsReplaced'
<1> SUFFICES ASSUME Typed /\ Numbers /\ ProvedIsReplaced, [Next]_vars PROVE ProvedIsReplaced'
  OBVIOUS
<1> USE DEF Typed, Live, Numbers, Numbered, Idle, CtlIdle, Same, ProvedIsReplaced
<1>1. ASSUME NEW b \in Browsers, NEW n \in Names, NEW p \in Passwords, NEW code
    \in BOOLEAN, SignIn(b, n, p, code) PROVE ProvedIsReplaced'
  BY <1>1 DEF SignIn, Called, Accepts, Req
<1>2. ASSUME NEW b \in Browsers, Issue(b) PROVE ProvedIsReplaced'
  BY <1>2, AnsweredAt DEF Issue
<1>3. ASSUME NEW b \in Browsers, SuperSignIn(b) PROVE ProvedIsReplaced'
  BY <1>3 DEF SuperSignIn
<1>4. ASSUME NEW b \in Browsers, SignOut(b) PROVE ProvedIsReplaced'
  BY <1>4 DEF SignOut
<1>5. ASSUME NEW b \in Browsers, Open(b) PROVE ProvedIsReplaced'
  BY <1>5 DEF Open, LetIn
<1>6. ASSUME NEW b \in Browsers, TurnAway(b) PROVE ProvedIsReplaced'
  BY <1>6 DEF TurnAway
<1>7. ASSUME NEW b \in Browsers, Answer(b) PROVE ProvedIsReplaced'
  BY <1>7, AnsweredAt DEF Answer
<1>8. ASSUME NEW b \in Browsers, NEW p \in Passwords, Prove(b, p) PROVE
    ProvedIsReplaced'
  BY <1>8, AnsweredAt DEF Prove, Proves, Accepts, Proves, Accepts, Req
<1>9. ASSUME NEW b \in Browsers, NEW p \in Passwords, ChangePassword(b, p) PROVE
    ProvedIsReplaced'
  <2> SUFFICES ASSUME NEW c \in Browsers, req'[c].pc = "proved", req'[c].id \in Live'
               PROVE  users'[req'[c].id].pw = req'[c].pw \/ req'[c].late
    BY DEF ProvedIsReplaced
  <2>1. /\ c # b /\ Same(req'[c], req[c])
        /\ req[c].late \/ req[c].id = req[b].id => req'[c].late
        /\ req[c].cut => req'[c].cut
    BY <1>9, MissedAnsweredAt DEF ChangePassword
  <2>2. Live' = Live
    BY <1>9, PasswordAt DEF ChangePassword
  <2>3. QED
    BY <2>1, <2>2, <1>9, PasswordAt DEF ChangePassword
<1>10. ASSUME NEW b \in Browsers, TotpEnable(b) PROVE ProvedIsReplaced'
  BY <1>10, AnsweredAt, FactorAt DEF TotpEnable, ReadOff
<1>11. ASSUME NEW b \in Browsers, TotpDisable(b) PROVE ProvedIsReplaced'
  BY <1>11, AnsweredAt, FactorAt DEF TotpDisable
<1>12. ASSUME NEW b \in Browsers, NEW i \in Ids, Target(b, i) PROVE
    ProvedIsReplaced'
  BY <1>12 DEF Target, Named
<1>13. ASSUME NEW b \in Browsers, ShutSuperuser(b) PROVE ProvedIsReplaced'
  BY <1>13 DEF ShutSuperuser
<1>14. ASSUME NEW b \in Browsers, NEW n \in Names, NEW p \in Passwords, AddUser(b,
    n, p) PROVE ProvedIsReplaced'
  BY <1>14, InsertAt DEF AddUser, Req, Ids
<1>15. ASSUME NEW b \in Browsers, NEW on \in BOOLEAN, SetActive(b, on) PROVE
    ProvedIsReplaced'
  BY <1>15, AnsweredAt, MissedAnsweredAt, ActiveAt DEF SetActive
<1>16. ASSUME NEW b \in Browsers, NEW p \in Passwords, ResetPassword(b, p) PROVE
    ProvedIsReplaced'
  <2> SUFFICES ASSUME NEW c \in Browsers, req'[c].pc = "proved", req'[c].id \in Live'
               PROVE  users'[req'[c].id].pw = req'[c].pw \/ req'[c].late
    BY DEF ProvedIsReplaced
  <2>1. /\ c # b /\ Same(req'[c], req[c])
        /\ req[c].late \/ req[c].id = req[b].id => req'[c].late
        /\ req[c].cut => req'[c].cut
    BY <1>16, MissedAnsweredAt DEF ResetPassword
  <2>2. Live' = Live
    BY <1>16, PasswordAt DEF ResetPassword
  <2>3. QED
    BY <2>1, <2>2, <1>16, PasswordAt DEF ResetPassword
<1>17. ASSUME NEW b \in Browsers, ClearTOTP(b) PROVE ProvedIsReplaced'
  BY <1>17, AnsweredAt, FactorAt DEF ClearTOTP
<1>18. ASSUME NEW b \in Browsers, RemoveUser(b) PROVE ProvedIsReplaced'
  <2> SUFFICES ASSUME NEW c \in Browsers, req'[c].pc = "proved",
                      req'[c].id \in Live'
               PROVE  users'[req'[c].id].pw = req'[c].pw \/ req'[c].late
    BY DEF ProvedIsReplaced
  <2>1. /\ c # b /\ Same(req'[c], req[c])
    BY <1>18, MissedAnsweredAt DEF RemoveUser
  <2>2. /\ Live' = Live \ {req[b].id}
        /\ \A j \in Live' : users'[j] = users[j]
    <3>1. users' = WithoutUser(req[b].id)
      BY <1>18 DEF RemoveUser
    <3>2. Live' = Live \ {req[b].id}
      BY <3>1, WithoutAt
    <3>3. ASSUME NEW j \in Live' PROVE users'[j] = users[j]
      <4>1. j \in Live \ {req[b].id}
        BY <3>2
      <4>2. WithoutUser(req[b].id)[j] = users[j]
        BY <4>1, WithoutAt
      <4>3. QED
        BY <4>2, <3>1
    <3>4. QED
      BY <3>2, <3>3
  <2>3. req[c].late => req'[c].late
    BY <2>1, <1>18, MissedAnsweredAt DEF RemoveUser
  <2>4. req[c].pc = "proved" /\ req[c].id \in Live
    BY <2>1, <2>2
  <2>5. users'[req'[c].id].pw = users[req[c].id].pw
    BY <2>1, <2>2
  <2>6. users[req[c].id].pw = req[c].pw \/ req[c].late
    BY <2>4
  <2>7. QED
    BY <2>1, <2>3, <2>5, <2>6
<1>19. ASSUME NEW n \in Names, CtlLoad(n) PROVE ProvedIsReplaced'
  BY <1>19 DEF CtlLoad, Called
<1>20. ASSUME NEW n \in Names, NEW p \in Passwords, CtlAdd(n, p) PROVE
    ProvedIsReplaced'
  BY <1>20, InsertAt DEF CtlAdd, Req, Ids
<1>21. CASE CtlCancel
  BY <1>21 DEF CtlCancel
<1>22. CASE CtlRemove
  <2> SUFFICES ASSUME NEW c \in Browsers, req'[c].pc = "proved",
                      req'[c].id \in Live'
               PROVE  users'[req'[c].id].pw = req'[c].pw \/ req'[c].late
    BY DEF ProvedIsReplaced
  <2>1. /\ Same(req'[c], req[c])
    BY <1>22, MissedAt DEF CtlRemove
  <2>2. /\ Live' = Live \ {ctl.id}
        /\ \A j \in Live' : users'[j] = users[j]
    <3>1. users' = WithoutUser(ctl.id)
      BY <1>22 DEF CtlRemove
    <3>2. Live' = Live \ {ctl.id}
      BY <3>1, WithoutAt
    <3>3. ASSUME NEW j \in Live' PROVE users'[j] = users[j]
      <4>1. j \in Live \ {ctl.id}
        BY <3>2
      <4>2. WithoutUser(ctl.id)[j] = users[j]
        BY <4>1, WithoutAt
      <4>3. QED
        BY <4>2, <3>1
    <3>4. QED
      BY <3>2, <3>3
  <2>3. req[c].late => req'[c].late
    BY <2>1, <1>22, MissedAt DEF CtlRemove
  <2>4. req[c].pc = "proved" /\ req[c].id \in Live
    BY <2>1, <2>2
  <2>5. users'[req'[c].id].pw = users[req[c].id].pw
    BY <2>1, <2>2
  <2>6. users[req[c].id].pw = req[c].pw \/ req[c].late
    BY <2>4
  <2>7. QED
    BY <2>1, <2>3, <2>5, <2>6
<1>23. CASE CtlTotpEnable
  BY <1>23, FactorAt DEF CtlTotpEnable
<1>24. CASE CtlTotpDisable
  BY <1>24, FactorAt DEF CtlTotpDisable
<1>25. ASSUME NEW p \in Passwords, CtlPasswd(p) PROVE ProvedIsReplaced'
  <2> SUFFICES ASSUME NEW c \in Browsers, req'[c].pc = "proved", req'[c].id \in Live'
               PROVE  users'[req'[c].id].pw = req'[c].pw \/ req'[c].late
    BY DEF ProvedIsReplaced
  <2>1. /\ Same(req'[c], req[c])
        /\ req[c].late \/ req[c].id = ctl.id => req'[c].late
        /\ req[c].cut => req'[c].cut
    BY <1>25, MissedAt DEF CtlPasswd
  <2>2. Live' = Live
    BY <1>25, PasswordAt DEF CtlPasswd
  <2>3. QED
    BY <2>1, <2>2, <1>25, PasswordAt DEF CtlPasswd
<1>26. ASSUME NEW on \in BOOLEAN, CtlActive(on) PROVE ProvedIsReplaced'
  BY <1>26, MissedAt, ActiveAt DEF CtlActive
<1>27. ASSUME NEW c \in Configs, NEW kept \in BOOLEAN, Restart(c, kept) PROVE
    ProvedIsReplaced'
  BY <1>27 DEF Restart
<1>28. CASE UNCHANGED vars
  BY <1>28 DEF vars
<1>29. QED
  BY <1>1, <1>2, <1>3, <1>4, <1>5, <1>6, <1>7, <1>8, <1>9, <1>10, <1>11, <1>12,
      <1>13, <1>14, <1>15, <1>16, <1>17, <1>18, <1>19, <1>20, <1>21, <1>22, <1>23,
      <1>24, <1>25, <1>26, <1>27, <1>28 DEF Next, Holder, Superuser, Operator

LEMMA OutStep == Typed /\ Numbers /\ OffMeansOut /\ [Next]_vars => OffMeansOut'
<1> SUFFICES ASSUME Typed /\ Numbers /\ OffMeansOut, [Next]_vars PROVE OffMeansOut'
  OBVIOUS
<1> USE DEF Typed, Live, Numbers, Numbered, Idle, CtlIdle, Same, OffMeansOut
<1>1. ASSUME NEW b \in Browsers, NEW n \in Names, NEW p \in Passwords, NEW code
    \in BOOLEAN, SignIn(b, n, p, code) PROVE OffMeansOut'
  BY <1>1 DEF SignIn, Called, Accepts, Req
<1>2. ASSUME NEW b \in Browsers, Issue(b) PROVE OffMeansOut'
  BY <1>2, AnsweredAt DEF Issue
<1>3. ASSUME NEW b \in Browsers, SuperSignIn(b) PROVE OffMeansOut'
  BY <1>3 DEF SuperSignIn
<1>4. ASSUME NEW b \in Browsers, SignOut(b) PROVE OffMeansOut'
  BY <1>4 DEF SignOut
<1>5. ASSUME NEW b \in Browsers, Open(b) PROVE OffMeansOut'
  BY <1>5 DEF Open, LetIn
<1>6. ASSUME NEW b \in Browsers, TurnAway(b) PROVE OffMeansOut'
  BY <1>6 DEF TurnAway
<1>7. ASSUME NEW b \in Browsers, Answer(b) PROVE OffMeansOut'
  BY <1>7, AnsweredAt DEF Answer
<1>8. ASSUME NEW b \in Browsers, NEW p \in Passwords, Prove(b, p) PROVE
    OffMeansOut'
  BY <1>8, AnsweredAt DEF Prove, Proves, Accepts, Proves, Accepts, Req
<1>9. ASSUME NEW b \in Browsers, NEW p \in Passwords, ChangePassword(b, p) PROVE
    OffMeansOut'
  BY <1>9, MissedAnsweredAt, PasswordAt DEF ChangePassword
<1>10. ASSUME NEW b \in Browsers, TotpEnable(b) PROVE OffMeansOut'
  BY <1>10, AnsweredAt, FactorAt DEF TotpEnable, ReadOff
<1>11. ASSUME NEW b \in Browsers, TotpDisable(b) PROVE OffMeansOut'
  <2> SUFFICES ASSUME NEW c \in Browsers,
                      req'[c].pc \in {"open", "proved"}, ~ req'[c].cut
               PROVE  req'[c].id \in Live' /\ users'[req'[c].id].active
    BY DEF OffMeansOut
  <2>1. c # b /\ req'[c] = req[c]
    BY <1>11, AnsweredAt DEF TotpDisable
  <2>2. req[c].id \in Live /\ users[req[c].id].active
    BY <2>1
  <2>3. Live' = Live /\ (users[req[c].id].active => users'[req[c].id].active)
    BY <2>2, <1>11, FactorAt DEF TotpDisable
  <2>4. QED
    BY <2>1, <2>2, <2>3
<1>12. ASSUME NEW b \in Browsers, NEW i \in Ids, Target(b, i) PROVE OffMeansOut'
  BY <1>12 DEF Target, Named
<1>13. ASSUME NEW b \in Browsers, ShutSuperuser(b) PROVE OffMeansOut'
  BY <1>13 DEF ShutSuperuser
<1>14. ASSUME NEW b \in Browsers, NEW n \in Names, NEW p \in Passwords, AddUser(b,
    n, p) PROVE OffMeansOut'
  BY <1>14, InsertAt DEF AddUser, Req, Ids
<1>15. ASSUME NEW b \in Browsers, NEW on \in BOOLEAN, SetActive(b, on) PROVE
    OffMeansOut'
  <2> SUFFICES ASSUME NEW c \in Browsers,
                      req'[c].pc \in {"open", "proved"}, ~ req'[c].cut
               PROVE  req'[c].id \in Live' /\ users'[req'[c].id].active
    BY DEF OffMeansOut
  <2>1. c # b /\ Same(req'[c], req[c]) /\ (req[c].cut => req'[c].cut)
    <3>1. CASE on
      <4>1. req' = Answered(req, b)
        BY <3>1, <1>15, Zenon DEF SetActive
      <4>2. QED
        BY <4>1, AnsweredAt
    <3>2. CASE ~ on
      BY <3>2, <1>15, MissedAnsweredAt DEF SetActive
    <3>3. QED
      BY <3>1, <3>2
  <2>2. req[c].id \in Live /\ users[req[c].id].active
    BY <2>1
  <2>3. Live' = Live
    BY <1>15, ActiveAt DEF SetActive
  <2>4. users'[req[c].id].active
    <3>1. CASE on
      BY <2>2, <3>1, <1>15, OnAt DEF SetActive
    <3>2. CASE ~ on
      <4>1. req[c].id # req[b].id
        BY <2>1, <3>2, <1>15, MissedAnsweredAt DEF SetActive
      <4>2. QED
        BY <2>2, <4>1, <1>15, ActiveAt DEF SetActive
    <3>3. QED
      BY <3>1, <3>2
  <2>5. QED
    BY <2>1, <2>2, <2>3, <2>4
<1>16. ASSUME NEW b \in Browsers, NEW p \in Passwords, ResetPassword(b, p) PROVE
    OffMeansOut'
  BY <1>16, MissedAnsweredAt, PasswordAt DEF ResetPassword
<1>17. ASSUME NEW b \in Browsers, ClearTOTP(b) PROVE OffMeansOut'
  BY <1>17, AnsweredAt, FactorAt DEF ClearTOTP
<1>18. ASSUME NEW b \in Browsers, RemoveUser(b) PROVE OffMeansOut'
  <2> SUFFICES ASSUME NEW c \in Browsers,
                      req'[c].pc \in {"open", "proved"}, ~ req'[c].cut
               PROVE  req'[c].id \in Live' /\ users'[req'[c].id].active
    BY DEF OffMeansOut
  <2>1. /\ c # b /\ Same(req'[c], req[c])
    BY <1>18, MissedAnsweredAt DEF RemoveUser
  <2>2. /\ Live' = Live \ {req[b].id}
        /\ \A j \in Live' : users'[j] = users[j]
    <3>1. users' = WithoutUser(req[b].id)
      BY <1>18 DEF RemoveUser
    <3>2. Live' = Live \ {req[b].id}
      BY <3>1, WithoutAt
    <3>3. ASSUME NEW j \in Live' PROVE users'[j] = users[j]
      <4>1. j \in Live \ {req[b].id}
        BY <3>2
      <4>2. WithoutUser(req[b].id)[j] = users[j]
        BY <4>1, WithoutAt
      <4>3. QED
        BY <4>2, <3>1
    <3>4. QED
      BY <3>2, <3>3
  <2>3. req[c].cut \/ req[c].id = req[b].id => req'[c].cut
    BY <2>1, <1>18, MissedAnsweredAt DEF RemoveUser
  <2>4. req[c].id # req[b].id /\ ~ req[c].cut
    BY <2>3
  <2>5. req[c].id \in Live /\ users[req[c].id].active
    BY <2>1, <2>4
  <2>6. req'[c].id \in Live' /\ users'[req'[c].id] = users[req[c].id]
    BY <2>1, <2>2, <2>4, <2>5
  <2>7. QED
    BY <2>5, <2>6
<1>19. ASSUME NEW n \in Names, CtlLoad(n) PROVE OffMeansOut'
  BY <1>19 DEF CtlLoad, Called
<1>20. ASSUME NEW n \in Names, NEW p \in Passwords, CtlAdd(n, p) PROVE
    OffMeansOut'
  BY <1>20, InsertAt DEF CtlAdd, Req, Ids
<1>21. CASE CtlCancel
  BY <1>21 DEF CtlCancel
<1>22. CASE CtlRemove
  <2> SUFFICES ASSUME NEW c \in Browsers,
                      req'[c].pc \in {"open", "proved"}, ~ req'[c].cut
               PROVE  req'[c].id \in Live' /\ users'[req'[c].id].active
    BY DEF OffMeansOut
  <2>1. /\ Same(req'[c], req[c])
    BY <1>22, MissedAt DEF CtlRemove
  <2>2. /\ Live' = Live \ {ctl.id}
        /\ \A j \in Live' : users'[j] = users[j]
    <3>1. users' = WithoutUser(ctl.id)
      BY <1>22 DEF CtlRemove
    <3>2. Live' = Live \ {ctl.id}
      BY <3>1, WithoutAt
    <3>3. ASSUME NEW j \in Live' PROVE users'[j] = users[j]
      <4>1. j \in Live \ {ctl.id}
        BY <3>2
      <4>2. WithoutUser(ctl.id)[j] = users[j]
        BY <4>1, WithoutAt
      <4>3. QED
        BY <4>2, <3>1
    <3>4. QED
      BY <3>2, <3>3
  <2>3. req[c].cut \/ req[c].id = ctl.id => req'[c].cut
    BY <2>1, <1>22, MissedAt DEF CtlRemove
  <2>4. req[c].id # ctl.id /\ ~ req[c].cut
    BY <2>3
  <2>5. req[c].id \in Live /\ users[req[c].id].active
    BY <2>1, <2>4
  <2>6. req'[c].id \in Live' /\ users'[req'[c].id] = users[req[c].id]
    BY <2>1, <2>2, <2>4, <2>5
  <2>7. QED
    BY <2>5, <2>6
<1>23. CASE CtlTotpEnable
  BY <1>23, FactorAt DEF CtlTotpEnable
<1>24. CASE CtlTotpDisable
  BY <1>24, FactorAt DEF CtlTotpDisable
<1>25. ASSUME NEW p \in Passwords, CtlPasswd(p) PROVE OffMeansOut'
  BY <1>25, MissedAt, PasswordAt DEF CtlPasswd
<1>26. ASSUME NEW on \in BOOLEAN, CtlActive(on) PROVE OffMeansOut'
  <2> SUFFICES ASSUME NEW c \in Browsers,
                      req'[c].pc \in {"open", "proved"}, ~ req'[c].cut
               PROVE  req'[c].id \in Live' /\ users'[req'[c].id].active
    BY DEF OffMeansOut
  <2>1. Same(req'[c], req[c]) /\ (req[c].cut => req'[c].cut)
    <3>1. CASE on
      <4>1. req' = req
        BY <3>1, <1>26, Zenon DEF CtlActive
      <4>2. QED
        BY <4>1
    <3>2. CASE ~ on
      BY <3>2, <1>26, MissedAt DEF CtlActive
    <3>3. QED
      BY <3>1, <3>2
  <2>2. req[c].id \in Live /\ users[req[c].id].active
    BY <2>1
  <2>3. Live' = Live
    BY <1>26, ActiveAt DEF CtlActive
  <2>4. users'[req[c].id].active
    <3>1. CASE on
      BY <2>2, <3>1, <1>26, OnAt DEF CtlActive
    <3>2. CASE ~ on
      <4>1. req[c].id # ctl.id
        BY <2>1, <3>2, <1>26, MissedAt DEF CtlActive
      <4>2. QED
        BY <2>2, <4>1, <1>26, ActiveAt DEF CtlActive
    <3>3. QED
      BY <3>1, <3>2
  <2>5. QED
    BY <2>1, <2>2, <2>3, <2>4
<1>27. ASSUME NEW c \in Configs, NEW kept \in BOOLEAN, Restart(c, kept) PROVE
    OffMeansOut'
  BY <1>27 DEF Restart
<1>28. CASE UNCHANGED vars
  BY <1>28 DEF vars
<1>29. QED
  BY <1>1, <1>2, <1>3, <1>4, <1>5, <1>6, <1>7, <1>8, <1>9, <1>10, <1>11, <1>12,
      <1>13, <1>14, <1>15, <1>16, <1>17, <1>18, <1>19, <1>20, <1>21, <1>22, <1>23,
      <1>24, <1>25, <1>26, <1>27, <1>28 DEF Next, Holder, Superuser, Operator

LEMMA AdminStep == Typed /\ AdminIsNamed /\ [Next]_vars => AdminIsNamed'
<1> SUFFICES ASSUME Typed /\ AdminIsNamed, [Next]_vars PROVE AdminIsNamed'
  OBVIOUS
<1> USE DEF Typed, Idle, Same, AdminIsNamed, FromAllowed
<1>1. ASSUME NEW b \in Browsers, NEW n \in Names, NEW p \in Passwords, NEW code
    \in BOOLEAN, SignIn(b, n, p, code) PROVE AdminIsNamed'
  BY <1>1 DEF SignIn, Called, Accepts, Req
<1>2. ASSUME NEW b \in Browsers, Issue(b) PROVE AdminIsNamed'
  BY <1>2, AnsweredAt DEF Issue
<1>3. ASSUME NEW b \in Browsers, SuperSignIn(b) PROVE AdminIsNamed'
  BY <1>3 DEF SuperSignIn
<1>4. ASSUME NEW b \in Browsers, SignOut(b) PROVE AdminIsNamed'
  BY <1>4 DEF SignOut
<1>5. ASSUME NEW b \in Browsers, Open(b) PROVE AdminIsNamed'
  BY <1>5 DEF Open, LetIn
<1>6. ASSUME NEW b \in Browsers, TurnAway(b) PROVE AdminIsNamed'
  BY <1>6 DEF TurnAway
<1>7. ASSUME NEW b \in Browsers, Answer(b) PROVE AdminIsNamed'
  BY <1>7, AnsweredAt DEF Answer
<1>8. ASSUME NEW b \in Browsers, NEW p \in Passwords, Prove(b, p) PROVE
    AdminIsNamed'
  BY <1>8, AnsweredAt DEF Prove, Proves, Accepts, Req
<1>9. ASSUME NEW b \in Browsers, NEW p \in Passwords, ChangePassword(b, p) PROVE
    AdminIsNamed'
  BY <1>9, MissedAnsweredAt, PasswordAt DEF ChangePassword
<1>10. ASSUME NEW b \in Browsers, TotpEnable(b) PROVE AdminIsNamed'
  BY <1>10, AnsweredAt, FactorAt DEF TotpEnable, ReadOff
<1>11. ASSUME NEW b \in Browsers, TotpDisable(b) PROVE AdminIsNamed'
  BY <1>11, AnsweredAt, FactorAt DEF TotpDisable
<1>12. ASSUME NEW b \in Browsers, NEW i \in Ids, Target(b, i) PROVE AdminIsNamed'
  BY <1>12 DEF Target, Named
<1>13. ASSUME NEW b \in Browsers, ShutSuperuser(b) PROVE AdminIsNamed'
  BY <1>13 DEF ShutSuperuser
<1>14. ASSUME NEW b \in Browsers, NEW n \in Names, NEW p \in Passwords, AddUser(b,
    n, p) PROVE AdminIsNamed'
  BY <1>14, InsertAt DEF AddUser
<1>15. ASSUME NEW b \in Browsers, NEW on \in BOOLEAN, SetActive(b, on) PROVE
    AdminIsNamed'
  BY <1>15, AnsweredAt, MissedAnsweredAt, ActiveAt DEF SetActive
<1>16. ASSUME NEW b \in Browsers, NEW p \in Passwords, ResetPassword(b, p) PROVE
    AdminIsNamed'
  BY <1>16, MissedAnsweredAt, PasswordAt DEF ResetPassword
<1>17. ASSUME NEW b \in Browsers, ClearTOTP(b) PROVE AdminIsNamed'
  BY <1>17, AnsweredAt, FactorAt DEF ClearTOTP
<1>18. ASSUME NEW b \in Browsers, RemoveUser(b) PROVE AdminIsNamed'
  BY <1>18, MissedAnsweredAt, WithoutAt DEF RemoveUser
<1>19. ASSUME NEW n \in Names, CtlLoad(n) PROVE AdminIsNamed'
  BY <1>19 DEF CtlLoad, Called
<1>20. ASSUME NEW n \in Names, NEW p \in Passwords, CtlAdd(n, p) PROVE
    AdminIsNamed'
  BY <1>20, InsertAt DEF CtlAdd
<1>21. CASE CtlCancel
  BY <1>21 DEF CtlCancel
<1>22. CASE CtlRemove
  BY <1>22, MissedAt, WithoutAt DEF CtlRemove
<1>23. CASE CtlTotpEnable
  BY <1>23, FactorAt DEF CtlTotpEnable
<1>24. CASE CtlTotpDisable
  BY <1>24, FactorAt DEF CtlTotpDisable
<1>25. ASSUME NEW p \in Passwords, CtlPasswd(p) PROVE AdminIsNamed'
  BY <1>25, MissedAt, PasswordAt DEF CtlPasswd
<1>26. ASSUME NEW on \in BOOLEAN, CtlActive(on) PROVE AdminIsNamed'
  BY <1>26, MissedAt, ActiveAt DEF CtlActive
<1>27. ASSUME NEW c \in Configs, NEW kept \in BOOLEAN, Restart(c, kept) PROVE
    AdminIsNamed'
  BY <1>27 DEF Restart
<1>28. CASE UNCHANGED vars
  BY <1>28 DEF vars
<1>29. QED
  BY <1>1, <1>2, <1>3, <1>4, <1>5, <1>6, <1>7, <1>8, <1>9, <1>10, <1>11, <1>12,
      <1>13, <1>14, <1>15, <1>16, <1>17, <1>18, <1>19, <1>20, <1>21, <1>22, <1>23,
      <1>24, <1>25, <1>26, <1>27, <1>28 DEF Next, Holder, Superuser, Operator

LEMMA FactorStep == Typed /\ Numbers /\ [Next]_vars => FactorKept
<1> SUFFICES ASSUME Typed /\ Numbers, [Next]_vars PROVE FactorKept
  OBVIOUS
<1> USE DEF Typed, Live, Numbers, FactorKept, Replaced
<1>1. ASSUME NEW b \in Browsers, NEW n \in Names, NEW p \in Passwords, NEW code
    \in BOOLEAN, SignIn(b, n, p, code) PROVE FactorKept
  BY <1>1 DEF SignIn, Called, Accepts
<1>2. ASSUME NEW b \in Browsers, Issue(b) PROVE FactorKept
  BY <1>2 DEF Issue
<1>3. ASSUME NEW b \in Browsers, SuperSignIn(b) PROVE FactorKept
  BY <1>3 DEF SuperSignIn
<1>4. ASSUME NEW b \in Browsers, SignOut(b) PROVE FactorKept
  BY <1>4 DEF SignOut
<1>5. ASSUME NEW b \in Browsers, Open(b) PROVE FactorKept
  BY <1>5 DEF Open, LetIn
<1>6. ASSUME NEW b \in Browsers, TurnAway(b) PROVE FactorKept
  BY <1>6 DEF TurnAway
<1>7. ASSUME NEW b \in Browsers, Answer(b) PROVE FactorKept
  BY <1>7 DEF Answer
<1>8. ASSUME NEW b \in Browsers, NEW p \in Passwords, Prove(b, p) PROVE FactorKept
  BY <1>8 DEF Prove, Proves, Accepts, Req
<1>9. ASSUME NEW b \in Browsers, NEW p \in Passwords, ChangePassword(b, p) PROVE
    FactorKept
  BY <1>9, MissedAnsweredAt, PasswordAt DEF ChangePassword
<1>10. ASSUME NEW b \in Browsers, TotpEnable(b) PROVE FactorKept
  BY <1>10, AnsweredAt, FactorAt DEF TotpEnable, ReadOff
<1>11. ASSUME NEW b \in Browsers, TotpDisable(b) PROVE FactorKept
  BY <1>11, AnsweredAt, FactorAt DEF TotpDisable
<1>12. ASSUME NEW b \in Browsers, NEW i \in Ids, Target(b, i) PROVE FactorKept
  BY <1>12 DEF Target, Named
<1>13. ASSUME NEW b \in Browsers, ShutSuperuser(b) PROVE FactorKept
  BY <1>13 DEF ShutSuperuser
<1>14. ASSUME NEW b \in Browsers, NEW n \in Names, NEW p \in Passwords, AddUser(b,
    n, p) PROVE FactorKept
  BY <1>14, InsertAt DEF AddUser
<1>15. ASSUME NEW b \in Browsers, NEW on \in BOOLEAN, SetActive(b, on) PROVE
    FactorKept
  BY <1>15, AnsweredAt, MissedAnsweredAt, ActiveAt DEF SetActive
<1>16. ASSUME NEW b \in Browsers, NEW p \in Passwords, ResetPassword(b, p) PROVE
    FactorKept
  BY <1>16, MissedAnsweredAt, PasswordAt DEF ResetPassword
<1>17. ASSUME NEW b \in Browsers, ClearTOTP(b) PROVE FactorKept
  BY <1>17, AnsweredAt, FactorAt DEF ClearTOTP
<1>18. ASSUME NEW b \in Browsers, RemoveUser(b) PROVE FactorKept
  BY ZenonT(40), <1>18, MissedAnsweredAt, WithoutAt DEF RemoveUser
<1>19. ASSUME NEW n \in Names, CtlLoad(n) PROVE FactorKept
  BY <1>19 DEF CtlLoad, Called
<1>20. ASSUME NEW n \in Names, NEW p \in Passwords, CtlAdd(n, p) PROVE FactorKept
  BY <1>20, InsertAt DEF CtlAdd
<1>21. CASE CtlCancel
  BY <1>21 DEF CtlCancel
<1>22. CASE CtlRemove
  BY <1>22, MissedAt, WithoutAt DEF CtlRemove
<1>23. CASE CtlTotpEnable
  BY <1>23, FactorAt DEF CtlTotpEnable
<1>24. CASE CtlTotpDisable
  BY <1>24, FactorAt DEF CtlTotpDisable
<1>25. ASSUME NEW p \in Passwords, CtlPasswd(p) PROVE FactorKept
  BY <1>25, MissedAt, PasswordAt DEF CtlPasswd
<1>26. ASSUME NEW on \in BOOLEAN, CtlActive(on) PROVE FactorKept
  BY <1>26, MissedAt, ActiveAt DEF CtlActive
<1>27. ASSUME NEW c \in Configs, NEW kept \in BOOLEAN, Restart(c, kept) PROVE
    FactorKept
  BY <1>27 DEF Restart
<1>28. CASE UNCHANGED vars
  BY <1>28 DEF vars
<1>29. QED
  BY <1>1, <1>2, <1>3, <1>4, <1>5, <1>6, <1>7, <1>8, <1>9, <1>10, <1>11, <1>12,
      <1>13, <1>14, <1>15, <1>16, <1>17, <1>18, <1>19, <1>20, <1>21, <1>22, <1>23,
      <1>24, <1>25, <1>26, <1>27, <1>28 DEF Next, Holder, Superuser, Operator

IInv ==
    /\ Typed
    /\ Numbers
    /\ ProvedIsReplaced
    /\ OffMeansOut
    /\ AdminIsNamed

LEMMA InitIInv == Init => IInv
<1> SUFFICES ASSUME Init PROVE IInv
  OBVIOUS
<1> USE MaxIdAssumption, MaxSecretAssumption DEF Init, NoCookie, Idle, CtlIdle
<1>1. Typed
  <2>1. NoCookie \in Cookie /\ Idle \in Req /\ CtlIdle \in Ctl
    BY DEF Cookie, Req, Ctl, SuperNames, Ids, Secrets
  <2>2. Live = {}
    BY DEF Live
  <2>3. QED
    BY <2>1, <2>2 DEF Typed, Live
<1>2. Numbers
  BY DEF Numbers, Numbered, Live
<1>3. ProvedIsReplaced /\ OffMeansOut /\ AdminIsNamed
  BY DEF ProvedIsReplaced, OffMeansOut, AdminIsNamed
<1>4. QED
  BY <1>1, <1>2, <1>3 DEF IInv

LEMMA IInvStep == IInv /\ [Next]_vars => IInv'
  BY TypeStep, NumbersStep, ProvedStep, OutStep, AdminStep DEF IInv

\* The invariant holds in every state of every behaviour.
THEOREM AccountsInvariant == Spec => []IInv
  BY InitIInv, IInvStep, PTL DEF Spec

-----------------------------------------------------------------------------

\* The variables keep their types.
THEOREM AccountsTypes == Spec => []TypeOK
<1>1. IInv => TypeOK
  BY TypedIsTypeOK DEF IInv
<1> QED
  BY <1>1, AccountsInvariant, PTL

\* A number names the account it was given for, or none: what outlives an
\* account never reaches another (schema.sql: AUTOINCREMENT).
THEOREM NumbersTheorem == Spec => []NumbersNotReused
<1>1. IInv => NumbersNotReused
  <2> SUFFICES ASSUME IInv PROVE NumbersNotReused
    OBVIOUS
  <2>1. Numbers
    BY DEF IInv
  <2>2. QED
    BY <2>1 DEF Numbers, Numbered, NumbersNotReused, SameAccount
<1> QED
  BY <1>1, AccountsInvariant, PTL

\* handleChangePassword replaces the password that was proved to it, unless
\* one was put in between the proof and the write.
THEOREM ProvedTheorem == Spec => []ProvedIsReplaced
<1>1. IInv => ProvedIsReplaced
  BY DEF IInv
<1> QED
  BY <1>1, AccountsInvariant, PTL

\* An account that is off or gone is let in by no cookie, and the management
\* screen by none but the superuser the file names.
THEOREM AdmittedTheorem == Spec => []Admitted
<1>1. IInv => Admitted
  BY DEF IInv, Admitted
<1> QED
  BY <1>1, AccountsInvariant, PTL

\* No step replaces a second factor in use, but one that was shown the account
\* without it or asked about it at the terminal.
THEOREM FactorTheorem == Spec => FactorStands
<1>1. IInv /\ [Next]_vars => [FactorKept]_vars
  BY FactorStep DEF IInv
<1> QED
  BY <1>1, AccountsInvariant, PTL DEF Spec, FactorStands


-----------------------------------------------------------------------------
(* The assistants, which MCAccounts checks beside the accounts. *)

\* The copy every request reads is the table's, unless a Load failed, or a save
\* has yet to make it so.
Catching(s) ==
    /\ saving[s].todo # << >>
    /\ \/ saving[s].step = "select"
       \/ saving[s].step = "publish" /\ saving[s].read = rows
CopyCurrent == doubt \/ values = rows \/ \E s \in Admins : Catching(s)

AssistantsIInv == AssistantsTypeOK /\ CopyCurrent

\* A save writes what is ticked, then the switch, or the switch alone.
LEMMA TodoTail ==
    ASSUME NEW t \in Todo, t # << >>
    PROVE  Tail(t) \in Todo /\ Head(t) \in {"approved", "enabled"} /\ (Len(t) # 1 => Tail(t) # << >>)
<1>1. CASE t = <<"approved", "enabled">>
  <2>1. Tail(t) = <<"enabled">> /\ Head(t) = "approved"
    BY <1>1
  <2>2. QED
    BY <2>1 DEF Todo
<1>2. CASE t = <<"enabled">>
  <2>1. Tail(t) = << >> /\ Head(t) = "enabled" /\ Len(t) = 1
    BY <1>2
  <2>2. QED
    BY <2>1 DEF Todo
<1>3. QED
  BY <1>1, <1>2 DEF Todo

LEMMA AssistantsInitIInv == AssistantsInit => AssistantsIInv
<1> SUFFICES ASSUME AssistantsInit PROVE AssistantsIInv
  OBVIOUS
<1>1. Shipped \in Settings
  BY DEF Shipped, Settings, Fields
<1>2. NoSave \in Save
  BY <1>1 DEF NoSave, Save, Todo, Provider
<1>3. AssistantsTypeOK
  BY <1>1, <1>2, NoModelAssumption DEF AssistantsInit, AssistantsTypeOK
<1>4. CopyCurrent
  BY DEF AssistantsInit, CopyCurrent
<1>5. QED
  BY <1>3, <1>4 DEF AssistantsIInv

LEMMA AssistantsTypeStep ==
    AssistantsTypeOK /\ [AssistantsNext]_assistantVars => AssistantsTypeOK'
<1> SUFFICES ASSUME AssistantsTypeOK, [AssistantsNext]_assistantVars PROVE AssistantsTypeOK'
  OBVIOUS
<1>s. Shipped \in Settings
  BY DEF Shipped, Settings, Fields
<1>n. NoSave \in Save
  BY <1>s DEF NoSave, Save, Todo, Provider
<1>a. \A s \in Admins : saving[s] \in Save /\ saving[s].todo \in Todo
  BY DEF AssistantsTypeOK, Save
<1>1. ASSUME NEW s \in Admins, NEW p \in Provider, BeginSave(s, p) PROVE AssistantsTypeOK'
  <2>1. PICK todo \in Todo : saving' = [saving EXCEPT ![s] = [NoSave EXCEPT !.provider = p, !.todo = todo]]
    BY <1>1 DEF BeginSave
  <2>2. [NoSave EXCEPT !.provider = p, !.todo = todo] \in Save
    BY <1>n DEF Save
  <2>3. QED
    BY <1>1, <2>1, <2>2 DEF AssistantsTypeOK, BeginSave
<1>2. ASSUME NEW s \in Admins, Write(s) PROVE AssistantsTypeOK'
  <2>1. saving' \in [Admins -> Save]
    <3>1. [saving[s] EXCEPT !.step = "select"] \in Save
      BY <1>a DEF Save
    <3>2. saving' = [saving EXCEPT ![s] = [saving[s] EXCEPT !.step = "select"]]
           \/ saving' = [saving EXCEPT ![s] = NoSave]
      BY <1>2 DEF Write
    <3>3. QED
      BY <1>n, <3>1, <3>2 DEF AssistantsTypeOK
  <2>2. rows' \in Settings
    <3>1. CASE UNCHANGED rows
      BY <3>1 DEF AssistantsTypeOK
    <3>2. ASSUME NEW to \in Values(Head(saving[s].todo)),
                 rows' = [rows EXCEPT ![saving[s].provider][Head(saving[s].todo)] = to]
          PROVE  rows' \in Settings
      <4>1. Head(saving[s].todo) \in {"approved", "enabled"} /\ saving[s].provider \in Provider
        BY <1>2, <1>a, TodoTail DEF Write, Resting, Save
      <4>2. CASE Head(saving[s].todo) = "approved"
        <5>1. to \in SUBSET Model
          BY <3>2, <4>2 DEF Values
        <5>2. rows' = [rows EXCEPT ![saving[s].provider] = [@ EXCEPT !.approved = to]]
          BY <3>2, <4>2
        <5>3. rows[saving[s].provider] \in Fields
          BY <4>1 DEF AssistantsTypeOK, Settings
        <5>4. [rows[saving[s].provider] EXCEPT !.approved = to] \in Fields
          BY <5>1, <5>3 DEF Fields
        <5>5. QED
          BY <5>2, <5>4 DEF AssistantsTypeOK, Settings
      <4>3. CASE Head(saving[s].todo) = "enabled"
        <5>1. to \in BOOLEAN
          BY <3>2, <4>3 DEF Values
        <5>2. rows' = [rows EXCEPT ![saving[s].provider] = [@ EXCEPT !.enabled = to]]
          BY <3>2, <4>3
        <5>3. rows[saving[s].provider] \in Fields
          BY <4>1 DEF AssistantsTypeOK, Settings
        <5>4. [rows[saving[s].provider] EXCEPT !.enabled = to] \in Fields
          BY <5>1, <5>3 DEF Fields
        <5>5. QED
          BY <5>2, <5>4 DEF AssistantsTypeOK, Settings
      <4>4. QED
        BY <4>1, <4>2, <4>3
    <3>3. QED
      BY <1>2, <3>1, <3>2 DEF Write
  <2>3. QED
    BY <1>2, <2>1, <2>2 DEF AssistantsTypeOK, Write
<1>3. ASSUME NEW s \in Admins, SelectRows(s) PROVE AssistantsTypeOK'
  <2>1. [saving[s] EXCEPT !.step = "publish", !.read = rows] \in Save
    BY <1>a DEF Save, AssistantsTypeOK
  <2>2. saving' = [saving EXCEPT ![s] = [saving[s] EXCEPT !.step = "publish", !.read = rows]]
         \/ saving' = [saving EXCEPT ![s] = NoSave]
    BY <1>3 DEF SelectRows, AssistantsTypeOK
  <2>3. saving' \in [Admins -> Save]
    BY <1>n, <2>1, <2>2 DEF AssistantsTypeOK
  <2>4. QED
    BY <1>3, <2>3 DEF AssistantsTypeOK, SelectRows
<1>4. ASSUME NEW s \in Admins, PublishRows(s) PROVE AssistantsTypeOK'
  <2>1. [saving[s] EXCEPT !.todo = Tail(@), !.step = "write", !.read = Shipped] \in Save
    BY <1>4, <1>a, <1>s, TodoTail DEF Save, PublishRows, Resting
  <2>2. saving' \in [Admins -> Save] /\ values' \in Settings
    BY <1>4, <1>n, <1>a, <2>1 DEF AssistantsTypeOK, PublishRows, Published, Save
  <2>3. doubt' \in BOOLEAN
    BY <1>4 DEF PublishRows
  <2>4. QED
    BY <1>4, <2>2, <2>3 DEF AssistantsTypeOK, PublishRows
<1>5. ASSUME NEW p \in Provider, NEW m \in Model \union {NoModel}, ChooseModel(p, m)
      PROVE AssistantsTypeOK'
  BY <1>5 DEF AssistantsTypeOK, ChooseModel
<1>6. CASE StartAgain
  BY <1>6, <1>n DEF AssistantsTypeOK, StartAgain
<1>7. CASE UNCHANGED assistantVars
  BY <1>7 DEF AssistantsTypeOK, assistantVars
<1>8. QED
  BY <1>1, <1>2, <1>3, <1>4, <1>5, <1>6, <1>7 DEF AssistantsNext

\* A write leaves its own save with the table to select; what was selected is
\* the table, or another write is behind it; what is published crossing
\* another Load leaves a doubt.
LEMMA CopyCurrentStep ==
    AssistantsTypeOK /\ CopyCurrent /\ [AssistantsNext]_assistantVars => CopyCurrent'
<1> SUFFICES ASSUME AssistantsTypeOK, CopyCurrent, [AssistantsNext]_assistantVars
             PROVE  CopyCurrent'
  OBVIOUS
<1>a. saving \in [Admins -> Save]
  BY DEF AssistantsTypeOK
<1>b. ASSUME NEW s \in Admins, Catching(s), saving'[s] = saving[s], rows' = rows PROVE CopyCurrent'
  BY <1>b DEF Catching, CopyCurrent
<1>c. ASSUME NEW s \in Admins, UNCHANGED <<rows, values, doubt>>, ~ Catching(s),
             \A o \in Admins \ {s} : saving'[o] = saving[o]
      PROVE  CopyCurrent'
  BY <1>b, <1>c DEF CopyCurrent
<1>1. ASSUME NEW s \in Admins, NEW p \in Provider, BeginSave(s, p) PROVE CopyCurrent'
  <2>1. ~ Catching(s)
    BY <1>1 DEF BeginSave, Resting, Catching
  <2>2. \A o \in Admins \ {s} : saving'[o] = saving[o]
    BY <1>1, <1>a DEF BeginSave
  <2>3. QED
    BY <1>1, <1>c, <2>1, <2>2 DEF BeginSave
<1>2. ASSUME NEW s \in Admins, Write(s) PROVE CopyCurrent'
  <2>1. CASE saving' = [saving EXCEPT ![s].step = "select"]
    <3>1. saving'[s].step = "select" /\ saving'[s].todo = saving[s].todo
      BY <1>a, <2>1 DEF Save
    <3>2. QED
      BY <1>2, <3>1 DEF Write, Resting, Catching, CopyCurrent
  <2>2. CASE saving' = [saving EXCEPT ![s] = NoSave] /\ UNCHANGED rows
    <3>1. ~ Catching(s)
      BY <1>2 DEF Write, Catching
    <3>2. \A o \in Admins \ {s} : saving'[o] = saving[o]
      BY <1>a, <2>2
    <3>3. QED
      BY <1>2, <1>c, <2>2, <3>1, <3>2 DEF Write
  <2>3. QED
    BY <1>2, <2>1, <2>2 DEF Write
<1>3. ASSUME NEW s \in Admins, SelectRows(s) PROVE CopyCurrent'
  <2>1. CASE saving' = [saving EXCEPT ![s].step = "publish", ![s].read = rows]
    <3>1. saving'[s].step = "publish" /\ saving'[s].read = rows /\ saving'[s].todo = saving[s].todo
      BY <1>a, <2>1 DEF Save
    <3>2. rows' = rows /\ saving[s].todo # << >>
      BY <1>3 DEF SelectRows, Resting
    <3>3. QED
      BY <3>1, <3>2 DEF Catching, CopyCurrent
  <2>2. CASE doubt'
    BY <2>2 DEF CopyCurrent
  <2>3. QED
    BY <1>3, <2>1, <2>2 DEF SelectRows
<1>4. ASSUME NEW s \in Admins, PublishRows(s) PROVE CopyCurrent'
  <2>1. CASE saving[s].read = rows
    BY <1>4, <2>1 DEF PublishRows, Published, CopyCurrent
  <2>2. CASE saving[s].read # rows
    BY <1>4, <2>2 DEF PublishRows, CopyCurrent
  <2>3. QED
    BY <2>1, <2>2
<1>5. ASSUME NEW p \in Provider, NEW m \in Model \union {NoModel}, ChooseModel(p, m)
      PROVE CopyCurrent'
  BY <1>5 DEF ChooseModel, CopyCurrent, Catching
<1>6. CASE StartAgain
  BY <1>6 DEF StartAgain, CopyCurrent
<1>7. CASE UNCHANGED assistantVars
  BY <1>7 DEF assistantVars, CopyCurrent, Catching
<1>8. QED
  BY <1>1, <1>2, <1>3, <1>4, <1>5, <1>6, <1>7 DEF AssistantsNext

\* Once no save is under way, whichever mailbox asks is answered by a provider
\* that is on, with its key, and by a model that is ticked (ollama.go:62,
\* claude.go:88), for any number of administrators saving at once; a failed
\* Load, or one that crossed another, excepted.
THEOREM AskedWithLeaveTheorem == AssistantsSpec => []AskedWithLeave
<1>1. AssistantsIInv /\ [AssistantsNext]_assistantVars => AssistantsIInv'
  BY AssistantsTypeStep, CopyCurrentStep DEF AssistantsIInv
<1>2. AssistantsIInv => AskedWithLeave
  <2> SUFFICES ASSUME AssistantsIInv, Quiet,
                      NEW want \in Provider \union {""},
                      NEW p \in AssistantFor(want) \union AssistantNamed(want)
               PROVE  rows[p].enabled /\ Configured(p) /\ chosen[p] \in rows[p].approved
    BY DEF AskedWithLeave
  <2>1. values = rows
    BY DEF AssistantsIInv, CopyCurrent, Catching, Quiet, Resting
  <2>2. Enabled(p)
    BY DEF AssistantFor, AssistantNamed
  <2>3. QED
    BY <2>1, <2>2 DEF Enabled, Approved
<1> QED
  BY <1>1, <1>2, AssistantsInitIInv, PTL DEF AssistantsSpec
=============================================================================
