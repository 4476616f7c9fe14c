--------------------------- MODULE Account_proofs ---------------------------
(***************************************************************************)
(* Theorems about Account, for every number of requests, tokens and steps. *)
(*                                                                         *)
(*   TypeCorrect      every reachable state is well typed                  *)
(*   AttemptsSafe     attempts overrun the cap by at most the other slots  *)
(*   BudgetSafe       so is the failure budget of the account              *)
(*   SingleUseSafe    pending logins and recovery codes are accepted once  *)
(*   PendingRefinement, RecoveryRefinement                                 *)
(*                    both implement OneTime                               *)
(*   SessionsSafe     at most as many sessions as requests in parallel,    *)
(*                    those whose deletion failed apart                    *)
(*   RevocationSafe   no session older than the switch of the factor stays *)
(*                    but those whose deletion failed                      *)
(*   FactorSafe       while nobody switches the factor, every session      *)
(*                    presented it                                         *)
(*   CodeSafe         a code is accepted once for each last step kept      *)
(***************************************************************************)
EXTENDS Account, TLAPS, FiniteSetTheorems

-----------------------------------------------------------------------------
(***************************************************************************)
(* Type correctness.                                                       *)
(***************************************************************************)
\* The locals of an idle slot are well typed.
LEMMA NoLocalsType == NoLocals \in Locals
  BY NoneAssumption, DataAssumption DEF NoLocals, Locals

\* Moving to a label of the program keeps the program counters typed.
LEMMA GotoType ==
    ASSUME TypeOK, NEW r \in Requests, NEW label \in Labels, Goto(r, label)
    PROVE  pc' \in [Requests -> Labels]
  BY DEF TypeOK, Goto

\* Carrying well-typed locals over an await keeps all locals typed.
LEMMA CarryType ==
    ASSUME TypeOK, NEW r \in Requests, NEW l \in Locals, Carry(r, l)
    PROVE  loc' \in [Requests -> Locals]
  BY DEF TypeOK, Carry

\* Ending the request keeps the program counters and the locals typed.
LEMMA DoneType ==
    ASSUME TypeOK, NEW r \in Requests, Done(r)
    PROVE  /\ pc' \in [Requests -> Labels]
           /\ loc' \in [Requests -> Locals]
  BY NoLocalsType, GotoType, CarryType DEF Done, Labels

\* The ids of well-typed sessions are session ids.
LEMMA IdsType ==
    ASSUME NEW S \in SUBSET Session
    PROVE  Ids(S) \in SUBSET SessionIds
  BY DEF Session, Ids

\* What typing says of each local.
LEMMA LocalsFields ==
    ASSUME NEW l \in Locals
    PROVE  /\ l.sid \in SessionIds \cup {None}
           /\ l.strong \in BOOLEAN
           /\ l.pid \in PendingIds \cup {None}
           /\ l.doomed \in SUBSET Codes
           /\ l.secret \in Secrets \cup {None}
           /\ l.last \in Steps \cup {NoStep}
           /\ l.step \in Steps \cup {NoStep}
           /\ l.at \in Nat
           /\ l.victims \in SUBSET SessionIds
           /\ l.old \in SUBSET SessionIds
           /\ l.then \in {"idle", "cf_codes", "audit"}
  BY DEF Locals

\* The locals stay typed when one of them is set (one lemma per local).
LEMMA SetSid ==
    ASSUME NEW l \in Locals, NEW x \in SessionIds \cup {None}
    PROVE  [l EXCEPT !.sid = x] \in Locals
  BY DEF Locals

LEMMA SetStrong ==
    ASSUME NEW l \in Locals, NEW x \in BOOLEAN
    PROVE  [l EXCEPT !.strong = x] \in Locals
  BY DEF Locals

LEMMA SetPid ==
    ASSUME NEW l \in Locals, NEW x \in PendingIds \cup {None}
    PROVE  [l EXCEPT !.pid = x] \in Locals
  BY DEF Locals

LEMMA SetDoomed ==
    ASSUME NEW l \in Locals, NEW x \in SUBSET Codes
    PROVE  [l EXCEPT !.doomed = x] \in Locals
  BY DEF Locals

LEMMA SetSecret ==
    ASSUME NEW l \in Locals, NEW x \in Secrets \cup {None}
    PROVE  [l EXCEPT !.secret = x] \in Locals
  BY DEF Locals

LEMMA SetLast ==
    ASSUME NEW l \in Locals, NEW x \in Steps \cup {NoStep}
    PROVE  [l EXCEPT !.last = x] \in Locals
  BY DEF Locals

LEMMA SetStep ==
    ASSUME NEW l \in Locals, NEW x \in Steps \cup {NoStep}
    PROVE  [l EXCEPT !.step = x] \in Locals
  BY DEF Locals

LEMMA SetAt ==
    ASSUME NEW l \in Locals, NEW x \in Nat
    PROVE  [l EXCEPT !.at = x] \in Locals
  BY DEF Locals

LEMMA SetVictims ==
    ASSUME NEW l \in Locals, NEW x \in SUBSET SessionIds
    PROVE  [l EXCEPT !.victims = x] \in Locals
  BY DEF Locals

LEMMA SetOld ==
    ASSUME NEW l \in Locals, NEW x \in SUBSET SessionIds
    PROVE  [l EXCEPT !.old = x] \in Locals
  BY DEF Locals

LEMMA SetThen ==
    ASSUME NEW l \in Locals, NEW x \in {"idle", "cf_codes", "audit"}
    PROVE  [l EXCEPT !.then = x] \in Locals
  BY DEF Locals

\* Forgetting the code's locals keeps them typed.
LEMMA AfterCodeType ==
    ASSUME TypeOK, NEW r \in Requests
    PROVE  AfterCode(r) \in Locals
  <1>1. loc[r] \in Locals
    BY DEF TypeOK
  <1> QED
    BY <1>1, SetSecret, SetLast, SetStep DEF AfterCode

\* A count of acceptances stays in 0..2, also for a token that has no count.
LEMMA BumpType ==
    ASSUME NEW S, NEW f \in [S -> 0..2], NEW x
    PROVE  Bump(f, x) \in [S -> 0..2]
  <1>1. CASE x \in S
    BY <1>1 DEF Bump
  <1>2. CASE x \notin S
    BY <1>2 DEF Bump
  <1> QED
    BY <1>1, <1>2

\* Accepting a token keeps the counts of acceptances typed.
LEMMA AcceptType ==
    ASSUME NEW u \in Acceptances, NEW x
    PROVE  /\ [u EXCEPT !.code = Bump(@, x)] \in Acceptances
           /\ [u EXCEPT !.pending = Bump(@, x)] \in Acceptances
           /\ [u EXCEPT !.step = Bump(@, x)] \in Acceptances
  <1>1. /\ Bump(u.code, x) \in [Codes -> 0..2]
        /\ Bump(u.pending, x) \in [PendingIds -> 0..2]
        /\ Bump(u.step, x) \in [Secrets \X Steps -> 0..2]
    BY BumpType DEF Acceptances
  <1> QED
    BY <1>1 DEF Acceptances

\* A pending login stays typed when its state is set.
LEMMA PendingState ==
    ASSUME NEW p \in Pending, NEW x \in {"consumed", "deleted"}
    PROVE  [p EXCEPT !.state = x] \in Pending
  BY DEF Pending

\* A pending login stays typed when a failure is counted.
LEMMA PendingAttempts ==
    ASSUME NEW p \in Pending
    PROVE  [p EXCEPT !.attempts = Counted(@)] \in Pending
  BY DEF Pending, Counted

\* Sessions whose deletion failed stay well typed.
LEMMA SparedType ==
    ASSUME NEW S \in SUBSET Session
    PROVE  Spared(S) \in SUBSET Session
  BY DEF Session, Spared

\* A secret that is about to lose its last step is a secret.
LEMMA WithoutStepType ==
    ASSUME TypeOK
    PROVE  WithoutStep \in SUBSET Secrets
  BY DEF TypeOK, User, WithoutStep

\* The beginning of a signed-in handler keeps every variable typed.
LEMMA BeginType ==
    ASSUME TypeOK, NEW r \in Requests, NEW s \in sessions, NEW label \in Labels,
           Begin(r, s, label)
    PROVE  TypeOK'
  <1>1. [loc[r] EXCEPT !.sid = s.id, !.strong = s.strong] \in Locals
    BY SetSid, SetStrong, LocalsFields DEF TypeOK, Session
  <1>2. loc' \in [Requests -> Locals] /\ pc' \in [Requests -> Labels]
    BY <1>1, CarryType, GotoType DEF Begin
  <1> QED
    BY <1>2 DEF Begin, TypeOK, store, history

\* A step of a request keeps every variable typed.
LEMMA TypeStep ==
      ASSUME TypeOK, NEW r \in Requests, Step(r)
      PROVE  TypeOK'
  <1> USE DEF store, history

  <1>1. CASE LoginUser(r)
    <2>1. pc' \in [Requests -> Labels]
      BY <1>1, GotoType DEF LoginUser, Labels
    <2> QED
      BY <1>1, <2>1 DEF TypeOK, LoginUser
  <1>2. CASE LoginFeature(r)
    <2>1. pc' \in [Requests -> Labels]
      BY <1>2, GotoType DEF LoginFeature, Labels
    <2> QED
      BY <1>2, <2>1 DEF TypeOK, LoginFeature
  <1>3. CASE LoginState(r)
    <2>1. [loc[r] EXCEPT !.at = now] \in Locals
      BY SetAt, LocalsFields DEF TypeOK
    <2>2. loc' \in [Requests -> Locals]
      BY <1>3, <2>1, CarryType DEF TypeOK, LoginState
    <2>3. pc' \in [Requests -> Labels]
      BY <1>3, GotoType DEF LoginState, Labels
    <2> QED
      BY <1>3, <2>2, <2>3 DEF TypeOK, LoginState
  <1>4. CASE PendingClean(r)
    <2>1. pc' \in [Requests -> Labels]
      BY <1>4, GotoType DEF PendingClean, Labels
    <2>2. pendings' \in [PendingIds -> Pending]
      BY <1>4, PendingState DEF TypeOK, PendingClean
    <2> QED
      BY <1>4, <2>1, <2>2 DEF TypeOK, PendingClean
  <1>5. CASE PendingInsert(r)
    <2>1. pc' \in [Requests -> Labels]
      BY <1>5, DoneType DEF PendingInsert, Labels
    <2> QED
      BY <1>5, <2>1, DoneType DEF TypeOK, PendingInsert, Pending, Locals
  <1>6. CASE SessionsDelete(r)
    <2>1. pc' \in [Requests -> Labels]
      BY <1>6, GotoType DEF SessionsDelete, Labels
    <2> QED
      BY <1>6, <2>1, SparedType DEF TypeOK, SessionsDelete
  <1>7. CASE SessionInsert(r)
    <2>1. pc' \in [Requests -> Labels]
      BY <1>7, DoneType DEF SessionInsert, Labels
    <2>2. sessions' \in SUBSET Session
      <3>1. loc[r].strong \in BOOLEAN
        BY LocalsFields DEF TypeOK
      <3>2. \A i \in SessionIds :
                [id |-> i, strong |-> loc[r].strong, spared |-> FALSE] \in Session
        BY <3>1 DEF Session
      <3> QED
        BY <1>7, <3>2 DEF TypeOK, SessionInsert
    <2> QED
      BY <1>7, <2>1, <2>2, DoneType DEF TypeOK, SessionInsert
  <1>8. CASE TotpPost(r)
    <2>1. \A i \in PendingIds : [loc[r] EXCEPT !.pid = i] \in Locals
      BY SetPid DEF TypeOK
    <2>2. loc' \in [Requests -> Locals]
      BY <1>8, <2>1, CarryType DEF TypeOK, TotpPost
    <2>3. pc' \in [Requests -> Labels]
      BY <1>8, GotoType DEF TotpPost, Labels
    <2> QED
      BY <1>8, <2>2, <2>3 DEF TypeOK, TotpPost
  <1>9. CASE TotpCount(r)
    <2>1. pc' \in [Requests -> Labels]
      BY <1>9, GotoType, DoneType DEF TotpCount, Labels
    <2> QED
      BY <1>9, <2>1, DoneType DEF TypeOK, TotpCount
  <1>10. CASE TotpState(r)
    <2>1. [loc[r] EXCEPT !.secret = user.secret, !.last = user.last] \in Locals
      BY SetSecret, SetLast, LocalsFields DEF TypeOK, User
    <2>2. loc' \in [Requests -> Locals]
      BY <1>10, <2>1, CarryType DEF TypeOK, TotpState
    <2>3. pc' \in [Requests -> Labels]
      BY <1>10, GotoType DEF TotpState, Labels
    <2> QED
      BY <1>10, <2>2, <2>3 DEF TypeOK, TotpState
  <1>11. CASE TotpVerify(r)
    <2>1. \A t \in Steps : [loc[r] EXCEPT !.step = t] \in Locals
      BY SetStep, LocalsFields DEF TypeOK
    <2>2. loc' \in [Requests -> Locals]
      BY <1>11, <2>1, CarryType, DoneType, AfterCodeType DEF TypeOK, TotpVerify
    <2>3. pc' \in [Requests -> Labels]
      BY <1>11, GotoType, DoneType DEF TotpVerify, Labels
    <2> QED
      BY <1>11, <2>2, <2>3 DEF TypeOK, TotpVerify
  <1>12. CASE TotpRecovery(r)
    <2>1. [AfterCode(r) EXCEPT !.strong = TRUE] \in Locals
      BY AfterCodeType, SetStrong, LocalsFields DEF TypeOK
    <2>2. loc' \in [Requests -> Locals]
      BY <1>12, <2>1, CarryType DEF TypeOK, TotpRecovery
    <2>3. pc' \in [Requests -> Labels]
      BY <1>12, GotoType DEF TotpRecovery, Labels
    <2>4. uses' \in Acceptances
      BY <1>12, AcceptType DEF TypeOK, TotpRecovery
    <2> QED
      BY <1>12, <2>2, <2>3, <2>4 DEF TypeOK, TotpRecovery, Marked
  <1>13. CASE TotpClaim(r)
    <2>1. [AfterCode(r) EXCEPT !.strong = TRUE] \in Locals
      BY AfterCodeType, SetStrong, LocalsFields DEF TypeOK
    <2>2. loc' \in [Requests -> Locals]
      BY <1>13, <2>1, CarryType, DoneType DEF TypeOK, TotpClaim
    <2>3. pc' \in [Requests -> Labels]
      BY <1>13, GotoType, DoneType DEF TotpClaim, Labels
    <2>4. uses' \in Acceptances
      BY <1>13, AcceptType DEF TypeOK, TotpClaim
    <2>5. user' \in User
      BY <1>13, LocalsFields DEF TypeOK, TotpClaim, User
    <2> QED
      BY <1>13, <2>2, <2>3, <2>4, <2>5 DEF TypeOK, TotpClaim
  <1>14. CASE TotpConsume(r)
    <2>1. [loc[r] EXCEPT !.pid = None] \in Locals
      BY SetPid, LocalsFields DEF TypeOK
    <2>2. loc' \in [Requests -> Locals]
      BY <1>14, <2>1, CarryType, DoneType DEF TypeOK, TotpConsume
    <2>3. pc' \in [Requests -> Labels]
      BY <1>14, GotoType, DoneType DEF TotpConsume, Labels
    <2>4. uses' \in Acceptances
      <3>1. [uses EXCEPT !.pending = Bump(@, loc[r].pid)] \in Acceptances
        BY AcceptType DEF TypeOK
      <3>2. uses \in Acceptances
        BY DEF TypeOK
      <3> QED
        BY <1>14, <3>1, <3>2 DEF TotpConsume
    <2>5. pendings' \in [PendingIds -> Pending]
      <3>1. ASSUME loc[r].pid \in PendingIds
            PROVE  [pendings[loc[r].pid] EXCEPT !.state = "consumed"] \in
               Pending
        BY <3>1, PendingState DEF TypeOK
      <3>2. [pendings EXCEPT ![loc[r].pid].state = "consumed"] \in [PendingIds
            -> Pending]
        BY <3>1 DEF TypeOK
      <3> QED
        BY <1>14, <3>2 DEF TypeOK, TotpConsume
    <2> QED
      BY <1>14, <2>2, <2>3, <2>4, <2>5 DEF TypeOK, TotpConsume
  <1>15. CASE TotpFail(r)
    <2>1. pc' \in [Requests -> Labels]
      BY <1>15, DoneType DEF TotpFail, Labels
    <2>2. loc' \in [Requests -> Locals]
      BY <1>15, DoneType DEF TotpFail
    <2>3. pendings' \in [PendingIds -> Pending]
      <3>1. ASSUME loc[r].pid \in PendingIds
            PROVE  [pendings[loc[r].pid] EXCEPT !.attempts =
                       IF loc[r].pid \in Stored THEN Counted(@) ELSE @] \in
                          Pending
        BY <3>1 DEF TypeOK, Pending, Counted
      <3> QED
        BY <1>15, <3>1 DEF TypeOK, TotpFail
    <2> QED
      BY <1>15, <2>1, <2>2, <2>3 DEF TypeOK, TotpFail
  <1>16. CASE PasswordBegin(r)
    BY <1>16, BeginType DEF PasswordBegin, Labels
  <1>17. CASE PasswordCommit(r)
    <2>1. pc' \in [Requests -> Labels] /\ loc' \in [Requests -> Locals]
      BY <1>17, DoneType DEF PasswordCommit
    <2>2. sessions' \in SUBSET Session
      BY <1>17, LocalsFields DEF TypeOK, PasswordCommit, Session
    <2> QED
      BY <1>17, <2>1, <2>2 DEF TypeOK, PasswordCommit
  <1>18. CASE SetupBegin(r)
    BY <1>18, BeginType DEF SetupBegin, Labels
  <1>19. CASE SetupSet(r)
    <2>1. pc' \in [Requests -> Labels]
      BY <1>19, DoneType DEF SetupSet, Labels
    <2> QED
      BY <1>19, <2>1, DoneType DEF TypeOK, SetupSet, User
  <1>20. CASE CancelBegin(r)
    BY <1>20, BeginType DEF CancelBegin, Labels
  <1>21. CASE CancelClear(r)
    <2>1. pc' \in [Requests -> Labels]
      BY <1>21, DoneType DEF CancelClear, Labels
    <2> QED
      BY <1>21, <2>1, DoneType DEF TypeOK, CancelClear, User
  <1>22. CASE ConfirmBegin(r)
    BY <1>22, BeginType DEF ConfirmBegin, Labels
  <1>23. CASE ConfirmRead(r)
    <2>1. [loc[r] EXCEPT !.secret = user.pending] \in Locals
      BY SetSecret, LocalsFields DEF TypeOK, User
    <2>2. loc' \in [Requests -> Locals]
      BY <1>23, <2>1, CarryType, DoneType DEF TypeOK, ConfirmRead
    <2>3. pc' \in [Requests -> Labels]
      BY <1>23, GotoType, DoneType DEF ConfirmRead, Labels
    <2> QED
      BY <1>23, <2>2, <2>3 DEF TypeOK, ConfirmRead
  <1>24. CASE ConfirmVerify(r)
    <2>1. \A t \in Steps : [loc[r] EXCEPT !.step = t] \in Locals
      BY SetStep, LocalsFields DEF TypeOK
    <2>2. loc' \in [Requests -> Locals]
      BY <1>24, <2>1, CarryType, DoneType DEF TypeOK, ConfirmVerify
    <2>3. pc' \in [Requests -> Labels]
      BY <1>24, GotoType, DoneType DEF ConfirmVerify, Labels
    <2> QED
      BY <1>24, <2>2, <2>3 DEF TypeOK, ConfirmVerify
  <1>25. CASE ConfirmActivate(r)
    <2>1. [AfterCode(r) EXCEPT !.then = "cf_codes", !.old = Ids(sessions) \
          {loc[r].sid}] \in Locals
      BY IdsType, AfterCodeType, SetThen, SetOld, LocalsFields DEF TypeOK
    <2>2. loc' \in [Requests -> Locals]
      BY <1>25, <2>1, CarryType DEF TypeOK, ConfirmActivate
    <2>3. pc' \in [Requests -> Labels]
      BY <1>25, GotoType DEF ConfirmActivate, Labels, TypeOK, Locals
    <2>4. uses' \in Acceptances
      BY <1>25, AcceptType DEF TypeOK, ConfirmActivate
    <2>5. user' \in User
      BY <1>25, LocalsFields DEF TypeOK, ConfirmActivate, User
    <2>6. sessions' \in SUBSET Session
      BY <1>25 DEF TypeOK, ConfirmActivate, Session
    <2> QED
      BY <1>25, <2>2, <2>3, <2>4, <2>5, <2>6, WithoutStepType
         DEF TypeOK, ConfirmActivate
  <1>26. CASE NewCodes(r)
    <2>1. pc' \in [Requests -> Labels]
      BY <1>26, DoneType DEF NewCodes, Labels
    <2> QED
      BY <1>26, <2>1, DoneType DEF TypeOK, NewCodes
  <1>47. CASE DeleteCodes(r)
    <2>1. [loc[r] EXCEPT !.doomed = recovery] \in Locals
      BY SetDoomed DEF TypeOK
    <2>2. loc' \in [Requests -> Locals]
      BY <1>47, <2>1, CarryType DEF DeleteCodes
    <2>3. pc' \in [Requests -> Labels]
      BY <1>47, GotoType DEF DeleteCodes, Labels
    <2> QED
      BY <1>47, <2>2, <2>3 DEF TypeOK, DeleteCodes
  <1>27. CASE RegenerateBegin(r)
    BY <1>27, BeginType DEF RegenerateBegin, Labels
  <1>28. CASE RegenerateRead(r)
    <2>1. pc' \in [Requests -> Labels]
      BY <1>28, GotoType, DoneType DEF RegenerateRead, Labels
    <2> QED
      BY <1>28, <2>1, DoneType DEF TypeOK, RegenerateRead
  <1>29. CASE DisableBegin(r)
    BY <1>29, BeginType DEF DisableBegin, Labels
  <1>30. CASE DisableRead(r)
    <2>1. [loc[r] EXCEPT !.secret = user.secret, !.last = user.last] \in Locals
      BY SetSecret, SetLast, LocalsFields DEF TypeOK, User
    <2>2. loc' \in [Requests -> Locals]
      BY <1>30, <2>1, CarryType DEF TypeOK, DisableRead
    <2>3. pc' \in [Requests -> Labels]
      BY <1>30, GotoType DEF DisableRead, Labels
    <2> QED
      BY <1>30, <2>2, <2>3 DEF TypeOK, DisableRead
  <1>31. CASE DisableVerify(r)
    <2>1. \A t \in Steps : [loc[r] EXCEPT !.step = t] \in Locals
      BY SetStep, LocalsFields DEF TypeOK
    <2>2. loc' \in [Requests -> Locals]
      BY <1>31, <2>1, CarryType, DoneType DEF TypeOK, DisableVerify
    <2>3. pc' \in [Requests -> Labels]
      BY <1>31, GotoType, DoneType DEF DisableVerify, Labels
    <2> QED
      BY <1>31, <2>2, <2>3 DEF TypeOK, DisableVerify
  <1>32. CASE DisableRecovery(r)
    <2>1. loc' \in [Requests -> Locals]
      BY <1>32, CarryType, AfterCodeType DEF TypeOK, DisableRecovery
    <2>2. pc' \in [Requests -> Labels]
      BY <1>32, GotoType DEF DisableRecovery, Labels
    <2>3. uses' \in Acceptances
      BY <1>32, AcceptType DEF TypeOK, DisableRecovery
    <2> QED
      BY <1>32, <2>1, <2>2, <2>3 DEF TypeOK, DisableRecovery, Marked
  <1>33. CASE DisableClaim(r)
    <2>1. loc' \in [Requests -> Locals]
      BY <1>33, CarryType, DoneType, AfterCodeType DEF TypeOK, DisableClaim
    <2>2. pc' \in [Requests -> Labels]
      BY <1>33, GotoType, DoneType DEF DisableClaim, Labels
    <2>3. uses' \in Acceptances
      BY <1>33, AcceptType DEF TypeOK, DisableClaim
    <2>4. user' \in User
      BY <1>33, LocalsFields DEF TypeOK, DisableClaim, User
    <2> QED
      BY <1>33, <2>1, <2>2, <2>3, <2>4 DEF TypeOK, DisableClaim
  <1>34. CASE DisableCommit(r)
    <2>1. [loc[r] EXCEPT !.then = "audit", !.old = Ids(sessions) \ {loc[r].sid}]
          \in Locals
      BY IdsType, SetThen, SetOld, LocalsFields DEF TypeOK
    <2>2. loc' \in [Requests -> Locals]
      BY <1>34, <2>1, CarryType DEF TypeOK, DisableCommit
    <2>3. pc' \in [Requests -> Labels]
      BY <1>34, GotoType DEF DisableCommit, Labels, TypeOK, Locals
    <2> QED
      BY <1>34, <2>2, <2>3, WithoutStepType DEF TypeOK, DisableCommit, User
  <1>35. CASE RevokeBegin(r)
    <2>1. \A s \in sessions : [loc[r] EXCEPT !.sid = s.id, !.then = "audit",
          !.old = Ids(sessions) \ {s.id}] \in Locals
      BY IdsType, SetSid, SetThen, SetOld, LocalsFields DEF TypeOK, Session
    <2>2. loc' \in [Requests -> Locals]
      BY <1>35, <2>1, CarryType DEF TypeOK, RevokeBegin
    <2>3. pc' \in [Requests -> Labels]
      BY <1>35, GotoType DEF RevokeBegin, Labels, TypeOK, Locals
    <2> QED
      BY <1>35, <2>2, <2>3 DEF TypeOK, RevokeBegin
  <1>36. CASE RevokeList(r)
    <2>1. [loc[r] EXCEPT !.victims = Ids(sessions) \ {loc[r].sid}] \in Locals
      BY IdsType, SetVictims, LocalsFields DEF TypeOK
    <2>2. loc' \in [Requests -> Locals]
      BY <1>36, <2>1, CarryType DEF TypeOK, RevokeList
    <2>3. pc' \in [Requests -> Labels]
      BY <1>36, GotoType DEF RevokeList, Labels
    <2>4. sessions' \in SUBSET Session
      BY <1>36, SparedType DEF TypeOK, RevokeList
    <2> QED
      BY <1>36, <2>2, <2>3, <2>4 DEF TypeOK, RevokeList
  <1>37. CASE RevokeDelete(r)
    <2>1. \A i \in loc[r].victims : [loc[r] EXCEPT !.victims = @ \ {i}] \in
          Locals
      BY SetVictims, LocalsFields DEF TypeOK
    <2>2. loc' \in [Requests -> Locals]
      BY <1>37, <2>1, CarryType DEF TypeOK, RevokeDelete
    <2>3. sessions' \in SUBSET Session
      <3> DEFINE S(i) == {s \in sessions : s.id = i}
      <3>1. \A i : Spared(S(i)) \in SUBSET Session
        BY SparedType DEF TypeOK
      <3> QED
        BY <1>37, <3>1 DEF TypeOK, RevokeDelete
    <2> QED
      BY <1>37, <2>2, <2>3 DEF TypeOK, RevokeDelete
  <1>38. CASE RevokeEnd(r)
    <2>1. pc' \in [Requests -> Labels]
      BY <1>38, GotoType DEF RevokeEnd, Labels, TypeOK, Locals
    <2> QED
      BY <1>38, <2>1 DEF TypeOK, RevokeEnd
  <1>39. CASE Audit(r)
    <2>1. pc' \in [Requests -> Labels]
      BY <1>39, DoneType DEF Audit, Labels
    <2> QED
      BY <1>39, <2>1, DoneType DEF TypeOK, Audit
  <1>40. CASE BanSet(r)
    <2>1. pc' \in [Requests -> Labels]
      BY <1>40, GotoType DEF BanSet, Labels
    <2> QED
      BY <1>40, <2>1 DEF TypeOK, BanSet, User
  <1>41. CASE BanDelete(r)
    <2>1. pc' \in [Requests -> Labels]
      BY <1>41, DoneType DEF BanDelete, Labels
    <2> QED
      BY <1>41, <2>1, DoneType DEF TypeOK, BanDelete, Session, Locals
  <1>42. CASE Unban(r)
    <2> QED
      BY <1>42 DEF TypeOK, Unban, User
  <1>43. CASE RevokeAll(r)
    <2> QED
      BY <1>43 DEF TypeOK, RevokeAll, Session, Locals
  <1>44. CASE SetFeature(r)
    <2> QED
      BY <1>44 DEF TypeOK, SetFeature
  <1>45. CASE Logout(r)
    <2> QED
      BY <1>45 DEF TypeOK, Logout, Session, Locals
  <1>46. CASE Abandon(r)
    <2>1. pc' \in [Requests -> Labels]
      BY <1>46, DoneType DEF Abandon, Labels
    <2> QED
      BY <1>46, <2>1, DoneType DEF TypeOK, Abandon
  <1> QED
    BY <1>1, <1>2, <1>3, <1>4, <1>5, <1>6, <1>7, <1>8, <1>9, <1>10, <1>11,
       <1>12, <1>13, <1>14, <1>15, <1>16, <1>17, <1>18, <1>19, <1>20, <1>21,
       <1>22, <1>23, <1>24, <1>25, <1>26, <1>27, <1>28, <1>29, <1>30, <1>31,
       <1>32, <1>33, <1>34, <1>35, <1>36, <1>37, <1>38, <1>39, <1>40, <1>41,
       <1>42, <1>43, <1>44, <1>45, <1>46, <1>47 DEF Step, PasswordStep, CompleteLogin,
       TotpStep, ChangePassword, Enrol, Disable, Revoke, Administer

\* Every reachable state of the account is well typed.
THEOREM TypeCorrect == Spec => []TypeOK
  <1>1. Init => TypeOK
    <2> SUFFICES ASSUME Init
                 PROVE  TypeOK
      OBVIOUS
    <2>1. user \in User
      BY DataAssumption DEF Init, User
    <2>2. pendings \in [PendingIds -> Pending]
      BY DataAssumption DEF Init, Pending
    <2>3. sessions \in SUBSET Session
      <3>1. \A i \in SessionIds :
                [id |-> i, strong |-> Enrolled, spared |-> FALSE] \in Session
        BY DataAssumption DEF Session
      <3>2. sessions = {} \/ \E i \in SessionIds :
                sessions = {[id |-> i, strong |-> Enrolled, spared |-> FALSE]}
        BY DEF Init
      <3> QED
        BY <3>1, <3>2
    <2>4. loc \in [Requests -> Locals] /\ pc \in [Requests -> Labels]
      BY NoLocalsType DEF Init, Labels
    <2>5. uses \in Acceptances
      BY DEF Init, Acceptances
    <2>6. recovery \in SUBSET Codes /\ issued \in SUBSET Codes
      BY DEF Init
    <2>7. /\ drawn \in SUBSET Secrets /\ reset \in SUBSET Secrets
          /\ now \in 0..MaxTime /\ feature \in BOOLEAN
      BY LimitsAssumption DEF Init
    <2> QED
      BY <2>1, <2>2, <2>3, <2>4, <2>5, <2>6, <2>7 DEF TypeOK
  <1>2. TypeOK /\ [Next]_vars => TypeOK'
    <2> SUFFICES ASSUME TypeOK, [Next]_vars
                 PROVE  TypeOK'
      OBVIOUS
    <2>1. CASE \E r \in Requests : Step(r)
      BY <2>1, TypeStep
    <2>2. CASE SessionRefused
      BY <2>2 DEF SessionRefused, TypeOK, history
    <2>3. CASE Tick
      BY <2>3, LimitsAssumption DEF Tick, TypeOK, store, history
    <2>4. CASE UNCHANGED vars
      BY <2>4 DEF vars, TypeOK
    <2> QED
      BY <2>1, <2>2, <2>3, <2>4 DEF Next
  <1> QED
    BY <1>1, <1>2, PTL DEF Spec

-----------------------------------------------------------------------------
(***************************************************************************)
(* What a step of a request leaves alone.                                  *)
(***************************************************************************)

\* A request moves no program counter and no local but its own.
LEMMA OthersKept ==
    ASSUME TypeOK, NEW r \in Requests, Step(r), NEW q \in Requests, q # r
    PROVE  pc'[q] = pc[q] /\ loc'[q] = loc[q]
  <1> USE DEF TypeOK, Goto, Done, Carry
  <1>1. CASE PasswordStep(r)
    BY <1>1 DEF PasswordStep, LoginUser, LoginFeature, LoginState, PendingClean,
                PendingInsert
  <1>2. CASE CompleteLogin(r)
    BY <1>2 DEF CompleteLogin, SessionsDelete, SessionInsert
  <1>3. CASE TotpStep(r)
    BY <1>3 DEF TotpStep, TotpPost, TotpCount, TotpState, TotpVerify,
                TotpRecovery, TotpClaim, TotpConsume, TotpFail
  <1>4. CASE ChangePassword(r)
    BY <1>4 DEF ChangePassword, PasswordBegin, PasswordCommit, Begin
  <1>5. CASE Enrol(r)
    BY <1>5 DEF Enrol, SetupBegin, SetupSet, CancelBegin, CancelClear,
                ConfirmBegin, ConfirmRead, ConfirmVerify, ConfirmActivate,
                DeleteCodes, NewCodes, RegenerateBegin, RegenerateRead, Begin
  <1>6. CASE Disable(r)
    BY <1>6 DEF Disable, DisableBegin, DisableRead, DisableVerify,
                DisableRecovery, DisableClaim, DisableCommit, Begin
  <1>7. CASE Revoke(r)
    BY <1>7 DEF Revoke, RevokeBegin, RevokeList, RevokeDelete, RevokeEnd, Audit
  <1>8. CASE Administer(r)
    BY <1>8 DEF Administer, BanSet, BanDelete, Unban, RevokeAll, SetFeature
  <1>9. CASE Logout(r) \/ Abandon(r)
    BY <1>9 DEF Logout, Abandon
  <1> QED
    BY <1>1, <1>2, <1>3, <1>4, <1>5, <1>6, <1>7, <1>8, <1>9 DEF Step

-----------------------------------------------------------------------------
(***************************************************************************)
(* The attempt cap.  A request past the check of pending_login may still   *)
(* count one failure, so failures and such requests are counted together.  *)
(***************************************************************************)
AttemptsInv ==
    \A i \in PendingIds :
        pendings[i].attempts + Cardinality(Guessing(i))
            <= MaxAttempts + Cardinality(Requests) - 1

\* The requests that guess are some of the requests.
LEMMA GuessingFinite ==
    ASSUME NEW i
    PROVE  /\ IsFiniteSet(Guessing(i))
           /\ Cardinality(Guessing(i)) \in Nat
           /\ Cardinality(Guessing(i)) <= Cardinality(Requests)
           /\ Cardinality(Requests) \in Nat
  BY RequestsAssumption, FS_Subset, FS_CardinalityType DEF Guessing

\* No handler but login_totp_post gets to the statements of a guess.
LEMMA OnlyTotpStepsGuess ==
    ASSUME TypeOK, NEW r \in Requests, Step(r),
           pc'[r] \in {"tp_count", "tp_state", "tp_code", "tp_fail"}
    PROVE  TotpStep(r)
  <1> SUFFICES ASSUME ~TotpStep(r)
               PROVE  FALSE
    OBVIOUS
  <1> USE DEF TypeOK, Goto, Done
  <1>1. CASE PasswordStep(r)
    BY <1>1 DEF PasswordStep, LoginUser, LoginFeature, LoginState, PendingClean,
                PendingInsert
  <1>2. CASE CompleteLogin(r)
    BY <1>2 DEF CompleteLogin, SessionsDelete, SessionInsert
  <1>3. CASE ChangePassword(r)
    BY <1>3 DEF ChangePassword, PasswordBegin, PasswordCommit, Begin
  <1>4. CASE Enrol(r)
    BY <1>4 DEF Enrol, SetupBegin, SetupSet, CancelBegin, CancelClear,
                ConfirmBegin, ConfirmRead, ConfirmVerify, ConfirmActivate,
                DeleteCodes, NewCodes, RegenerateBegin, RegenerateRead, Begin
  <1>5. CASE Disable(r)
    BY <1>5 DEF Disable, DisableBegin, DisableRead, DisableVerify,
                DisableRecovery, DisableClaim, DisableCommit, Begin
  <1>6. CASE Revoke(r)
    <2>1. CASE RevokeEnd(r)
      BY <2>1 DEF RevokeEnd, Locals
    <2> QED
      BY <1>6, <2>1 DEF Revoke, RevokeBegin, RevokeList, RevokeDelete, Audit
  <1>7. CASE Administer(r)
    BY <1>7 DEF Administer, BanSet, BanDelete, Unban, RevokeAll, SetFeature, May
  <1>8. CASE Logout(r) \/ Abandon(r)
    BY <1>8 DEF Logout, Abandon, May
  <1> QED
    BY <1>1, <1>2, <1>3, <1>4, <1>5, <1>6, <1>7, <1>8 DEF Step

\* Only TotpPost makes a request guess, and only one.
LEMMA GuessingStep ==
    ASSUME TypeOK, NEW r \in Requests, Step(r), NEW i \in PendingIds
    PROVE  \/ Guessing(i)' \subseteq Guessing(i)
           \/ TotpPost(r) /\ Usable(i)
  <1>1. CASE pc'[r] \in {"tp_count", "tp_state", "tp_code", "tp_fail"} /\ loc'[r].pid = i
    <2>1. CASE TotpPost(r)
      <3>1. PICK j \in PendingIds : /\ Usable(j)
                                    /\ loc'[r] = [loc[r] EXCEPT !.pid = j]
        BY <2>1 DEF TotpPost, Carry, TypeOK
      <3>2. loc'[r].pid = j
        BY <3>1 DEF TypeOK, Locals
      <3> QED
        BY <1>1, <2>1, <3>1, <3>2
    <2>2. CASE ~TotpPost(r)
      <3>1. TotpStep(r)
        BY <1>1, OnlyTotpStepsGuess
      <3>2. loc[r] \in Locals
        BY DEF TypeOK
      <3>3. pc[r] \in {"tp_count", "tp_state", "tp_code", "tp_fail"} /\ loc[r].pid = i
        <4>0. /\ \A x, y : [loc[r] EXCEPT !.secret = x, !.last = y].pid = loc[r].pid
              /\ \A x : [loc[r] EXCEPT !.step = x].pid = loc[r].pid
              /\ AfterCode(r).pid = loc[r].pid
          BY <3>2 DEF AfterCode, Locals
        <4> USE DEF TypeOK, Goto, Done, Carry
        <4>1. CASE TotpCount(r)
          BY <1>1, <4>1 DEF TotpCount
        <4>2. CASE TotpState(r)
          <5>1. [loc[r] EXCEPT !.secret = user.secret, !.last = user.last].pid
                    = loc[r].pid
            BY <4>0
          <5> QED
            BY <1>1, <4>2, <5>1 DEF TotpState
        <4>3. CASE TotpVerify(r)
          BY <1>1, <4>0, <4>3 DEF TotpVerify
        <4>4. CASE TotpRecovery(r) \/ TotpClaim(r) \/ TotpConsume(r) \/ TotpFail(r)
          BY <1>1, <4>4 DEF TotpRecovery, TotpClaim, TotpConsume, TotpFail
        <4> QED
          BY <2>2, <3>1, <4>1, <4>2, <4>3, <4>4 DEF TotpStep
      <3> QED
        BY <3>3, OthersKept DEF Guessing
    <2> QED
      BY <2>1, <2>2
  <1>2. CASE ~(pc'[r] \in {"tp_count", "tp_state", "tp_code", "tp_fail"} /\ loc'[r].pid = i)
    BY <1>2, OthersKept DEF Guessing
  <1> QED
    BY <1>1, <1>2

\* Four statements write the table of pending logins.
LEMMA PendingsStep ==
    ASSUME NEW r \in Requests, Step(r)
    PROVE  \/ UNCHANGED pendings
           \/ PendingClean(r) \/ PendingInsert(r) \/ TotpConsume(r) \/ TotpFail(r)
  <1> USE DEF store
  <1>1. CASE PasswordStep(r) \/ CompleteLogin(r) \/ TotpStep(r)
    BY <1>1 DEF PasswordStep, LoginUser, LoginFeature, LoginState, CompleteLogin,
                SessionsDelete, SessionInsert, TotpStep, TotpPost, TotpCount,
                TotpState, TotpVerify, TotpRecovery, TotpClaim
  <1>2. CASE ChangePassword(r) \/ Enrol(r)
    BY <1>2 DEF ChangePassword, PasswordBegin, PasswordCommit, Begin, Enrol, SetupBegin,
                SetupSet, CancelBegin, CancelClear, ConfirmBegin, ConfirmRead,
                ConfirmVerify, ConfirmActivate, DeleteCodes, NewCodes, RegenerateBegin,
                RegenerateRead, Begin
  <1>3. CASE Disable(r) \/ Revoke(r)
    BY <1>3 DEF Disable, DisableBegin, DisableRead, DisableVerify, DisableRecovery,
                DisableClaim, DisableCommit, Begin, Revoke, RevokeBegin, RevokeList,
                RevokeDelete, RevokeEnd, Audit
  <1>4. CASE Administer(r) \/ Logout(r) \/ Abandon(r)
    BY <1>4 DEF Administer, BanSet, BanDelete, Unban, RevokeAll, SetFeature, Logout,
                Abandon
  <1> QED
    BY <1>1, <1>2, <1>3, <1>4 DEF Step

\* Failures are counted by TotpFail only, and reset for a fresh row only, which
\* is the only one that gets another date.
LEMMA AttemptsStep ==
    ASSUME TypeOK, NEW r \in Requests, Step(r), NEW i \in PendingIds
    PROVE  \/ /\ pendings'[i].attempts = pendings[i].attempts
              /\ pendings'[i].created = pendings[i].created
           \/ pendings'[i].attempts = 0
           \/ /\ TotpFail(r) /\ loc[r].pid = i
              /\ pendings'[i].attempts = pendings[i].attempts + 1
              /\ pendings'[i].created = pendings[i].created
  <1> USE DEF TypeOK
  <1>1. CASE UNCHANGED pendings
    BY <1>1
  <1>2. CASE PendingClean(r) \/ PendingInsert(r)
    BY <1>2 DEF PendingClean, PendingInsert, Pending
  <1>3. CASE TotpConsume(r)
    BY <1>3 DEF TotpConsume, Pending
  <1>4. CASE TotpFail(r)
    BY <1>4 DEF TotpFail, Counted, Pending
  <1> QED
    BY <1>1, <1>2, <1>3, <1>4, PendingsStep

\* TotpFail ends the guess it counts.
LEMMA FailEndsGuess ==
    ASSUME TypeOK, NEW r \in Requests, TotpFail(r), Step(r),
           NEW i \in PendingIds, loc[r].pid = i
    PROVE  /\ r \in Guessing(i)
           /\ Guessing(i)' \subseteq Guessing(i) \ {r}
  <1>1. pc[r] = "tp_fail" /\ pc'[r] = "idle"
    BY DEF TotpFail, Done, Goto, TypeOK
  <1> QED
    BY <1>1, OthersKept DEF Guessing

\* Failures of a pending login and guesses under way never exceed the cap by
\* more than the other requests.
LEMMA AttemptsInvStep ==
    ASSUME TypeOK, AttemptsInv, NEW r \in Requests, Step(r)
    PROVE  AttemptsInv'
  <1> SUFFICES ASSUME NEW i \in PendingIds
               PROVE  pendings'[i].attempts + Cardinality(Guessing(i)')
                          <= MaxAttempts + Cardinality(Requests) - 1
    BY DEF AttemptsInv
  <1>1. /\ pendings[i].attempts \in Nat /\ pendings'[i].attempts \in Nat
        /\ MaxAttempts \in Nat /\ MaxAttempts >= 1
    BY TypeStep, LimitsAssumption DEF TypeOK, Pending
  <1>2. /\ IsFiniteSet(Guessing(i)) /\ Cardinality(Guessing(i)) \in Nat
        /\ Cardinality(Guessing(i)) <= Cardinality(Requests)
        /\ Cardinality(Requests) \in Nat
    BY GuessingFinite
  <1>3. /\ IsFiniteSet(Guessing(i)') /\ Cardinality(Guessing(i)') \in Nat
        /\ Cardinality(Guessing(i)') <= Cardinality(Requests)
    BY RequestsAssumption, FS_Subset, FS_CardinalityType DEF Guessing
  <1>4. Guessing(i)' \subseteq Guessing(i)
            => Cardinality(Guessing(i)') <= Cardinality(Guessing(i))
    BY <1>2, FS_Subset
  <1>5. pendings[i].attempts + Cardinality(Guessing(i))
            <= MaxAttempts + Cardinality(Requests) - 1
    BY DEF AttemptsInv
  <1>6. CASE pendings'[i].attempts = 0
    BY <1>1, <1>2, <1>3, <1>6
  <1>7. CASE TotpFail(r) /\ loc[r].pid = i /\ pendings'[i].attempts = pendings[i].attempts + 1
    <2>1. r \in Guessing(i) /\ Guessing(i)' \subseteq Guessing(i) \ {r}
      BY <1>7, FailEndsGuess
    <2>2. Cardinality(Guessing(i)') <= Cardinality(Guessing(i) \ {r})
      BY <1>2, <2>1, FS_Subset, FS_RemoveElement
    <2>3. Cardinality(Guessing(i) \ {r}) = Cardinality(Guessing(i)) - 1
      BY <1>2, <2>1, FS_RemoveElement
    <2> QED
      BY <1>1, <1>2, <1>3, <1>5, <1>7, <2>2, <2>3
  <1>8. CASE pendings'[i].attempts = pendings[i].attempts
    <2>1. CASE Guessing(i)' \subseteq Guessing(i)
      BY <1>1, <1>2, <1>3, <1>4, <1>5, <1>8, <2>1
    <2>2. CASE Usable(i)
      <3>1. pendings[i].attempts < MaxAttempts
        BY <2>2 DEF Usable
      <3> QED
        BY <1>1, <1>2, <1>3, <1>8, <3>1
    <2> QED
      BY <2>1, <2>2, GuessingStep
  <1> QED
    BY <1>6, <1>7, <1>8, AttemptsStep

\* AttemptsBounded: whatever the number of requests in parallel, a pending login
\* takes at most MaxAttempts failures plus one for each other request.
THEOREM AttemptsSafe == Spec => []AttemptsBounded
  <1>1. Init => AttemptsInv
    <2> SUFFICES ASSUME Init, NEW i \in PendingIds
                 PROVE  pendings[i].attempts + Cardinality(Guessing(i))
                            <= MaxAttempts + Cardinality(Requests) - 1
      BY DEF AttemptsInv
    <2>1. Guessing(i) = {} /\ pendings[i].attempts = 0
      BY DEF Init, Guessing
    <2>2. Cardinality(Requests) \in Nat /\ Cardinality(Guessing(i)) = 0
      BY <2>1, GuessingFinite, FS_EmptySet
    <2>3. MaxAttempts \in Nat /\ MaxAttempts >= 1
      BY LimitsAssumption
    <2> QED
      BY <2>1, <2>2, <2>3
  <1>2. TypeOK /\ AttemptsInv /\ [Next]_vars => AttemptsInv'
    <2> SUFFICES ASSUME TypeOK, AttemptsInv, [Next]_vars
                 PROVE  AttemptsInv'
      OBVIOUS
    <2>1. CASE \E r \in Requests : Step(r)
      BY <2>1, AttemptsInvStep
    <2>2. CASE SessionRefused \/ Tick \/ UNCHANGED vars
      BY <2>2 DEF SessionRefused, Tick, vars, store, AttemptsInv, Guessing
    <2> QED
      BY <2>1, <2>2 DEF Next
  <1>3. TypeOK /\ AttemptsInv => AttemptsBounded
    <2> SUFFICES ASSUME TypeOK, AttemptsInv, NEW i \in PendingIds
                 PROVE  pendings[i].attempts <= MaxAttempts + Cardinality(Requests) - 1
      BY DEF AttemptsBounded
    <2>1. pendings[i].attempts \in Nat /\ Cardinality(Guessing(i)) \in Nat
          /\ Cardinality(Requests) \in Nat /\ MaxAttempts \in Nat
      BY GuessingFinite, LimitsAssumption DEF TypeOK, Pending
    <2> QED
      BY <2>1 DEF AttemptsInv
  <1> QED
    BY <1>1, <1>2, <1>3, TypeCorrect, PTL DEF Spec

-----------------------------------------------------------------------------
(***************************************************************************)
(* Single use.  A token that can still be accepted has not been: the       *)
(* conditional UPDATEs take it away in the statement that accepts it.      *)
(***************************************************************************)
SingleUseInv ==
    /\ \A i \in PendingIds :
        /\ uses.pending[i] <= 1
        /\ pendings[i].state \in {"fresh", "open"} => uses.pending[i] = 0
    /\ recovery \subseteq issued
    /\ \A c \in Codes :
        /\ uses.code[c] <= 1
        /\ c \in recovery \/ c \notin issued => uses.code[c] = 0

\* A statement that touches neither the pending logins, the recovery codes nor
\* their counts keeps the invariant.
LEMMA SingleUseFrame ==
    ASSUME SingleUseInv, UNCHANGED <<pendings, recovery, issued>>,
           uses'.pending = uses.pending, uses'.code = uses.code
    PROVE  SingleUseInv'
  BY DEF SingleUseInv

\* The two statements that accept a recovery code mark it used.
LEMMA SingleUseCode ==
    ASSUME TypeOK, SingleUseInv, NEW c \in recovery,
           recovery' = Marked(c), uses' = [uses EXCEPT !.code = Bump(@, c)],
           UNCHANGED <<pendings, issued>>
    PROVE  SingleUseInv'
  <1>1. uses'.pending = uses.pending /\ uses'.code = Bump(uses.code, c)
    BY DEF TypeOK, Acceptances
  <1>2. \A d \in Codes : uses'.code[d] = IF d = c THEN 1 ELSE uses.code[d]
    BY <1>1 DEF TypeOK, Acceptances, Bump, SingleUseInv
  <1>3. c \in issued /\ c \in Codes /\ recovery' = recovery \ {c}
    BY DEF SingleUseInv, TypeOK, Marked
  <1> QED
    BY <1>1, <1>2, <1>3 DEF SingleUseInv

\* A row of pending_logins that is neither opened nor closed keeps the invariant.
LEMMA SingleUsePendings ==
    ASSUME TypeOK, SingleUseInv, UNCHANGED <<recovery, issued, uses>>,
           \A i \in PendingIds : pendings'[i].state \in {"fresh", "open"}
                                     => pendings[i].state \in {"fresh", "open"}
    PROVE  SingleUseInv'
  BY DEF SingleUseInv

\* A step of a request keeps the invariant.
LEMMA SingleUseStep ==
    ASSUME TypeOK, SingleUseInv, NEW r \in Requests, Step(r)
    PROVE  SingleUseInv'
  <1> USE DEF store, history
  <1>1. CASE PasswordStep(r)
    <2>1. CASE PendingClean(r)
      <3>1. \A i \in PendingIds : pendings'[i].state \in {"fresh", "open"}
                                     => pendings[i].state \in {"fresh", "open"}
        BY <2>1 DEF PendingClean, TypeOK, Pending
      <3> QED
        BY <2>1, <3>1, SingleUsePendings DEF PendingClean
    <2>2. CASE PendingInsert(r)
      <3>1. \A i \in PendingIds : pendings'[i].state \in {"fresh", "open"}
                                     => pendings[i].state \in {"fresh", "open"}
        BY <2>2 DEF PendingInsert, TypeOK, Pending
      <3> QED
        BY <2>2, <3>1, SingleUsePendings DEF PendingInsert
    <2> QED
      BY <1>1, <2>1, <2>2, SingleUseFrame
      DEF PasswordStep, LoginUser, LoginFeature, LoginState
  <1>2. CASE CompleteLogin(r)
    BY <1>2, SingleUseFrame DEF CompleteLogin, SessionsDelete, SessionInsert
  <1>3. CASE TotpStep(r)
    <2>1. CASE TotpRecovery(r)
      BY <2>1, SingleUseCode DEF TotpRecovery
    <2>2. CASE TotpClaim(r)
      <3>1. uses'.pending = uses.pending /\ uses'.code = uses.code
        BY <2>2 DEF TotpClaim, TypeOK, Acceptances
      <3> QED
        BY <2>2, <3>1, SingleUseFrame DEF TotpClaim
    <2>3. CASE TotpConsume(r)
      <3>1. CASE Consumable(loc[r].pid)
        <4> DEFINE i == loc[r].pid
        <4>1. pendings' = [pendings EXCEPT ![i].state = "consumed"]
              /\ uses' = [uses EXCEPT !.pending = Bump(@, i)]
              /\ recovery' = recovery /\ issued' = issued
          BY <2>3, <3>1 DEF TotpConsume
        <4>2. uses'.code = uses.code /\ uses'.pending = Bump(uses.pending, i)
          BY <4>1 DEF TypeOK, Acceptances
        <4>3. ASSUME NEW j \in PendingIds
              PROVE  /\ uses'.pending[j] = IF j = i THEN 1 ELSE uses.pending[j]
                     /\ pendings'[j].state
                            = IF j = i THEN "consumed" ELSE pendings[j].state
          <5>1. pendings[i].state = "open"
            BY <3>1 DEF Consumable
          <5>2. j = i => uses.pending[i] = 0
            BY <5>1 DEF SingleUseInv
          <5>3. uses'.pending[j] = IF j = i THEN 1 ELSE uses.pending[j]
            BY <4>2, <5>2 DEF TypeOK, Acceptances, Bump
          <5>4. pendings'[j].state = IF j = i THEN "consumed" ELSE pendings[j].state
            BY <4>1 DEF TypeOK, Pending
          <5> QED
            BY <5>3, <5>4
        <4> HIDE DEF i
        <4> QED
          BY <4>1, <4>2, <4>3 DEF SingleUseInv
      <3>2. CASE ~Consumable(loc[r].pid)
        BY <2>3, <3>2, SingleUseFrame DEF TotpConsume
      <3> QED
        BY <3>1, <3>2
    <2>4. CASE TotpFail(r)
      <3>1. \A i \in PendingIds : pendings'[i].state = pendings[i].state
        BY <2>4 DEF TotpFail, TypeOK, Pending
      <3> QED
        BY <2>4, <3>1, SingleUsePendings DEF TotpFail
    <2> QED
      BY <1>3, <2>1, <2>2, <2>3, <2>4, SingleUseFrame
      DEF TotpStep, TotpPost, TotpCount, TotpState, TotpVerify
  <1>4. CASE ChangePassword(r)
    BY <1>4, SingleUseFrame DEF ChangePassword, PasswordBegin, PasswordCommit, Begin
  <1>5. CASE Enrol(r)
    <2>1. CASE ConfirmActivate(r)
      <3>1. uses'.pending = uses.pending /\ uses'.code = uses.code
        BY <2>1 DEF ConfirmActivate, TypeOK, Acceptances
      <3> QED
        BY <2>1, <3>1, SingleUseFrame DEF ConfirmActivate
    <2>2. CASE NewCodes(r)
      BY <2>2 DEF NewCodes, SingleUseInv
    <2> QED
      BY <1>5, <2>1, <2>2, SingleUseFrame
      DEF Enrol, SetupBegin, SetupSet, CancelBegin, CancelClear, ConfirmBegin,
          ConfirmRead, ConfirmVerify, DeleteCodes, RegenerateBegin, RegenerateRead, Begin
  <1>6. CASE Disable(r)
    <2>1. CASE DisableRecovery(r)
      BY <2>1, SingleUseCode DEF DisableRecovery
    <2>2. CASE DisableClaim(r)
      <3>1. uses'.pending = uses.pending /\ uses'.code = uses.code
        BY <2>2 DEF DisableClaim, TypeOK, Acceptances
      <3> QED
        BY <2>2, <3>1, SingleUseFrame DEF DisableClaim
    <2>3. CASE DisableCommit(r)
      BY <2>3 DEF DisableCommit, SingleUseInv
    <2> QED
      BY <1>6, <2>1, <2>2, <2>3, SingleUseFrame
      DEF Disable, DisableBegin, DisableRead, DisableVerify, Begin
  <1>7. CASE Revoke(r)
    BY <1>7, SingleUseFrame
    DEF Revoke, RevokeBegin, RevokeList, RevokeDelete, RevokeEnd, Audit
  <1>8. CASE Administer(r)
    BY <1>8, SingleUseFrame
    DEF Administer, BanSet, BanDelete, Unban, RevokeAll, SetFeature
  <1>9. CASE Logout(r) \/ Abandon(r)
    BY <1>9, SingleUseFrame DEF Logout, Abandon
  <1> QED
    BY <1>1, <1>2, <1>3, <1>4, <1>5, <1>6, <1>7, <1>8, <1>9 DEF Step

\* A token that can still be accepted has not been, in every reachable state.
LEMMA SingleUseHolds == Spec => []SingleUseInv
  <1>1. Init => SingleUseInv
    BY DEF Init, SingleUseInv
  <1>2. TypeOK /\ SingleUseInv /\ [Next]_vars => SingleUseInv'
    <2> SUFFICES ASSUME TypeOK, SingleUseInv, [Next]_vars
                 PROVE  SingleUseInv'
      OBVIOUS
    <2>1. CASE \E r \in Requests : Step(r)
      BY <2>1, SingleUseStep
    <2>2. CASE SessionRefused \/ Tick \/ UNCHANGED vars
      BY <2>2, SingleUseFrame DEF SessionRefused, Tick, vars, store, history
    <2> QED
      BY <2>1, <2>2 DEF Next
  <1> QED
    BY <1>1, <1>2, TypeCorrect, PTL DEF Spec

\* PendingOnce and RecoveryOnce: a pending login completes at most one login and
\* a recovery code is accepted at most once, however the requests interleave,
\* fail or are abandoned.
THEOREM SingleUseSafe == Spec => [](PendingOnce /\ RecoveryOnce)
  <1>1. SingleUseInv => PendingOnce /\ RecoveryOnce
    BY DEF SingleUseInv, PendingOnce, RecoveryOnce
  <1> QED
    BY <1>1, SingleUseHolds, PTL

\* RecoveryOnce by itself: a recovery code is accepted once, by the login or by
\* the disable handler, whatever is reissued meanwhile.
COROLLARY RecoverySafe == Spec => []RecoveryOnce
  BY SingleUseSafe, PTL

-----------------------------------------------------------------------------
(***************************************************************************)
(* Pending logins and recovery codes implement OneTime.                    *)
(***************************************************************************)

\* Which steps accept a token, or write the recovery codes.
LEMMA AcceptingStep ==
    ASSUME TypeOK, NEW r \in Requests, Step(r)
    PROVE  /\ uses'.pending = uses.pending \/ TotpConsume(r)
           /\ \/ UNCHANGED <<recovery, issued>> /\ uses'.code = uses.code
              \/ TotpRecovery(r) \/ DisableRecovery(r)
              \/ NewCodes(r) \/ DisableCommit(r)
  <1> USE DEF store, history
  <1>1. CASE PasswordStep(r) \/ CompleteLogin(r)
    BY <1>1 DEF PasswordStep, LoginUser, LoginFeature, LoginState, PendingClean,
                PendingInsert, CompleteLogin, SessionsDelete, SessionInsert
  <1>2. CASE TotpStep(r)
    <2>1. CASE TotpRecovery(r) \/ TotpClaim(r) \/ TotpConsume(r)
      BY <2>1 DEF TotpRecovery, TotpClaim, TotpConsume, TypeOK, Acceptances
    <2> QED
      BY <1>2, <2>1 DEF TotpStep, TotpPost, TotpCount, TotpState, TotpVerify, TotpFail
  <1>3. CASE ChangePassword(r) \/ Enrol(r)
    <2>1. CASE ConfirmActivate(r)
      BY <2>1 DEF ConfirmActivate, TypeOK, Acceptances
    <2>2. CASE NewCodes(r)
      BY <2>2 DEF NewCodes
    <2> QED
      BY <1>3, <2>1, <2>2 DEF ChangePassword, PasswordBegin, PasswordCommit, Begin, Enrol,
         SetupBegin, SetupSet, CancelBegin, CancelClear, ConfirmBegin, ConfirmRead,
         ConfirmVerify, DeleteCodes, RegenerateBegin, RegenerateRead, Begin
  <1>4. CASE Disable(r)
    <2>1. CASE DisableRecovery(r) \/ DisableClaim(r)
      BY <2>1 DEF DisableRecovery, DisableClaim, TypeOK, Acceptances
    <2>2. CASE DisableCommit(r)
      BY <2>2 DEF DisableCommit
    <2> QED
      BY <1>4, <2>1, <2>2 DEF Disable, DisableBegin, DisableRead, DisableVerify, Begin
  <1>5. CASE Revoke(r) \/ Administer(r)
    BY <1>5 DEF Revoke, RevokeBegin, RevokeList, RevokeDelete, RevokeEnd, Audit,
                Administer, BanSet, BanDelete, Unban, RevokeAll, SetFeature
  <1>6. CASE Logout(r) \/ Abandon(r)
    BY <1>6 DEF Logout, Abandon
  <1> QED
    BY <1>1, <1>2, <1>3, <1>4, <1>5, <1>6 DEF Step

\* Rows opened or deleted, and none accepted, are a renewal of the tokens.
LEMMA PendingRenewed ==
    ASSUME SingleUseInv, uses'.pending = uses.pending,
           \A i \in PendingIds :
               \/ pendings'[i].state = pendings[i].state
               \/ pendings[i].state = "fresh" /\ pendings'[i].state = "open"
               \/ pendings[i].state \in {"open", "consumed"}
                  /\ pendings'[i].state = "deleted"
    PROVE  PendingToken!Next
  <1> DEFINE issue == {i \in PendingIds : pendings[i].state = "fresh"
                                          /\ pendings'[i].state = "open"}
             withdraw == {i \in PendingIds : pendings[i].state = "open"
                                             /\ pendings'[i].state = "deleted"}
  <1>1. \A i \in issue : PendingTokenState[i] = "unissued"
    BY DEF PendingTokenState
  <1>2. \A i \in withdraw : PendingTokenState[i] \in {"unissued", "live"}
    BY DEF PendingTokenState
  <1>3. ASSUME NEW i \in PendingIds
        PROVE  PendingTokenState'[i] = IF i \in issue THEN "live"
                                       ELSE IF i \in withdraw THEN "void"
                                       ELSE PendingTokenState[i]
    <2>1. CASE pendings'[i].state = pendings[i].state
      BY <2>1 DEF PendingTokenState
    <2>2. CASE pendings[i].state = "fresh" /\ pendings'[i].state = "open"
      BY <2>2 DEF PendingTokenState
    <2>3. CASE pendings[i].state = "open" /\ pendings'[i].state = "deleted"
      <3>1. uses'.pending[i] = 0
        BY <2>3 DEF SingleUseInv
      <3> QED
        BY <2>3, <3>1 DEF PendingTokenState
    <2>4. CASE pendings[i].state = "consumed" /\ pendings'[i].state = "deleted"
      BY <2>4 DEF PendingTokenState
    <2> QED
      BY <2>1, <2>2, <2>3, <2>4
  <1>4. PendingTokenState' = [i \in PendingIds |->
                                 IF i \in issue THEN "live"
                                 ELSE IF i \in withdraw THEN "void"
                                 ELSE PendingTokenState[i]]
    BY <1>3 DEF PendingTokenState
  <1>5. PendingToken!Renew(issue, withdraw)
    BY <1>1, <1>2, <1>4 DEF PendingToken!Renew
  <1>6. issue \in SUBSET PendingIds /\ withdraw \in SUBSET PendingIds
    OBVIOUS
  <1> HIDE DEF issue, withdraw
  <1> QED
    BY <1>5, <1>6 DEF PendingToken!Next

\* consume_pending_login accepts an open row or does nothing.
LEMMA PendingAccepted ==
    ASSUME TypeOK, SingleUseInv, NEW r \in Requests, TotpConsume(r)
    PROVE  [PendingToken!Next]_(PendingToken!vars)
  <1> DEFINE i == loc[r].pid
  <1>1. CASE Consumable(i) /\ i \in PendingIds
    <2>1. pendings' = [pendings EXCEPT ![i].state = "consumed"]
          /\ uses' = [uses EXCEPT !.pending = Bump(@, i)]
      BY <1>1 DEF TotpConsume
    <2>2. pendings[i].state = "open" /\ uses.pending[i] = 0
      BY <1>1 DEF Consumable, SingleUseInv
    <2>3. uses'.pending = [uses.pending EXCEPT ![i] = @ + 1]
      BY <2>1, <2>2 DEF TypeOK, Acceptances, Bump
    <2>4. ASSUME NEW j \in PendingIds
          PROVE  PendingTokenState'[j] = IF j = i THEN "spent" ELSE PendingTokenState[j]
      <3>1. CASE j = i
        <4>1. pendings'[j].state = "consumed" /\ uses'.pending[j] = 1
          BY <2>1, <2>2, <2>3, <3>1 DEF TypeOK, Pending, Acceptances
        <4> QED
          BY <3>1, <4>1 DEF PendingTokenState
      <3>2. CASE j # i
        <4>1. pendings'[j] = pendings[j] /\ uses'.pending[j] = uses.pending[j]
          BY <2>1, <2>3, <3>2 DEF TypeOK, Acceptances
        <4> QED
          BY <3>2, <4>1 DEF PendingTokenState
      <3> QED
        BY <3>1, <3>2
    <2>5. PendingTokenState' = [PendingTokenState EXCEPT ![i] = "spent"]
      BY <2>4 DEF PendingTokenState
    <2>6. PendingTokenState[i] = "live"
      BY <1>1, <2>2 DEF PendingTokenState
    <2>7. PendingToken!Accept(i)
      BY <2>3, <2>5, <2>6 DEF PendingToken!Accept
    <2> QED
      BY <1>1, <2>7 DEF PendingToken!Next
  <1>2. CASE Consumable(i) /\ i \notin PendingIds
    <2>1. pendings' = pendings
      BY <1>2 DEF TotpConsume, TypeOK
    <2>2. uses'.pending = uses.pending
      BY <1>2 DEF TotpConsume, TypeOK, Acceptances, Bump
    <2> QED
      BY <2>1, <2>2 DEF PendingTokenState, PendingToken!vars
  <1>3. CASE ~Consumable(i)
    BY <1>3 DEF TotpConsume, PendingTokenState, PendingToken!vars
  <1> QED
    BY <1>1, <1>2, <1>3

\* Every step of the account is a step of the pending logins or leaves them alone.
LEMMA PendingTokenStep ==
    ASSUME TypeOK, SingleUseInv, [Next]_vars
    PROVE  [PendingToken!Next]_(PendingToken!vars)
  <1>1. ASSUME NEW r \in Requests, Step(r)
        PROVE  [PendingToken!Next]_(PendingToken!vars)
    <2>1. CASE TotpConsume(r)
      BY <2>1, PendingAccepted
    <2>2. CASE ~TotpConsume(r)
      <3>1. uses'.pending = uses.pending
        BY <1>1, <2>2, AcceptingStep
      <3>2. CASE UNCHANGED pendings
        BY <3>1, <3>2 DEF PendingTokenState, PendingToken!vars
      <3>3. CASE PendingClean(r)
        <4>1. \A i \in PendingIds :
                  \/ pendings'[i].state = pendings[i].state
                  \/ pendings[i].state \in {"open", "consumed"}
                     /\ pendings'[i].state = "deleted"
          BY <3>3 DEF PendingClean, Stored, TypeOK, Pending
        <4> QED
          BY <3>1, <4>1, PendingRenewed
      <3>4. CASE PendingInsert(r)
        <4>1. \A i \in PendingIds :
                  \/ pendings'[i].state = pendings[i].state
                  \/ pendings[i].state = "fresh" /\ pendings'[i].state = "open"
          BY <3>4 DEF PendingInsert, TypeOK, Pending
        <4> QED
          BY <3>1, <4>1, PendingRenewed
      <3>5. CASE TotpFail(r)
        <4>1. \A i \in PendingIds : pendings'[i].state = pendings[i].state
          BY <3>5 DEF TotpFail, TypeOK, Pending
        <4> QED
          BY <3>1, <4>1, PendingRenewed
      <3> QED
        BY <1>1, <2>2, <3>2, <3>3, <3>4, <3>5, PendingsStep
    <2> QED
      BY <2>1, <2>2
  <1>2. CASE SessionRefused \/ Tick \/ UNCHANGED vars
    BY <1>2 DEF SessionRefused, Tick, vars, store, history, PendingTokenState,
                PendingToken!vars
  <1> QED
    BY <1>1, <1>2 DEF Next

\* Codes never issued before that take the place of some of those stored are a
\* renewal of the tokens.
LEMMA RecoveryRenewed ==
    ASSUME SingleUseInv, uses'.code = uses.code, recovery \subseteq Codes,
           NEW B \in SUBSET (Codes \ issued), NEW D,
           recovery' = (recovery \ D) \cup B, issued' = issued \cup B
    PROVE  RecoveryToken!Next
  <1> DEFINE Gone == recovery \cap D
  <1>1. \A c \in B : RecoveryTokenState[c] = "unissued"
    BY DEF RecoveryTokenState, SingleUseInv
  <1>2. \A c \in Gone : RecoveryTokenState[c] = "live"
    BY DEF RecoveryTokenState
  <1>3. ASSUME NEW c \in Codes
        PROVE  RecoveryTokenState'[c] = IF c \in B THEN "live"
                                        ELSE IF c \in Gone THEN "void"
                                        ELSE RecoveryTokenState[c]
    BY DEF RecoveryTokenState, SingleUseInv
  <1>4. RecoveryTokenState' = [c \in Codes |->
                                  IF c \in B THEN "live"
                                  ELSE IF c \in Gone THEN "void"
                                  ELSE RecoveryTokenState[c]]
    BY <1>3 DEF RecoveryTokenState
  <1>5. B \in SUBSET Codes /\ Gone \in SUBSET Codes
    OBVIOUS
  <1> HIDE DEF Gone
  <1>6. RecoveryToken!Renew(B, Gone)
    BY <1>1, <1>2, <1>4 DEF RecoveryToken!Renew
  <1> QED
    BY <1>5, <1>6 DEF RecoveryToken!Next

\* consume_recovery_code accepts a stored code.
LEMMA RecoveryAccepted ==
    ASSUME TypeOK, SingleUseInv, NEW c \in recovery,
           recovery' = Marked(c), issued' = issued,
           uses' = [uses EXCEPT !.code = Bump(@, c)]
    PROVE  RecoveryToken!Next
  <1>1. c \in Codes /\ uses.code[c] = 0 /\ recovery' = recovery \ {c}
    BY DEF TypeOK, SingleUseInv, Marked
  <1>2. uses'.code = [uses.code EXCEPT ![c] = @ + 1]
    BY <1>1 DEF TypeOK, Acceptances, Bump
  <1>3. ASSUME NEW d \in Codes
        PROVE  RecoveryTokenState'[d] = IF d = c THEN "spent" ELSE RecoveryTokenState[d]
    <2>1. CASE d = c
      <3>1. uses'.code[d] = 1 /\ d \notin recovery'
        BY <1>1, <1>2, <2>1 DEF TypeOK, Acceptances
      <3> QED
        BY <2>1, <3>1 DEF RecoveryTokenState
    <2>2. CASE d # c
      <3>1. uses'.code[d] = uses.code[d] /\ (d \in recovery' <=> d \in recovery)
        BY <1>1, <1>2, <2>2 DEF TypeOK, Acceptances
      <3> QED
        BY <2>2, <3>1 DEF RecoveryTokenState
    <2> QED
      BY <2>1, <2>2
  <1>4. RecoveryTokenState' = [RecoveryTokenState EXCEPT ![c] = "spent"]
    BY <1>3 DEF RecoveryTokenState
  <1>5. RecoveryTokenState[c] = "live"
    BY <1>1 DEF RecoveryTokenState
  <1>6. RecoveryToken!Accept(c)
    BY <1>2, <1>4, <1>5 DEF RecoveryToken!Accept
  <1> QED
    BY <1>1, <1>6 DEF RecoveryToken!Next

\* Every step of the account is a step of the recovery codes or leaves them alone.
LEMMA RecoveryTokenStep ==
    ASSUME TypeOK, SingleUseInv, [Next]_vars
    PROVE  [RecoveryToken!Next]_(RecoveryToken!vars)
  <1>1. ASSUME NEW r \in Requests, Step(r)
        PROVE  [RecoveryToken!Next]_(RecoveryToken!vars)
    <2>1. CASE UNCHANGED <<recovery, issued>> /\ uses'.code = uses.code
      BY <2>1 DEF RecoveryTokenState, RecoveryToken!vars
    <2>2. CASE TotpRecovery(r) \/ DisableRecovery(r)
      BY <2>2, RecoveryAccepted DEF TotpRecovery, DisableRecovery
    <2>3. CASE NewCodes(r)
      <3>1. PICK B \in SUBSET (Codes \ issued) :
                /\ recovery' = (recovery \ loc[r].doomed) \cup B
                /\ issued' = issued \cup B
        BY <2>3 DEF NewCodes
      <3>2. uses' = uses /\ recovery \subseteq Codes
        BY <2>3 DEF NewCodes, TypeOK
      <3> QED
        BY <3>1, <3>2, RecoveryRenewed
    <2>4. CASE DisableCommit(r)
      <3>1. /\ recovery' = (recovery \ recovery) \cup {} /\ issued' = issued \cup {}
            /\ uses' = uses /\ recovery \subseteq Codes
        BY <2>4 DEF DisableCommit, TypeOK
      <3> QED
        BY <3>1, RecoveryRenewed
    <2> QED
      BY <1>1, <2>1, <2>2, <2>3, <2>4, AcceptingStep
  <1>2. CASE SessionRefused \/ Tick \/ UNCHANGED vars
    BY <1>2 DEF SessionRefused, Tick, vars, store, history, RecoveryTokenState,
                RecoveryToken!vars
  <1> QED
    BY <1>1, <1>2 DEF Next

\* Every behaviour of the account is one of pending logins that are accepted at
\* most once, only while their row is open, and never come back (src/store.rs,
\* create_pending_login and consume_pending_login).
THEOREM PendingRefinement == Spec => PendingSingleUse
  <1>1. Init => PendingToken!Init
    BY DEF Init, PendingToken!Init, PendingTokenState
  <1>2. TypeOK /\ SingleUseInv /\ [Next]_vars
            => [PendingToken!Next]_(PendingToken!vars)
    BY PendingTokenStep
  <1> QED
    BY <1>1, <1>2, TypeCorrect, SingleUseHolds, PTL
    DEF Spec, PendingSingleUse, PendingToken!Spec

\* The same of recovery codes, at login and where the factor is disabled, whatever
\* is reissued meanwhile (src/store.rs, consume_recovery_code,
\* replace_recovery_codes and disable_totp).
THEOREM RecoveryRefinement == Spec => RecoverySingleUse
  <1>1. Init => RecoveryToken!Init
    BY DEF Init, RecoveryToken!Init, RecoveryTokenState
  <1>2. TypeOK /\ SingleUseInv /\ [Next]_vars
            => [RecoveryToken!Next]_(RecoveryToken!vars)
    BY RecoveryTokenStep
  <1> QED
    BY <1>1, <1>2, TypeCorrect, SingleUseHolds, PTL
    DEF Spec, RecoverySingleUse, RecoveryToken!Spec

-----------------------------------------------------------------------------
(***************************************************************************)
(* Sessions older than the switch of the second factor.  While the         *)
(* revocation deletes, the old sessions left are victims still on its list.*)
(***************************************************************************)
RevocationInv ==
    \A r \in Requests :
        /\ pc[r] \in {"rv_list", "rv_delete"} => loc[r].sid \notin loc[r].old
        /\ pc[r] = "rv_delete" => Ids(Unspared) \cap loc[r].old \subseteq loc[r].victims
        /\ pc[r] \in {"cf_codes", "audit"} => Ids(Unspared) \cap loc[r].old = {}

\* No row of a failed deletion is unspared.
LEMMA SparedRows ==
    ASSUME NEW S \in SUBSET Session
    PROVE  \A t \in Spared(S) : t.spared
  BY DEF Session, Spared

\* A session id that a step adds was on no request's list of old sessions.
LEMMA OldIdsStay ==
    ASSUME TypeOK, NEW r \in Requests, Step(r), NEW q \in Requests
    PROVE  Ids(Unspared') \cap loc[q].old \subseteq Ids(Unspared)
  <1> USE DEF store, Unspared
  <1>1. CASE PasswordStep(r)
    BY <1>1 DEF PasswordStep, LoginUser, LoginFeature, LoginState, PendingClean,
                PendingInsert
  <1>2. CASE CompleteLogin(r)
    <2>1. CASE SessionInsert(r)
      BY <2>1 DEF SessionInsert, FreshId, Ids
    <2> QED
      BY <1>2, <2>1, SparedRows DEF CompleteLogin, SessionsDelete, Ids, TypeOK
  <1>3. CASE TotpStep(r)
    BY <1>3 DEF TotpStep, TotpPost, TotpCount, TotpState, TotpVerify,
                TotpRecovery, TotpClaim, TotpConsume, TotpFail
  <1>4. CASE ChangePassword(r)
    <2>1. CASE PasswordCommit(r)
      BY <2>1 DEF PasswordCommit, FreshId, Ids
    <2> QED
      BY <1>4, <2>1 DEF ChangePassword, PasswordBegin, Begin
  <1>5. CASE Enrol(r)
    <2>1. CASE ConfirmActivate(r)
      <3>1. \A s \in Session : /\ [s EXCEPT !.strong = TRUE].id = s.id
                              /\ [s EXCEPT !.strong = TRUE].spared = s.spared
        BY DEF Session
      <3>2. ASSUME NEW t \in Unspared'
            PROVE  t.id \in Ids(Unspared)
        <4>1. PICK s \in sessions :
                  t = IF s.id = loc[r].sid THEN [s EXCEPT !.strong = TRUE] ELSE s
          BY <2>1, <3>2 DEF ConfirmActivate
        <4>2. s \in Session
          BY DEF TypeOK
        <4>3. t.id = s.id /\ s \in Unspared
          BY <3>1, <3>2, <4>1, <4>2
        <4> QED
          BY <4>3 DEF Ids
      <3> QED
        BY <3>2 DEF Ids
    <2> QED
      BY <1>5, <2>1 DEF Enrol, SetupBegin, SetupSet, CancelBegin, CancelClear,
                        ConfirmBegin, ConfirmRead, ConfirmVerify, DeleteCodes,
                        NewCodes, RegenerateBegin, RegenerateRead, Begin
  <1>6. CASE Disable(r)
    BY <1>6 DEF Disable, DisableBegin, DisableRead, DisableVerify,
                DisableRecovery, DisableClaim, DisableCommit, Begin
  <1>7. CASE Revoke(r)
    <2>1. Unspared' \subseteq Unspared
      <3>1. \A S \in SUBSET sessions : \A t \in Spared(S) : t.spared
        BY SparedRows DEF TypeOK
      <3> QED
        BY <1>7, <3>1 DEF Revoke, RevokeBegin, RevokeList, RevokeDelete, RevokeEnd,
                          Audit
    <2> QED
      BY <2>1 DEF Ids
  <1>8. CASE Administer(r)
    BY <1>8 DEF Administer, BanSet, BanDelete, Unban, RevokeAll, SetFeature, Ids
  <1>9. CASE Logout(r) \/ Abandon(r)
    BY <1>9 DEF Logout, Abandon, Ids
  <1> QED
    BY <1>1, <1>2, <1>3, <1>4, <1>5, <1>6, <1>7, <1>8, <1>9 DEF Step

\* A request is in or past a revocation only by the steps that start it and those
\* of the revocation itself.
LEMMA OnlyRevocationSteps ==
    ASSUME TypeOK, NEW r \in Requests, Step(r),
           pc'[r] \in {"rv_list", "rv_delete", "cf_codes", "audit"}
    PROVE  \/ ConfirmActivate(r) \/ DisableCommit(r) \/ RevokeBegin(r)
           \/ RevokeList(r) \/ RevokeDelete(r) \/ RevokeEnd(r)
  <1> USE DEF TypeOK, Goto, Done
  <1>1. CASE PasswordStep(r)
    BY <1>1 DEF PasswordStep, LoginUser, LoginFeature, LoginState, PendingClean,
                PendingInsert
  <1>2. CASE CompleteLogin(r)
    BY <1>2 DEF CompleteLogin, SessionsDelete, SessionInsert
  <1>3. CASE TotpStep(r)
    BY <1>3 DEF TotpStep, TotpPost, TotpCount, TotpState, TotpVerify,
                TotpRecovery, TotpClaim, TotpConsume, TotpFail
  <1>4. CASE ChangePassword(r)
    BY <1>4 DEF ChangePassword, PasswordBegin, PasswordCommit, Begin
  <1>5. CASE Enrol(r)
    BY <1>5 DEF Enrol, SetupBegin, SetupSet, CancelBegin, CancelClear,
                ConfirmBegin, ConfirmRead, ConfirmVerify, DeleteCodes, NewCodes,
                RegenerateBegin, RegenerateRead, Begin
  <1>6. CASE Disable(r)
    BY <1>6 DEF Disable, DisableBegin, DisableRead, DisableVerify,
                DisableRecovery, DisableClaim, Begin
  <1>7. CASE Revoke(r)
    BY <1>7 DEF Revoke, Audit
  <1>8. CASE Administer(r)
    BY <1>8 DEF Administer, BanSet, BanDelete, Unban, RevokeAll, SetFeature, May
  <1>9. CASE Logout(r) \/ Abandon(r)
    BY <1>9 DEF Logout, Abandon, May
  <1> QED
    BY <1>1, <1>2, <1>3, <1>4, <1>5, <1>6, <1>7, <1>8, <1>9 DEF Step

\* A step keeps the invariant.
LEMMA RevocationStep ==
    ASSUME TypeOK, RevocationInv, NEW r \in Requests, Step(r),
           NEW q \in Requests
    PROVE  /\ pc'[q] \in {"rv_list", "rv_delete"} => loc'[q].sid \notin loc'[q].old
           /\ pc'[q] = "rv_delete"
                  => Ids(Unspared') \cap loc'[q].old \subseteq loc'[q].victims
           /\ pc'[q] \in {"cf_codes", "audit"} => Ids(Unspared') \cap loc'[q].old = {}
  <1>1. CASE q # r
    BY <1>1, OthersKept, OldIdsStay DEF RevocationInv
  <1>2. CASE q = r
    <2>1. CASE pc'[r] \notin {"rv_list", "rv_delete", "cf_codes", "audit"}
      BY <1>2, <2>1
    <2>2. loc[r] \in Locals /\ AfterCode(r) \in Locals
      BY AfterCodeType DEF TypeOK
    <2>3. CASE ConfirmActivate(r)
      <3>1. pc'[r] = "rv_list"
        BY <2>3 DEF ConfirmActivate, Goto, TypeOK
      <3>2. loc'[r] = [AfterCode(r) EXCEPT !.then = "cf_codes",
                                           !.old = Ids(sessions) \ {loc[r].sid}]
        BY <2>3 DEF ConfirmActivate, Carry, TypeOK
      <3>3. AfterCode(r).sid = loc[r].sid
        BY <2>2 DEF AfterCode, Locals
      <3>4. loc'[r].sid = loc[r].sid /\ loc'[r].old = Ids(sessions) \ {loc[r].sid}
        BY <2>2, <3>2, <3>3 DEF Locals
      <3> QED
        BY <1>2, <3>1, <3>4
    <2>4. CASE DisableCommit(r)
      <3>1. pc'[r] = "rv_list"
        BY <2>4 DEF DisableCommit, Goto, TypeOK
      <3>2. loc'[r] = [loc[r] EXCEPT !.then = "audit",
                                     !.old = Ids(sessions) \ {loc[r].sid}]
        BY <2>4 DEF DisableCommit, Carry, TypeOK
      <3>3. loc'[r].sid = loc[r].sid /\ loc'[r].old = Ids(sessions) \ {loc[r].sid}
        BY <2>2, <3>2 DEF Locals
      <3> QED
        BY <1>2, <3>1, <3>3
    <2>5. CASE RevokeBegin(r)
      <3>1. pc'[r] = "rv_list"
        BY <2>5 DEF RevokeBegin, Goto, TypeOK
      <3>2. PICK s \in sessions :
                loc'[r] = [loc[r] EXCEPT !.sid = s.id, !.then = "audit",
                                         !.old = Ids(sessions) \ {s.id}]
        BY <2>5 DEF RevokeBegin, Carry, TypeOK
      <3>3. loc'[r].sid = s.id /\ loc'[r].old = Ids(sessions) \ {s.id}
        BY <2>2, <3>2 DEF Locals
      <3> QED
        BY <1>2, <3>1, <3>3
    <2>6. CASE RevokeList(r)
      <3>1. pc[r] = "rv_list" /\ pc'[r] = "rv_delete"
        BY <2>6 DEF RevokeList, Goto, TypeOK
      <3>2. loc[r].sid \notin loc[r].old
        BY <3>1 DEF RevocationInv
      <3>3. CASE /\ Carry(r, [loc[r] EXCEPT !.victims = Ids(sessions) \ {loc[r].sid}])
                 /\ sessions' = sessions
        <4>1. loc'[r] = [loc[r] EXCEPT !.victims = Ids(sessions) \ {loc[r].sid}]
          BY <3>3 DEF Carry, TypeOK
        <4>2. /\ loc'[r].sid = loc[r].sid /\ loc'[r].old = loc[r].old
              /\ loc'[r].victims = Ids(sessions) \ {loc[r].sid}
          BY <2>2, <4>1 DEF Locals
        <4>3. Ids(Unspared') \subseteq Ids(sessions)
          BY <3>3 DEF Ids, Unspared
        <4> QED
          BY <1>2, <3>1, <3>2, <4>2, <4>3
      <3>4. CASE /\ sessions' = {s \in sessions : s.id = loc[r].sid}
                                \cup Spared({s \in sessions : s.id # loc[r].sid})
                 /\ loc' = loc
        <4>1. Ids(Unspared') \subseteq {loc[r].sid}
          BY <3>4, SparedRows DEF Ids, Unspared, TypeOK
        <4> QED
          BY <1>2, <3>1, <3>2, <3>4, <4>1
      <3> QED
        BY <2>6, <3>3, <3>4 DEF RevokeList
    <2>7. CASE RevokeDelete(r)
      <3>1. pc[r] = "rv_delete" /\ pc'[r] = "rv_delete"
        BY <2>7 DEF RevokeDelete
      <3>2. PICK i \in loc[r].victims :
                /\ \/ sessions' = {s \in sessions : s.id # i}
                   \/ sessions' = {s \in sessions : s.id # i}
                                  \cup Spared({s \in sessions : s.id = i})
                /\ loc'[r] = [loc[r] EXCEPT !.victims = loc[r].victims \ {i}]
        BY <2>7 DEF RevokeDelete, Carry, TypeOK
      <3>3. /\ loc'[r].sid = loc[r].sid /\ loc'[r].old = loc[r].old
            /\ loc'[r].victims = loc[r].victims \ {i}
        BY <2>2, <3>2 DEF Locals
      <3>4. Ids(Unspared') \subseteq Ids(Unspared) \ {i}
        BY <3>2, SparedRows DEF Ids, Unspared, TypeOK
      <3> QED
        BY <1>2, <3>1, <3>3, <3>4 DEF RevocationInv
    <2>8. CASE RevokeEnd(r)
      <3>1. /\ pc[r] = "rv_delete" /\ loc[r].victims = {}
            /\ loc' = loc /\ sessions' = sessions /\ pc'[r] = loc[r].then
            /\ Unspared' = Unspared
        BY <2>8 DEF RevokeEnd, Goto, TypeOK, store, Unspared
      <3>2. pc'[r] \in {"idle", "cf_codes", "audit"}
        BY <2>2, <3>1, LocalsFields
      <3> QED
        BY <1>2, <3>1, <3>2 DEF RevocationInv
    <2> QED
      BY <2>1, <2>3, <2>4, <2>5, <2>6, <2>7, <2>8, OnlyRevocationSteps
  <1> QED
    BY <1>1, <1>2

\* PredatingSessionsGone: when switching the second factor on or off reports
\* success, no session from before the switch is left but those whose deletion
\* failed, an error that revoke_other_sessions ignores.
THEOREM RevocationSafe == Spec => []PredatingSessionsGone
  <1>1. Init => RevocationInv
    BY DEF Init, RevocationInv
  <1>2. TypeOK /\ RevocationInv /\ [Next]_vars => RevocationInv'
    <2> SUFFICES ASSUME TypeOK, RevocationInv, [Next]_vars
                 PROVE  RevocationInv'
      OBVIOUS
    <2>1. CASE \E r \in Requests : Step(r)
      <3>1. PICK r \in Requests : Step(r)
        BY <2>1
      <3> SUFFICES ASSUME NEW q \in Requests
                   PROVE  /\ pc'[q] \in {"rv_list", "rv_delete"}
                                 => loc'[q].sid \notin loc'[q].old
                          /\ pc'[q] = "rv_delete"
                                 => Ids(Unspared') \cap loc'[q].old \subseteq loc'[q].victims
                          /\ pc'[q] \in {"cf_codes", "audit"}
                                 => Ids(Unspared') \cap loc'[q].old = {}
        BY DEF RevocationInv, Ids
      <3> QED
        BY <3>1, RevocationStep
    <2>2. CASE SessionRefused
      <3>1. Ids(Unspared') \subseteq Ids(Unspared) /\ pc' = pc /\ loc' = loc
        BY <2>2 DEF SessionRefused, Ids, Unspared
      <3> QED
        BY <3>1 DEF RevocationInv, Ids
    <2>3. CASE Tick \/ UNCHANGED vars
      BY <2>3 DEF Tick, vars, store, RevocationInv, Unspared
    <2> QED
      BY <2>1, <2>2, <2>3 DEF Next
  <1>3. RevocationInv => PredatingSessionsGone
    BY DEF RevocationInv, PredatingSessionsGone
  <1> QED
    BY <1>1, <1>2, <1>3, TypeCorrect, PTL DEF Spec

-----------------------------------------------------------------------------
(***************************************************************************)
(* Sessions of overlapping logins.  A request between the two statements   *)
(* of complete_login will add one session, so it is counted with them.     *)
(***************************************************************************)
SessionsInv ==
    /\ IsFiniteSet(Unspared)
    /\ Cardinality(Unspared) + Cardinality(Completing) <= Cardinality(Requests)

\* Only SessionsDelete brings a request between the two statements.
LEMMA CompletingStep ==
    ASSUME TypeOK, NEW r \in Requests, Step(r)
    PROVE  Completing' \subseteq Completing \/ SessionsDelete(r)
  <1>1. CASE pc'[r] = "sess_insert" /\ ~SessionsDelete(r)
    <2>1. FALSE
      <3> USE DEF TypeOK, Goto, Done
      <3>1. CASE PasswordStep(r)
        BY <1>1, <3>1 DEF PasswordStep, LoginUser, LoginFeature, LoginState,
                          PendingClean, PendingInsert
      <3>2. CASE CompleteLogin(r)
        BY <1>1, <3>2 DEF CompleteLogin, SessionInsert
      <3>3. CASE TotpStep(r)
        BY <1>1, <3>3 DEF TotpStep, TotpPost, TotpCount, TotpState, TotpVerify,
                          TotpRecovery, TotpClaim, TotpConsume, TotpFail
      <3>4. CASE ChangePassword(r)
        BY <1>1, <3>4 DEF ChangePassword, PasswordBegin, PasswordCommit, Begin
      <3>5. CASE Enrol(r)
        BY <1>1, <3>5 DEF Enrol, SetupBegin, SetupSet, CancelBegin, CancelClear,
                          ConfirmBegin, ConfirmRead, ConfirmVerify,
                          ConfirmActivate, DeleteCodes, NewCodes,
                          RegenerateBegin, RegenerateRead, Begin
      <3>6. CASE Disable(r)
        BY <1>1, <3>6 DEF Disable, DisableBegin, DisableRead, DisableVerify,
                          DisableRecovery, DisableClaim, DisableCommit, Begin
      <3>7. CASE Revoke(r)
        <4>1. CASE RevokeEnd(r)
          BY <1>1, <4>1, LocalsFields DEF RevokeEnd
        <4> QED
          BY <1>1, <3>7, <4>1 DEF Revoke, RevokeBegin, RevokeList, RevokeDelete,
                                  Audit
      <3>8. CASE Administer(r)
        BY <1>1, <3>8 DEF Administer, BanSet, BanDelete, Unban, RevokeAll,
                          SetFeature, May
      <3>9. CASE Logout(r) \/ Abandon(r)
        BY <1>1, <3>9 DEF Logout, Abandon, May
      <3> QED
        BY <3>1, <3>2, <3>3, <3>4, <3>5, <3>6, <3>7, <3>8, <3>9 DEF Step
    <2> QED
      BY <2>1
  <1>2. CASE pc'[r] # "sess_insert"
    BY <1>2, OthersKept DEF Completing
  <1> QED
    BY <1>1, <1>2

\* Sessions are added by SessionInsert and by the rotation of PasswordCommit, and
\* ConfirmActivate, which only marks a session, adds none.
LEMMA SessionsStep ==
    ASSUME TypeOK, NEW r \in Requests, Step(r), IsFiniteSet(Unspared)
    PROVE  \/ IsFiniteSet(Unspared') /\ Cardinality(Unspared') <= Cardinality(Unspared)
           \/ /\ SessionInsert(r) \/ PasswordCommit(r)
              /\ \E s : Unspared' = Unspared \cup {s} \/ Unspared' = {s}
  <1>1. Unspared' \subseteq Unspared
            => IsFiniteSet(Unspared') /\ Cardinality(Unspared') <= Cardinality(Unspared)
    BY FS_Subset
  <1>11. \A S \in SUBSET sessions : \A t \in Spared(S) : t.spared
    BY SparedRows DEF TypeOK
  <1> USE DEF store, Unspared
  <1>2. CASE PasswordStep(r)
    BY <1>1, <1>2 DEF PasswordStep, LoginUser, LoginFeature, LoginState,
                      PendingClean, PendingInsert
  <1>3. CASE CompleteLogin(r)
    <2>1. CASE SessionInsert(r)
      <3>1. PICK i \in SessionIds :
                sessions' = sessions \cup
                    {[id |-> i, strong |-> loc[r].strong, spared |-> FALSE]}
        BY <2>1 DEF SessionInsert
      <3>2. Unspared' = Unspared \cup
                {[id |-> i, strong |-> loc[r].strong, spared |-> FALSE]}
        BY <3>1
      <3> QED
        BY <2>1, <3>2
    <2> QED
      BY <1>1, <1>3, <1>11, <2>1 DEF CompleteLogin, SessionsDelete
  <1>4. CASE TotpStep(r)
    BY <1>1, <1>4 DEF TotpStep, TotpPost, TotpCount, TotpState, TotpVerify,
                      TotpRecovery, TotpClaim, TotpConsume, TotpFail
  <1>5. CASE ChangePassword(r)
    <2>1. CASE PasswordCommit(r)
      <3>1. PICK i \in SessionIds :
                sessions' = {[id |-> i, strong |-> loc[r].strong, spared |-> FALSE]}
        BY <2>1 DEF PasswordCommit
      <3>2. Unspared' = {[id |-> i, strong |-> loc[r].strong, spared |-> FALSE]}
        BY <3>1
      <3> QED
        BY <2>1, <3>2
    <2> QED
      BY <1>1, <1>5, <2>1 DEF ChangePassword, PasswordBegin, Begin
  <1>6. CASE Enrol(r)
    <2>1. CASE ConfirmActivate(r)
      <3> DEFINE f == [s \in Unspared |->
                          IF s.id = loc[r].sid THEN [s EXCEPT !.strong = TRUE] ELSE s]
      <3>1. \A s \in sessions : [s EXCEPT !.strong = TRUE].spared = s.spared
        BY DEF Session, TypeOK
      <3>2. Unspared' = {f[s] : s \in Unspared}
        BY <2>1, <3>1 DEF ConfirmActivate
      <3>3. f \in Surjection(Unspared, Unspared')
        BY <3>2 DEF Surjection
      <3> HIDE DEF f, Unspared
      <3> QED
        BY <3>3, FS_Surjection
    <2> QED
      BY <1>1, <1>6, <2>1
      DEF Enrol, SetupBegin, SetupSet, CancelBegin, CancelClear, ConfirmBegin,
          ConfirmRead, ConfirmVerify, DeleteCodes, NewCodes, RegenerateBegin,
          RegenerateRead, Begin
  <1>7. CASE Disable(r)
    BY <1>1, <1>7 DEF Disable, DisableBegin, DisableRead, DisableVerify,
                      DisableRecovery, DisableClaim, DisableCommit, Begin
  <1>8. CASE Revoke(r)
    BY <1>1, <1>8, <1>11 DEF Revoke, RevokeBegin, RevokeList, RevokeDelete, RevokeEnd,
                      Audit
  <1>9. CASE Administer(r)
    BY <1>1, <1>9 DEF Administer, BanSet, BanDelete, Unban, RevokeAll, SetFeature
  <1>10. CASE Logout(r) \/ Abandon(r)
    BY <1>1, <1>10 DEF Logout, Abandon
  <1> QED
    BY <1>2, <1>3, <1>4, <1>5, <1>6, <1>7, <1>8, <1>9, <1>10 DEF Step

\* A step keeps the invariant, when the DELETE of complete_login does not fail.
LEMMA SessionsInvStep ==
    ASSUME TypeOK, SessionsInv, NEW r \in Requests, Step(r)
    PROVE  SessionsInv'
  <1>1. /\ IsFiniteSet(Completing) /\ IsFiniteSet(Completing')
        /\ Cardinality(Completing) \in Nat /\ Cardinality(Completing') \in Nat
        /\ Cardinality(Completing') <= Cardinality(Requests)
        /\ Cardinality(Requests) \in Nat
    BY RequestsAssumption, FS_Subset, FS_CardinalityType DEF Completing
  <1>2. /\ IsFiniteSet(Unspared) /\ Cardinality(Unspared) \in Nat
        /\ Cardinality(Unspared) + Cardinality(Completing) <= Cardinality(Requests)
    BY FS_CardinalityType DEF SessionsInv
  <1>3. CASE SessionsDelete(r)
    <2>1. Unspared' = {}
      BY <1>3, SparedRows DEF SessionsDelete, Unspared, TypeOK
    <2>2. IsFiniteSet(Unspared') /\ Cardinality(Unspared') = 0
      BY <2>1, FS_EmptySet
    <2> QED
      BY <1>1, <2>2 DEF SessionsInv
  <1>4. CASE SessionInsert(r) \/ PasswordCommit(r)
    <2>1. Completing' \subseteq Completing \ {r}
      <3>1. pc'[r] = "idle"
        BY <1>4 DEF SessionInsert, PasswordCommit, Done, Goto, TypeOK
      <3> QED
        BY <3>1, OthersKept DEF Completing
    <2>2. Cardinality(Completing') <= Cardinality(Completing \ {r})
      BY <1>1, <2>1, FS_Subset, FS_RemoveElement
    <2>3. CASE SessionInsert(r)
      <3>1. r \in Completing
        BY <2>3 DEF SessionInsert, Completing
      <3>2. Cardinality(Completing \ {r}) = Cardinality(Completing) - 1
        BY <1>1, <3>1, FS_RemoveElement
      <3>3. PICK s : Unspared' = Unspared \cup {s}
        <4>1. PICK i \in SessionIds :
                  sessions' = sessions \cup
                      {[id |-> i, strong |-> loc[r].strong, spared |-> FALSE]}
          BY <2>3 DEF SessionInsert
        <4>2. Unspared' = Unspared \cup
                  {[id |-> i, strong |-> loc[r].strong, spared |-> FALSE]}
          BY <4>1 DEF Unspared
        <4> QED
          BY <4>2
      <3>4. /\ IsFiniteSet(Unspared')
            /\ \/ Cardinality(Unspared') = Cardinality(Unspared)
               \/ Cardinality(Unspared') = Cardinality(Unspared) + 1
        BY <1>2, <3>3, FS_AddElement
      <3> QED
        BY <1>1, <1>2, <2>2, <3>2, <3>4 DEF SessionsInv
    <2>4. CASE PasswordCommit(r)
      <3>1. Completing' \subseteq Requests \ {r}
        BY <2>1 DEF Completing
      <3>2. Cardinality(Requests \ {r}) = Cardinality(Requests) - 1
        BY RequestsAssumption, FS_RemoveElement
      <3>3. Cardinality(Completing') <= Cardinality(Requests) - 1
        BY <3>1, <3>2, RequestsAssumption, FS_Subset, FS_RemoveElement
      <3>4. PICK s : Unspared' = {s}
        <4>1. PICK i \in SessionIds :
                  sessions' = {[id |-> i, strong |-> loc[r].strong, spared |-> FALSE]}
          BY <2>4 DEF PasswordCommit
        <4>2. Unspared' = {[id |-> i, strong |-> loc[r].strong, spared |-> FALSE]}
          BY <4>1 DEF Unspared
        <4> QED
          BY <4>2
      <3>5. IsFiniteSet(Unspared') /\ Cardinality(Unspared') = 1
        BY <3>4, FS_Singleton
      <3> QED
        BY <1>1, <3>3, <3>5 DEF SessionsInv
    <2> QED
      BY <1>4, <2>3, <2>4
  <1>5. CASE ~SessionsDelete(r) /\ ~(SessionInsert(r) \/ PasswordCommit(r))
    <2>1. Cardinality(Completing') <= Cardinality(Completing)
      BY <1>1, <1>5, CompletingStep, FS_Subset
    <2>2. /\ IsFiniteSet(Unspared') /\ Cardinality(Unspared') \in Nat
          /\ Cardinality(Unspared') <= Cardinality(Unspared)
      BY <1>2, <1>5, SessionsStep, FS_CardinalityType
    <2> QED
      BY <1>1, <1>2, <2>1, <2>2 DEF SessionsInv
  <1> QED
    BY <1>3, <1>4, <1>5

\* SessionsBounded: sessions whose deletion failed apart, an account never has more
\* sessions than the server runs requests in parallel.
THEOREM SessionsSafe == Spec => []SessionsBounded
  <1>1. Init => SessionsInv
    <2> SUFFICES ASSUME Init
                 PROVE  SessionsInv
      OBVIOUS
    <2>1. Completing = {}
      BY DEF Init, Completing
    <2>2. IsFiniteSet(Unspared)
              /\ (Cardinality(Unspared) = 0 \/ Cardinality(Unspared) = 1)
      <3>1. CASE sessions = {}
        <4>1. Unspared = {}
          BY <3>1 DEF Unspared
        <4> QED
          BY <4>1, FS_EmptySet
      <3>2. CASE \E i \in SessionIds :
                     sessions = {[id |-> i, strong |-> Enrolled, spared |-> FALSE]}
        <4>1. PICK i \in SessionIds :
                  sessions = {[id |-> i, strong |-> Enrolled, spared |-> FALSE]}
          BY <3>2
        <4>2. Unspared = {[id |-> i, strong |-> Enrolled, spared |-> FALSE]}
          BY <4>1 DEF Unspared
        <4> QED
          BY <4>2, FS_Singleton
      <3> QED
        BY <3>1, <3>2 DEF Init
    <2>3. Cardinality(Requests) \in Nat /\ Cardinality(Requests) >= 1
      BY RequestsAssumption, FS_CardinalityType, FS_EmptySet
    <2> QED
      BY <2>1, <2>2, <2>3, FS_EmptySet DEF SessionsInv
  <1>2. TypeOK /\ SessionsInv /\ [Next]_vars => SessionsInv'
    <2> SUFFICES ASSUME TypeOK, SessionsInv, [Next]_vars
                 PROVE  SessionsInv'
      OBVIOUS
    <2>1. CASE \E r \in Requests : Step(r)
      BY <2>1, SessionsInvStep
    <2>2. CASE SessionRefused
      <3>1. Unspared' \subseteq Unspared /\ Completing' = Completing
        BY <2>2 DEF SessionRefused, Completing, Unspared
      <3>2. /\ IsFiniteSet(Completing) /\ Cardinality(Completing) \in Nat
            /\ Cardinality(Requests) \in Nat
        BY RequestsAssumption, FS_Subset, FS_CardinalityType DEF Completing
      <3>3. /\ IsFiniteSet(Unspared') /\ Cardinality(Unspared') <= Cardinality(Unspared)
            /\ Cardinality(Unspared') \in Nat /\ Cardinality(Unspared) \in Nat
        BY <3>1, FS_Subset, FS_CardinalityType DEF SessionsInv
      <3> QED
        BY <3>1, <3>2, <3>3 DEF SessionsInv
    <2>3. CASE Tick \/ UNCHANGED vars
      BY <2>3 DEF Tick, vars, store, SessionsInv, Completing, Unspared
    <2> QED
      BY <2>1, <2>2, <2>3 DEF Next
  <1>3. SessionsInv => SessionsBounded
    <2>1. ASSUME SessionsInv
          PROVE  SessionsBounded
      <3>1. /\ Cardinality(Completing) \in Nat /\ Cardinality(Unspared) \in Nat
            /\ Cardinality(Requests) \in Nat
        BY <2>1, RequestsAssumption, FS_Subset, FS_CardinalityType
        DEF Completing, SessionsInv
      <3> QED
        BY <2>1, <3>1 DEF SessionsInv, SessionsBounded
    <2> QED
      BY <2>1
  <1> QED
    BY <1>1, <1>2, <1>3, TypeCorrect, PTL DEF Spec

-----------------------------------------------------------------------------
(***************************************************************************)
(* A factor nobody switches: it stays on, and what a login carries towards *)
(* a session has presented it.                                             *)
(***************************************************************************)
Steady == Enrolled /\ \A r \in Requests : Handlers[r] \cap Switching = {}

SwitchLabels ==
    {"setup_set", "cancel_clear", "cf_read", "cf_code", "cf_activate",
     "ds_read", "ds_code", "ds_claim", "ds_commit"}

\* What a request carries once past the check of the factor.
Presented(r) ==
    /\ pc[r] \notin SwitchLabels
    /\ pc[r] \in {"tp_consume", "sess_delete", "sess_insert", "pw_commit"}
           => loc[r].strong

SteadyInv ==
    /\ feature /\ user.secret \in Secrets
    /\ \A s \in sessions : s.strong
    /\ \A r \in Requests : Presented(r)

\* A step of a request touches neither the feature nor the secret.
LEMMA SteadySwitch ==
    ASSUME TypeOK, Steady, SteadyInv, NEW r \in Requests, Step(r)
    PROVE  feature' = feature /\ user'.secret = user.secret
  <1> USE DEF store, history
  <1>1. Presented(r) /\ user \in User /\ Handlers[r] \cap Switching = {}
    BY DEF SteadyInv, TypeOK, Steady
  <1>2. CASE PasswordStep(r) \/ CompleteLogin(r) \/ Revoke(r) \/ Logout(r) \/ Abandon(r)
    BY <1>2 DEF PasswordStep, LoginUser, LoginFeature, LoginState, PendingClean,
                PendingInsert, CompleteLogin, SessionsDelete, SessionInsert,
                Revoke, RevokeBegin, RevokeList, RevokeDelete, RevokeEnd, Audit,
                Logout, Abandon
  <1>3. CASE TotpStep(r)
    BY <1>1, <1>3 DEF TotpStep, TotpPost, TotpCount, TotpState, TotpVerify,
                      TotpRecovery, TotpClaim, TotpConsume, TotpFail, User
  <1>4. CASE ChangePassword(r)
    BY <1>1, <1>4 DEF ChangePassword, PasswordBegin, PasswordCommit, Begin, User
  <1>5. CASE Enrol(r)
    BY <1>1, <1>5 DEF Enrol, SetupBegin, SetupSet, CancelBegin, CancelClear,
                      ConfirmBegin, ConfirmRead, ConfirmVerify, ConfirmActivate,
                      DeleteCodes, NewCodes, RegenerateBegin, RegenerateRead, Begin,
                      Presented,
                      SwitchLabels
  <1>6. CASE Disable(r)
    BY <1>1, <1>6 DEF Disable, DisableBegin, DisableRead, DisableVerify,
                      DisableRecovery, DisableClaim, DisableCommit, Begin,
                      Presented, SwitchLabels
  <1>7. CASE Administer(r)
    BY <1>1, <1>7 DEF Administer, BanSet, BanDelete, Unban, RevokeAll, SetFeature,
                      May, Switching, User
  <1> QED
    BY <1>2, <1>3, <1>4, <1>5, <1>6, <1>7 DEF Step

\* A session a request inserts or rotates has presented the factor.
LEMMA SteadySessions ==
    ASSUME TypeOK, SteadyInv, NEW r \in Requests, Step(r)
    PROVE  \A s \in sessions' : s.strong
  <1> USE DEF store, history
  <1>1. Presented(r) /\ \A s \in sessions : s.strong
    BY DEF SteadyInv
  <1>2. CASE PasswordStep(r) \/ TotpStep(r)
    BY <1>1, <1>2 DEF PasswordStep, LoginUser, LoginFeature, LoginState,
                PendingClean, PendingInsert, TotpStep, TotpPost, TotpCount,
                TotpState, TotpVerify, TotpRecovery, TotpClaim, TotpConsume, TotpFail
  <1>9 \A S \in SUBSET sessions : \A s \in Spared(S) : s.strong
    BY <1>1 DEF Spared, Session, TypeOK
  <1>3. CASE CompleteLogin(r)
    BY <1>1, <1>3, <1>9 DEF CompleteLogin, SessionsDelete, SessionInsert, Presented
  <1>4. CASE ChangePassword(r)
    <2>1. CASE PasswordBegin(r)
      BY <1>1, <2>1 DEF PasswordBegin, Begin
    <2>2. CASE PasswordCommit(r)
      BY <1>1, <2>2 DEF PasswordCommit, Presented
    <2> QED
      BY <1>4, <2>1, <2>2 DEF ChangePassword
  <1>5. CASE Enrol(r)
    BY <1>1, <1>5 DEF Enrol, SetupBegin, SetupSet, CancelBegin, CancelClear,
                      ConfirmBegin, ConfirmRead, ConfirmVerify, ConfirmActivate,
                      DeleteCodes, NewCodes, RegenerateBegin, RegenerateRead, Begin,
                      Presented,
                      SwitchLabels
  <1>6. CASE Disable(r) \/ Logout(r) \/ Abandon(r)
    BY <1>1, <1>6 DEF Disable, DisableBegin, DisableRead, DisableVerify,
                      DisableRecovery, DisableClaim, DisableCommit, Begin,
                      Logout, Abandon
  <1>7. CASE Revoke(r) \/ Administer(r)
    BY <1>1, <1>7, <1>9 DEF Revoke, RevokeBegin, RevokeList, RevokeDelete, RevokeEnd,
                      Audit, Administer, BanSet, BanDelete, Unban, RevokeAll,
                      SetFeature
  <1> QED
    BY <1>2, <1>3, <1>4, <1>5, <1>6, <1>7 DEF Step

\* A request that goes on past the check of the factor has presented it.
LEMMA SteadyPresented ==
    ASSUME TypeOK, Steady, SteadyInv, NEW r \in Requests, Step(r)
    PROVE  Presented(r)'
  <1> USE DEF store, history, Goto, Carry, Done, Presented, SwitchLabels
  <1>1. /\ Presented(r) /\ feature /\ user.secret \in Secrets
        /\ \A s \in sessions : s.strong
        /\ Handlers[r] \cap Switching = {}
    BY DEF SteadyInv, Steady
  <1>2. /\ pc \in [Requests -> Labels] /\ loc \in [Requests -> Locals]
        /\ loc[r] \in Locals
    BY DEF TypeOK
  <1>3. user'.secret = user.secret
    BY SteadySwitch
  <1>4. CASE PasswordStep(r)
    <2>1. CASE LoginUser(r) \/ PendingClean(r) \/ PendingInsert(r)
      BY <1>2, <2>1 DEF LoginUser, PendingClean, PendingInsert
    <2>2. CASE LoginFeature(r)
      BY <1>1, <1>2, <2>2 DEF LoginFeature
    <2>3. CASE LoginState(r)
      <3>1. IsActive
        BY <1>1, NoneAssumption DEF IsActive
      <3> QED
        BY <1>2, <2>3, <3>1 DEF LoginState
    <2> QED
      BY <1>4, <2>1, <2>2, <2>3 DEF PasswordStep
  <1>5. CASE CompleteLogin(r)
    BY <1>1, <1>2, <1>3, <1>5 DEF CompleteLogin, SessionsDelete, SessionInsert
  <1>6. CASE TotpStep(r)
    <2>1. CASE TotpPost(r) \/ TotpCount(r) \/ TotpFail(r)
      BY <1>2, <2>1 DEF TotpPost, TotpCount, TotpFail
    <2>2. CASE TotpConsume(r)
      <3>1. [loc[r] EXCEPT !.pid = None].strong = loc[r].strong
        BY <1>2 DEF Locals
      <3> QED
        BY <1>1, <1>2, <2>2, <3>1 DEF TotpConsume
    <2>4. CASE TotpState(r) \/ TotpVerify(r)
      BY <1>2, <2>4 DEF TotpState, TotpVerify
    <2>3. CASE TotpRecovery(r) \/ TotpClaim(r)
      <3>1. CASE pc' = [pc EXCEPT ![r] = "idle"]
        BY <1>2, <3>1
      <3>2. CASE /\ pc' = [pc EXCEPT ![r] = "tp_consume"]
                 /\ loc' = [loc EXCEPT ![r] = [AfterCode(r) EXCEPT !.strong = TRUE]]
        <4>1. AfterCode(r) \in Locals
          BY AfterCodeType
        <4> QED
          BY <1>2, <3>2, <4>1 DEF Locals
      <3> QED
        BY <2>3, <3>1, <3>2 DEF TotpRecovery, TotpClaim
    <2> QED
      BY <1>6, <2>1, <2>2, <2>3, <2>4 DEF TotpStep
  <1>7. CASE ChangePassword(r)
    <2>1. CASE PasswordBegin(r)
      <3>1. ASSUME NEW s \in sessions
            PROVE  [loc[r] EXCEPT !.sid = s.id, !.strong = s.strong].strong = s.strong
        BY <1>2 DEF Locals
      <3> QED
        BY <1>1, <1>2, <2>1, <3>1 DEF PasswordBegin, Begin
    <2>2. CASE PasswordCommit(r)
      BY <1>2, <2>2 DEF PasswordCommit
    <2> QED
      BY <1>7, <2>1, <2>2 DEF ChangePassword
  <1>8. CASE Enrol(r)
    BY <1>1, <1>2, <1>3, <1>8
    DEF Enrol, SetupBegin, SetupSet, CancelBegin, CancelClear, ConfirmBegin,
        ConfirmRead, ConfirmVerify, ConfirmActivate, DeleteCodes, NewCodes, RegenerateBegin,
        RegenerateRead, Begin, May, Switching
  <1>9. CASE Disable(r)
    BY <1>1, <1>2, <1>3, <1>9
    DEF Disable, DisableBegin, DisableRead, DisableVerify, DisableRecovery,
        DisableClaim, DisableCommit, Begin, May, Switching
  <1>10. CASE Revoke(r)
    BY <1>1, <1>2, <1>3, <1>10, LocalsFields
    DEF Revoke, RevokeBegin, RevokeList, RevokeDelete, RevokeEnd, Audit
  <1>11. CASE Administer(r) \/ Logout(r) \/ Abandon(r)
    BY <1>1, <1>2, <1>3, <1>11
    DEF Administer, BanSet, BanDelete, Unban, RevokeAll, SetFeature, Logout, Abandon
  <1> QED
    BY <1>4, <1>5, <1>6, <1>7, <1>8, <1>9, <1>10, <1>11 DEF Step

\* A step of a request keeps the invariant.
LEMMA SteadyStep ==
    ASSUME TypeOK, Steady, SteadyInv, NEW r \in Requests, Step(r)
    PROVE  SteadyInv'
  <1>1. feature' /\ user'.secret \in Secrets
    BY SteadySwitch DEF SteadyInv
  <1>2. ASSUME NEW q \in Requests
        PROVE  Presented(q)'
    BY SteadyPresented, OthersKept DEF SteadyInv, Presented
  <1> QED
    BY <1>1, <1>2, SteadySessions DEF SteadyInv

\* While nobody switches the factor, the invariant holds.
LEMMA SteadyHolds ==
    ASSUME Steady
    PROVE  Spec => []SteadyInv
  <1>1. Init => SteadyInv
    BY Steady DEF Steady, Init, SteadyInv, Presented, SwitchLabels, Session
  <1>2. TypeOK /\ SteadyInv /\ [Next]_vars => SteadyInv'
    <2> SUFFICES ASSUME TypeOK, SteadyInv, [Next]_vars
                 PROVE  SteadyInv'
      OBVIOUS
    <2>1. CASE \E r \in Requests : Step(r)
      BY <2>1, Steady, SteadyStep
    <2>2. CASE SessionRefused \/ Tick \/ UNCHANGED vars
      <3>1. /\ feature' = feature /\ user' = user /\ sessions' \subseteq sessions
            /\ pc' = pc /\ loc' = loc
        BY <2>2 DEF SessionRefused, Tick, vars, store, history
      <3> QED
        BY <3>1 DEF SteadyInv, Presented
    <2> QED
      BY <2>1, <2>2 DEF Next
  <1> QED
    BY <1>1, <1>2, TypeCorrect, PTL DEF Spec

\* FactorPresented: while nobody switches the factor, every session of an
\* enrolled account presented it, however logins and password changes overlap.
THEOREM FactorSafe == Spec => []FactorPresented
  <1>1. CASE Steady
    <2>1. SteadyInv => FactorPresented
      BY DEF SteadyInv, FactorPresented
    <2> QED
      BY <1>1, <2>1, SteadyHolds, PTL
  <1>2. CASE ~Steady
    <2>1. FactorPresented
      BY <1>2 DEF Steady, FactorPresented
    <2> QED
      BY <2>1, PTL
  <1> QED
    BY <1>1, <1>2

-----------------------------------------------------------------------------
(***************************************************************************)
(* The codes of a secret.  As long as its last step is kept, the step is   *)
(* not older than any whose code was accepted, and only requests that have *)
(* read the secret while it was active can claim a step of it.             *)
(***************************************************************************)
Verifying == {r \in Requests : pc[r] \in {"tp_code", "tp_claim", "ds_code", "ds_claim"}}
Claiming == {r \in Requests : pc[r] \in {"tp_claim", "ds_claim", "cf_activate"}}

ClaimInv ==
    /\ \A r \in Verifying : loc[r].secret \in Secrets
           /\ (loc[r].secret = user.secret \/ loc[r].secret \in reset)
    /\ \A r \in Claiming : loc[r].step \in Steps
    /\ \A x \in Secrets \ reset, t \in Steps :
           /\ uses.step[<<x, t>>] \in {0, 1}
           /\ uses.step[<<x, t>>] = 1 => x = user.secret /\ t <= user.last

\* What a step may do to the secret, its last step and the codes accepted.
Claims(r) == /\ pc[r] \in {"tp_claim", "ds_claim"} /\ Newer(loc[r].step)
             /\ user' = [user EXCEPT !.last = loc[r].step]
             /\ uses'.step = Bump(uses.step, <<loc[r].secret, loc[r].step>>)
             /\ reset' = reset
Activates(r) == /\ pc[r] = "cf_activate"
                /\ user' = [user EXCEPT !.secret = loc[r].secret,
                                         !.last = loc[r].step, !.pending = None]
                /\ uses'.step = Bump(uses.step, <<loc[r].secret, loc[r].step>>)
                /\ reset' = WithoutStep
Removes == uses' = uses /\ reset' = WithoutStep
Keeps == /\ user'.secret = user.secret /\ user'.last = user.last
         /\ uses'.step = uses.step /\ reset' = reset

\* A step of a request accepts a code by claiming its step or by activating its
\* secret, and otherwise touches neither the secret nor its last step, unless
\* the factor is removed.
LEMMA ClaimKinds ==
    ASSUME TypeOK, NEW r \in Requests, Step(r)
    PROVE  Claims(r) \/ Activates(r) \/ Removes \/ Keeps
  <1> USE DEF store, history, Keeps
  <1>1. user \in User /\ uses \in Acceptances
    BY DEF TypeOK
  <1>2. CASE PasswordStep(r) \/ CompleteLogin(r) \/ Revoke(r) \/ Logout(r) \/ Abandon(r)
    BY <1>2 DEF PasswordStep, LoginUser, LoginFeature, LoginState, PendingClean,
                PendingInsert, CompleteLogin, SessionsDelete, SessionInsert,
                Revoke, RevokeBegin, RevokeList, RevokeDelete, RevokeEnd, Audit,
                Logout, Abandon
  <1>3. CASE TotpClaim(r) \/ DisableClaim(r)
    <2>1. CASE Newer(loc[r].step)
      <3>1. [uses EXCEPT !.step = Bump(@, <<loc[r].secret, loc[r].step>>)].step
                = Bump(uses.step, <<loc[r].secret, loc[r].step>>)
        BY <1>1 DEF Acceptances
      <3> QED
        BY <1>3, <2>1, <3>1 DEF TotpClaim, DisableClaim, Claims
    <2>2. CASE ~Newer(loc[r].step)
      BY <1>3, <2>2 DEF TotpClaim, DisableClaim
    <2> QED
      BY <2>1, <2>2
  <1>4. CASE TotpPost(r) \/ TotpCount(r) \/ TotpState(r) \/ TotpVerify(r)
             \/ TotpRecovery(r) \/ TotpConsume(r) \/ TotpFail(r)
    BY <1>1, <1>4 DEF TotpPost, TotpCount, TotpState, TotpVerify, TotpRecovery,
                      TotpConsume, TotpFail, Acceptances
  <1>5. CASE ChangePassword(r) \/ Administer(r)
    BY <1>1, <1>5 DEF ChangePassword, PasswordBegin, PasswordCommit, Begin,
                      Administer, BanSet, BanDelete, Unban, RevokeAll, SetFeature,
                      User
  <1>6. CASE ConfirmActivate(r)
    <2>1. [uses EXCEPT !.step = Bump(@, <<loc[r].secret, loc[r].step>>)].step
              = Bump(uses.step, <<loc[r].secret, loc[r].step>>)
      BY <1>1 DEF Acceptances
    <2> QED
      BY <1>6, <2>1 DEF ConfirmActivate, Activates
  <1>7. CASE Enrol(r) /\ ~ConfirmActivate(r)
    BY <1>1, <1>7 DEF Enrol, SetupBegin, SetupSet, CancelBegin, CancelClear,
                      ConfirmBegin, ConfirmRead, ConfirmVerify, DeleteCodes,
                      NewCodes, RegenerateBegin, RegenerateRead, Begin, User
  <1>8. CASE DisableCommit(r)
    BY <1>8 DEF DisableCommit, Removes
  <1>9. CASE DisableBegin(r) \/ DisableRead(r) \/ DisableVerify(r) \/ DisableRecovery(r)
    BY <1>1, <1>9 DEF DisableBegin, DisableRead, DisableVerify, DisableRecovery,
                      Begin, Acceptances
  <1> QED
    BY <1>2, <1>3, <1>4, <1>5, <1>6, <1>7, <1>8, <1>9 DEF Step, TotpStep, Disable

\* Only the reads of the active secret bring a request before a check of its code,
\* and only the checks bring it before a claim.
LEMMA VerifyingStep ==
    ASSUME TypeOK, ClaimInv, NEW r \in Requests, Step(r)
    PROVE  /\ r \in Verifying' =>
                  \/ /\ loc'[r].secret = user.secret /\ user.secret \in Secrets
                     /\ user' = user
                  \/ r \in Verifying /\ loc'[r].secret = loc[r].secret
           /\ r \in Claiming' => loc'[r].step \in Steps
  <1> USE DEF store, Goto, Carry, Done, Verifying, Claiming
  <1>1. /\ pc \in [Requests -> Labels] /\ loc \in [Requests -> Locals]
        /\ loc[r] \in Locals /\ user \in User
    BY DEF TypeOK
  <1>2. CASE TotpState(r) \/ DisableRead(r)
    <2>1. [loc[r] EXCEPT !.secret = user.secret, !.last = user.last].secret = user.secret
      BY <1>1 DEF Locals
    <2>2. user.secret # None => user.secret \in Secrets
      BY <1>1 DEF User
    <2> QED
      BY <1>1, <1>2, <2>1, <2>2 DEF TotpState, DisableRead, IsActive
  <1>3. CASE TotpVerify(r) \/ DisableVerify(r) \/ ConfirmVerify(r)
    <2>1. ASSUME NEW t \in Steps
          PROVE  /\ [loc[r] EXCEPT !.step = t].step = t
                 /\ [loc[r] EXCEPT !.step = t].secret = loc[r].secret
      BY <1>1 DEF Locals
    <2> QED
      BY <1>1, <1>3, <2>1 DEF TotpVerify, DisableVerify, ConfirmVerify
  <1>4. CASE pc'[r] = pc[r] /\ loc'[r] = loc[r]
    BY <1>4 DEF ClaimInv
  <1>5. CASE PasswordStep(r) \/ CompleteLogin(r) \/ Logout(r) \/ Abandon(r)
    BY <1>1, <1>4, <1>5 DEF PasswordStep, LoginUser, LoginFeature, LoginState,
                PendingClean, PendingInsert, CompleteLogin, SessionsDelete,
                SessionInsert, Logout, Abandon
  <1>6. CASE TotpPost(r) \/ TotpCount(r) \/ TotpRecovery(r) \/ TotpClaim(r)
             \/ TotpConsume(r) \/ TotpFail(r)
    BY <1>1, <1>6 DEF TotpPost, TotpCount, TotpRecovery, TotpClaim, TotpConsume,
                      TotpFail
  <1>7. CASE ChangePassword(r) \/ Administer(r)
    BY <1>1, <1>4, <1>7 DEF ChangePassword, PasswordBegin, PasswordCommit, Begin,
                      Administer, BanSet, BanDelete, Unban, RevokeAll, SetFeature
  <1>8. CASE Enrol(r) /\ ~ConfirmVerify(r)
    BY <1>1, <1>8 DEF Enrol, SetupBegin, SetupSet, CancelBegin, CancelClear,
                      ConfirmBegin, ConfirmRead, ConfirmActivate, DeleteCodes,
                      NewCodes, RegenerateBegin, RegenerateRead, Begin
  <1>9. CASE DisableBegin(r) \/ DisableRecovery(r) \/ DisableClaim(r) \/ DisableCommit(r)
    BY <1>1, <1>9 DEF DisableBegin, DisableRecovery, DisableClaim, DisableCommit, Begin
  <1>10. CASE Revoke(r)
    BY <1>1, <1>10, LocalsFields
    DEF Revoke, RevokeBegin, RevokeList, RevokeDelete, RevokeEnd, Audit
  <1> QED
    BY <1>2, <1>3, <1>5, <1>6, <1>7, <1>8, <1>9, <1>10 DEF Step, TotpStep, Disable

\* A step keeps what is known of the requests that verify a code or claim a step.
LEMMA ClaimingStep ==
    ASSUME TypeOK, ClaimInv, NEW r \in Requests, Step(r)
    PROVE  /\ \A q \in Verifying' : /\ loc'[q].secret \in Secrets
                                     /\ \/ loc'[q].secret = user'.secret
                                        \/ loc'[q].secret \in reset'
           /\ \A q \in Claiming' : loc'[q].step \in Steps
  <1>1. ASSUME NEW x \in Secrets, x = user.secret \/ x \in reset
        PROVE  x = user'.secret \/ x \in reset'
    <2>1. user \in User
      BY DEF TypeOK
    <2> QED
      BY <1>1, <2>1, ClaimKinds, NoneAssumption
      DEF Claims, Activates, Removes, Keeps, WithoutStep, User
  <1>2. ASSUME NEW q \in Requests
        PROVE  /\ q \in Verifying' => loc'[q].secret \in Secrets
                      /\ (loc'[q].secret = user'.secret \/ loc'[q].secret \in reset')
               /\ q \in Claiming' => loc'[q].step \in Steps
    <2>1. CASE q = r
      BY <1>1, <2>1, VerifyingStep DEF ClaimInv
    <2>2. CASE q # r
      BY <1>1, <2>2, OthersKept DEF ClaimInv, Verifying, Claiming
    <2> QED
      BY <2>1, <2>2
  <1> QED
    BY <1>2 DEF Verifying, Claiming

\* A step keeps what is known of a secret whose last step is kept.
LEMMA AcceptedStep ==
    ASSUME TypeOK, ClaimInv, NEW r \in Requests, Step(r),
           NEW x \in Secrets \ reset', NEW t \in Steps
    PROVE  /\ uses'.step[<<x, t>>] \in {0, 1}
           /\ uses'.step[<<x, t>>] = 1 => x = user'.secret /\ t <= user'.last
  <1> DEFINE y == <<loc[r].secret, loc[r].step>>
  <1>1. user \in User /\ uses.step \in [Secrets \X Steps -> 0..2]
    BY DEF TypeOK, Acceptances
  <1>2. /\ t \in Int /\ user.last \in Int
        /\ loc[r].step \in Steps => loc[r].step \in Int
    BY <1>1, LimitsAssumption DEF User, Steps, NoStep
  <1>3. CASE Claims(r)
    <2>1. /\ user'.secret = user.secret /\ user'.last = loc[r].step
          /\ loc[r].step \in Steps /\ user.last < loc[r].step
          /\ x \notin reset
          /\ loc[r].secret = x => x = user.secret
      BY <1>1, <1>3 DEF Claims, Newer, User, ClaimInv, Verifying, Claiming
    <2>2. /\ uses.step[<<x, t>>] \in {0, 1}
          /\ uses.step[<<x, t>>] = 1 => x = user.secret /\ t <= user.last
      BY <2>1 DEF ClaimInv
    <2>3. CASE y = <<x, t>>
      <3>1. uses.step[<<x, t>>] = 0
        BY <1>2, <2>1, <2>2, <2>3
      <3>2. uses'.step[<<x, t>>] = 1
        BY <1>1, <1>3, <2>3, <3>1 DEF Claims, Bump
      <3> QED
        BY <1>2, <2>1, <2>3, <3>2
    <2>4. CASE y # <<x, t>>
      <3>1. uses'.step[<<x, t>>] = uses.step[<<x, t>>]
        BY <1>1, <1>3, <2>4 DEF Claims, Bump
      <3> QED
        BY <1>2, <2>1, <2>2, <3>1
    <2> QED
      BY <2>3, <2>4
  <1>4. CASE Activates(r)
    <2>1. /\ user'.secret = loc[r].secret /\ user'.last = loc[r].step
          /\ loc[r].step \in Steps
      BY <1>1, <1>4 DEF Activates, User, ClaimInv, Claiming
    <2>2. uses.step[<<x, t>>] = 0
      BY <1>4, NoneAssumption DEF Activates, WithoutStep, ClaimInv
    <2>3. uses'.step[<<x, t>>] = IF y = <<x, t>> THEN 1 ELSE 0
      BY <1>1, <1>4, <2>2 DEF Activates, Bump
    <2> QED
      BY <1>2, <2>1, <2>3
  <1>5. CASE Removes
    <2>1. uses.step[<<x, t>>] = 0
      BY <1>5, NoneAssumption DEF Removes, WithoutStep, ClaimInv
    <2> QED
      BY <1>5, <2>1 DEF Removes
  <1>6. CASE Keeps
    BY <1>6 DEF Keeps, ClaimInv
  <1> QED
    BY <1>3, <1>4, <1>5, <1>6, ClaimKinds

\* CodeOnce: no two requests have the code of one step of a secret accepted, as
\* long as its last step is neither forgotten nor written over.
THEOREM CodeSafe == Spec => []CodeOnce
  <1>1. Init => ClaimInv
    BY DEF Init, ClaimInv, Verifying, Claiming
  <1>2. TypeOK /\ ClaimInv /\ [Next]_vars => ClaimInv'
    <2> SUFFICES ASSUME TypeOK, ClaimInv, [Next]_vars
                 PROVE  ClaimInv'
      OBVIOUS
    <2>1. CASE \E r \in Requests : Step(r)
      BY <2>1, ClaimingStep, AcceptedStep DEF ClaimInv
    <2>2. CASE SessionRefused \/ Tick \/ UNCHANGED vars
      <3>1. UNCHANGED <<user, pc, loc, uses, reset>>
        BY <2>2 DEF SessionRefused, Tick, vars, store, history
      <3> QED
        BY <3>1 DEF ClaimInv, Verifying, Claiming
    <2> QED
      BY <2>1, <2>2 DEF Next
  <1>3. ClaimInv => CodeOnce
    <2> SUFFICES ASSUME ClaimInv, NEW x \in Secrets \ reset, NEW t \in Steps
                 PROVE  uses.step[<<x, t>>] <= 1
      BY DEF CodeOnce
    <2>1. uses.step[<<x, t>>] \in {0, 1}
      BY DEF ClaimInv
    <2> QED
      BY <2>1
  <1> QED
    BY <1>1, <1>2, <1>3, TypeCorrect, PTL DEF Spec

-----------------------------------------------------------------------------
(***************************************************************************)
(* The failure budget of the account.  A request that the count has let    *)
(* through may still add one failure, so failures and such requests are    *)
(* counted together.  A row that an expired-row sweep has removed is older *)
(* than a lifetime, and a row younger than a lifetime is younger than the  *)
(* window, so the count sees every failure that the bound is about.        *)
(***************************************************************************)
LetThrough == {r \in Requests : pc[r] \in {"tp_state", "tp_code", "tp_fail"}}

RowInv ==
    \A i \in PendingIds :
        /\ pendings[i].state = "fresh" => pendings[i].attempts = 0
        /\ pendings[i].state = "deleted" => pendings[i].created + PendingTTL <= now

ClockInv ==
    \A r \in Requests : pc[r] \in {"pend_clean", "pend_insert"} => loc[r].at <= now

BudgetInv ==
    /\ RowInv
    /\ ClockInv
    /\ IsFiniteSet(Failures(PendingIds, -1))
    /\ FailuresSince(PendingIds, now - PendingTTL) + Cardinality(LetThrough)
           <= AccountLimit + Cardinality(Requests) - 1

\* The failures of rows opened after an instant, one by one.
LEMMA FailureOf ==
    ASSUME NEW S, NEW since, NEW f
    PROVE  f \in Failures(S, since)
               <=> \E i \in S : /\ pendings[i].created > since
                                /\ \E n \in 1..pendings[i].attempts : f = <<i, n>>
  BY DEF Failures

\* The failures after any instant are finitely many.
LEMMA FailuresFinite ==
    ASSUME TypeOK, IsFiniteSet(Failures(PendingIds, -1)),
           NEW S \in SUBSET PendingIds, NEW since \in Int
    PROVE  IsFiniteSet(Failures(S, since)) /\ FailuresSince(S, since) \in Nat
  <1>1. Failures(S, since) \subseteq Failures(PendingIds, -1)
    <2> SUFFICES ASSUME NEW f \in Failures(S, since)
                 PROVE  f \in Failures(PendingIds, -1)
      OBVIOUS
    <2>1. PICK i \in S : \E n \in 1..pendings[i].attempts : f = <<i, n>>
      BY FailureOf
    <2>2. i \in PendingIds /\ pendings[i].created > -1
      BY DEF TypeOK, Pending
    <2> QED
      BY <2>1, <2>2, FailureOf
  <1> QED
    BY <1>1, FS_Subset, FS_CardinalityType DEF FailuresSince

\* A step of a request counts no failure but the one of TotpFail.
LEMMA FailuresStep ==
    ASSUME TypeOK, NEW r \in Requests, Step(r), NEW since \in Int
    PROVE  LET old == Failures(PendingIds, since)
               new == UNION {{i} \X (1..pendings'[i].attempts) :
                                 i \in {j \in PendingIds : pendings'[j].created > since}}
           IN  \/ new \subseteq old
               \/ TotpFail(r) /\ \E f : new \subseteq old \cup {f}
  <1> DEFINE new == UNION {{i} \X (1..pendings'[i].attempts) :
                               i \in {j \in PendingIds : pendings'[j].created > since}}
  <1>1. ASSUME NEW f \in new,
               \A i \in PendingIds : f # <<i, pendings[i].attempts + 1>> \/ ~TotpFail(r)
                                                                         \/ loc[r].pid # i
        PROVE  f \in Failures(PendingIds, since)
    <2>0. PICK i \in PendingIds :
              /\ pendings'[i].created > since
              /\ \E n \in 1..pendings'[i].attempts : f = <<i, n>>
      OBVIOUS
    <2>1. PICK n \in 1..pendings'[i].attempts : f = <<i, n>>
      BY <2>0
    <2>2. pendings[i].attempts \in Nat
      BY DEF TypeOK, Pending
    <2>3. CASE /\ pendings'[i].attempts = pendings[i].attempts
               /\ pendings'[i].created = pendings[i].created
      BY <2>0, <2>1, <2>3, FailureOf
    <2>4. CASE pendings'[i].attempts = 0
      BY <2>1, <2>4
    <2>5. CASE /\ TotpFail(r) /\ loc[r].pid = i
               /\ pendings'[i].attempts = pendings[i].attempts + 1
               /\ pendings'[i].created = pendings[i].created
      <3>1. n # pendings[i].attempts + 1
        BY <1>1, <2>1, <2>5
      <3>2. n \in 1..pendings[i].attempts
        BY <2>1, <2>2, <2>5, <3>1
      <3> QED
        BY <2>0, <2>1, <2>5, <3>2, FailureOf
    <2> QED
      BY <2>3, <2>4, <2>5, AttemptsStep
  <1>2. CASE TotpFail(r)
    <2>1. new \subseteq Failures(PendingIds, since)
                           \cup {<<loc[r].pid, pendings[loc[r].pid].attempts + 1>>}
      BY <1>1
    <2> QED
      BY <1>2, <2>1
  <1>3. CASE ~TotpFail(r)
    BY <1>1, <1>3
  <1> QED
    BY <1>2, <1>3

\* Only the password step gets to the two statements of create_pending_login.
LEMMA OnlyPasswordStepsPend ==
    ASSUME TypeOK, NEW r \in Requests, Step(r),
           pc'[r] \in {"pend_clean", "pend_insert"}
    PROVE  LoginState(r) \/ PendingClean(r)
  <1> SUFFICES ASSUME ~LoginState(r), ~PendingClean(r)
               PROVE  FALSE
    OBVIOUS
  <1> USE DEF TypeOK, Goto, Done
  <1>1. CASE PasswordStep(r)
    BY <1>1 DEF PasswordStep, LoginUser, LoginFeature, PendingInsert
  <1>2. CASE CompleteLogin(r)
    BY <1>2 DEF CompleteLogin, SessionsDelete, SessionInsert
  <1>3. CASE TotpStep(r)
    BY <1>3 DEF TotpStep, TotpPost, TotpCount, TotpState, TotpVerify,
                TotpRecovery, TotpClaim, TotpConsume, TotpFail
  <1>4. CASE ChangePassword(r)
    BY <1>4 DEF ChangePassword, PasswordBegin, PasswordCommit, Begin
  <1>5. CASE Enrol(r)
    BY <1>5 DEF Enrol, SetupBegin, SetupSet, CancelBegin, CancelClear,
                ConfirmBegin, ConfirmRead, ConfirmVerify, ConfirmActivate,
                DeleteCodes, NewCodes, RegenerateBegin, RegenerateRead, Begin
  <1>6. CASE Disable(r)
    BY <1>6 DEF Disable, DisableBegin, DisableRead, DisableVerify,
                DisableRecovery, DisableClaim, DisableCommit, Begin
  <1>7. CASE Revoke(r)
    <2>1. CASE RevokeEnd(r)
      BY <2>1 DEF RevokeEnd, Locals
    <2> QED
      BY <1>7, <2>1 DEF Revoke, RevokeBegin, RevokeList, RevokeDelete, Audit
  <1>8. CASE Administer(r)
    BY <1>8 DEF Administer, BanSet, BanDelete, Unban, RevokeAll, SetFeature, May
  <1>9. CASE Logout(r) \/ Abandon(r)
    BY <1>9 DEF Logout, Abandon, May
  <1> QED
    BY <1>1, <1>2, <1>3, <1>4, <1>5, <1>6, <1>7, <1>8, <1>9 DEF Step

\* No request moves the clock.
LEMMA ClockStands ==
    ASSUME NEW r \in Requests, Step(r)
    PROVE  now' = now
  <1>1. CASE PasswordStep(r) \/ CompleteLogin(r) \/ TotpStep(r)
    BY <1>1 DEF PasswordStep, LoginUser, LoginFeature, LoginState, PendingClean,
                PendingInsert, CompleteLogin, SessionsDelete, SessionInsert, TotpStep,
                TotpPost, TotpCount, TotpState, TotpVerify, TotpRecovery, TotpClaim,
                TotpConsume, TotpFail
  <1>2. CASE ChangePassword(r) \/ Enrol(r)
    BY <1>2 DEF ChangePassword, PasswordBegin, PasswordCommit, Begin, Enrol, SetupBegin,
                SetupSet, CancelBegin, CancelClear, ConfirmBegin, ConfirmRead,
                ConfirmVerify, ConfirmActivate, DeleteCodes, NewCodes, RegenerateBegin,
                RegenerateRead, Begin
  <1>3. CASE Disable(r) \/ Revoke(r)
    BY <1>3 DEF Disable, DisableBegin, DisableRead, DisableVerify, DisableRecovery,
                DisableClaim, DisableCommit, Begin, Revoke, RevokeBegin, RevokeList,
                RevokeDelete, RevokeEnd, Audit
  <1>4. CASE Administer(r) \/ Logout(r) \/ Abandon(r)
    BY <1>4 DEF Administer, BanSet, BanDelete, Unban, RevokeAll, SetFeature, Logout,
                Abandon
  <1> QED
    BY <1>1, <1>2, <1>3, <1>4 DEF Step

\* The date a pending login will carry is never ahead of the clock.
LEMMA ClockStep ==
    ASSUME TypeOK, ClockInv, NEW r \in Requests, Step(r), now' = now
    PROVE  ClockInv'
  <1> SUFFICES ASSUME NEW q \in Requests, pc'[q] \in {"pend_clean", "pend_insert"}
               PROVE  loc'[q].at <= now
    BY DEF ClockInv
  <1>1. CASE q # r
    BY <1>1, OthersKept DEF ClockInv
  <1>2. CASE q = r
    <2>1. CASE LoginState(r)
      <3>1. loc'[r] = [loc[r] EXCEPT !.at = now] /\ now \in Nat
        BY <1>2, <2>1 DEF LoginState, Goto, Carry, TypeOK
      <3>2. loc'[r].at = now
        BY <3>1 DEF TypeOK, Locals
      <3> QED
        BY <1>2, <3>1, <3>2
    <2>2. CASE PendingClean(r)
      BY <1>2, <2>2 DEF PendingClean, ClockInv
    <2> QED
      BY <1>2, <2>1, <2>2, OnlyPasswordStepsPend
  <1> QED
    BY <1>1, <1>2

\* A row with failures is no fresh row, and a removed row had expired.
LEMMA RowStep ==
    ASSUME TypeOK, RowInv, ClockInv, NEW r \in Requests, Step(r), now' = now
    PROVE  RowInv'
  <1> USE DEF TypeOK
  <1> SUFFICES ASSUME NEW i \in PendingIds
               PROVE  /\ pendings'[i].state = "fresh" => pendings'[i].attempts = 0
                      /\ pendings'[i].state = "deleted"
                             => pendings'[i].created + PendingTTL <= now
    BY DEF RowInv
  <1>1. CASE UNCHANGED pendings
    BY <1>1 DEF RowInv
  <1>2. CASE PendingClean(r)
    <2>1. /\ pc[r] = "pend_clean"
          /\ pendings'[i] =
                 IF i \in Stored /\ pendings[i].created + PendingTTL <= loc[r].at
                 THEN [pendings[i] EXCEPT !.state = "deleted"]
                 ELSE pendings[i]
      BY <1>2 DEF PendingClean
    <2>2. CASE i \in Stored /\ pendings[i].created + PendingTTL <= loc[r].at
      <3>1. /\ loc[r].at <= now /\ loc[r].at \in Int /\ now \in Int
            /\ pendings[i].created + PendingTTL \in Int
        BY <2>1, LimitsAssumption DEF ClockInv, Locals, Pending
      <3>2. pendings'[i].state = "deleted" /\ pendings'[i].created = pendings[i].created
        BY <2>1, <2>2 DEF Pending
      <3> QED
        BY <2>2, <3>1, <3>2
    <2> QED
      BY <2>1, <2>2 DEF RowInv
  <1>3. CASE PendingInsert(r)
    BY <1>3 DEF PendingInsert, RowInv
  <1>4. CASE TotpConsume(r)
    BY <1>4 DEF TotpConsume, RowInv, Pending
  <1>5. CASE TotpFail(r)
    <2>1. /\ pendings'[i].state = pendings[i].state
          /\ pendings'[i].created = pendings[i].created
          /\ pendings'[i].attempts # pendings[i].attempts => i \in Stored
      BY <1>5 DEF TotpFail, Pending
    <2> QED
      BY <2>1 DEF RowInv, Stored
  <1> QED
    BY <1>1, <1>2, <1>3, <1>4, <1>5, PendingsStep

\* Only the count lets a request through, and only when it has seen fewer
\* failures than the limit.
LEMMA LetThroughStep ==
    ASSUME TypeOK, NEW r \in Requests, Step(r)
    PROVE  \/ LetThrough' \subseteq LetThrough
           \/ TotpCount(r) /\ ~OverBudget
  <1> SUFFICES ASSUME ~(TotpCount(r) /\ ~OverBudget)
               PROVE  pc'[r] \in {"tp_state", "tp_code", "tp_fail"}
                          => pc[r] \in {"tp_state", "tp_code", "tp_fail"}
    BY OthersKept DEF LetThrough
  <1> SUFFICES ASSUME TotpStep(r), pc'[r] \in {"tp_state", "tp_code", "tp_fail"}
               PROVE  pc[r] \in {"tp_state", "tp_code", "tp_fail"}
    BY OnlyTotpStepsGuess
  <1> QED
    BY DEF TotpStep, TotpPost, TotpCount, TotpState, TotpVerify, TotpRecovery,
           TotpClaim, TotpConsume, TotpFail, TypeOK, Goto, Done

\* What the bound is about is part of what the count sees.
LEMMA CountSeesAll ==
    ASSUME TypeOK, RowInv
    PROVE  Failures(PendingIds, now - PendingTTL)
               \subseteq Failures(Stored, now - AttemptWindow)
  <1> SUFFICES ASSUME NEW f \in Failures(PendingIds, now - PendingTTL)
               PROVE  f \in Failures(Stored, now - AttemptWindow)
    OBVIOUS
  <1>1. PICK i \in PendingIds :
            /\ pendings[i].created > now - PendingTTL
            /\ \E n \in 1..pendings[i].attempts : f = <<i, n>>
    BY FailureOf
  <1>2. /\ pendings[i].created \in Nat /\ now \in Nat /\ pendings[i].attempts \in Nat
        /\ PendingTTL \in Nat /\ AttemptWindow \in Nat /\ PendingTTL <= AttemptWindow
    BY LimitsAssumption, WindowAssumption DEF TypeOK, Pending
  <1>3. pendings[i].created > now - AttemptWindow
    BY <1>1, <1>2
  <1>4. pendings[i].attempts # 0
    BY <1>1
  <1>5. pendings[i].state # "fresh"
    BY <1>4 DEF RowInv
  <1>6. pendings[i].state # "deleted"
    BY <1>1, <1>2 DEF RowInv
  <1>7. i \in Stored
    BY <1>5, <1>6 DEF Stored, TypeOK, Pending
  <1> QED
    BY <1>1, <1>3, <1>7, FailureOf

\* Every step of a request keeps failures and requests let through together
\* within the budget.
LEMMA BudgetStep ==
    ASSUME TypeOK, BudgetInv, NEW r \in Requests, Step(r), now' = now
    PROVE  BudgetInv'
  <1> DEFINE since == now - PendingTTL
             old == Failures(PendingIds, since)
             new == Failures(PendingIds, since)'
  <1>1. /\ since \in Int /\ now \in Nat /\ AccountLimit \in Nat \ {0}
        /\ AttemptWindow \in Nat
    BY LimitsAssumption DEF TypeOK
  <1>2. RowInv' /\ ClockInv'
    BY RowStep, ClockStep DEF BudgetInv
  <1>3. new = UNION {{i} \X (1..pendings'[i].attempts) :
                         i \in {j \in PendingIds : pendings'[j].created > since}}
    BY DEF Failures
  <1>4. \/ new \subseteq old
        \/ TotpFail(r) /\ \E f : new \subseteq old \cup {f}
    BY <1>1, <1>3, FailuresStep
  <1>5. IsFiniteSet(Failures(PendingIds, -1)')
    <2>1. PICK f : Failures(PendingIds, -1)' \subseteq Failures(PendingIds, -1) \cup {f}
      BY FailuresStep DEF Failures
    <2>2. IsFiniteSet(Failures(PendingIds, -1) \cup {f})
      BY FS_AddElement DEF BudgetInv
    <2> QED
      BY <2>1, <2>2, FS_Subset
  <1>6. IsFiniteSet(old) /\ Cardinality(old) \in Nat
    BY <1>1, FailuresFinite DEF BudgetInv, FailuresSince
  <1>7. /\ IsFiniteSet(LetThrough) /\ Cardinality(LetThrough) \in Nat
        /\ IsFiniteSet(LetThrough') /\ Cardinality(LetThrough') \in Nat
        /\ Cardinality(LetThrough') <= Cardinality(Requests)
        /\ Cardinality(Requests) \in Nat
    BY RequestsAssumption, FS_Subset, FS_CardinalityType DEF LetThrough
  <1>8. Cardinality(old) + Cardinality(LetThrough)
            <= AccountLimit + Cardinality(Requests) - 1
    BY DEF BudgetInv, FailuresSince
  <1>9. Cardinality(new) + Cardinality(LetThrough')
            <= AccountLimit + Cardinality(Requests) - 1
    <2>1. CASE TotpFail(r)
      <3>1. r \in LetThrough /\ LetThrough' \subseteq LetThrough \ {r}
        BY <2>1, OthersKept DEF TotpFail, LetThrough, Done, Goto, TypeOK
      <3>2. /\ IsFiniteSet(LetThrough \ {r})
            /\ Cardinality(LetThrough \ {r}) = Cardinality(LetThrough) - 1
        BY <1>7, <3>1, FS_RemoveElement
      <3>3. Cardinality(LetThrough') <= Cardinality(LetThrough) - 1
        BY <3>1, <3>2, FS_Subset
      <3>4. PICK f : new \subseteq old \cup {f}
        BY <1>4
      <3>5. /\ IsFiniteSet(old \cup {f})
            /\ Cardinality(old \cup {f}) \in Nat
            /\ Cardinality(old \cup {f}) <= Cardinality(old) + 1
        BY <1>6, FS_AddElement, FS_CardinalityType
      <3>6. Cardinality(new) \in Nat /\ Cardinality(new) <= Cardinality(old) + 1
        BY <1>6, <3>4, <3>5, FS_Subset, FS_CardinalityType
      <3> QED
        BY <1>1, <1>6, <1>7, <1>8, <3>3, <3>6
    <2>2. CASE ~TotpFail(r)
      <3>1. Cardinality(new) \in Nat /\ Cardinality(new) <= Cardinality(old)
        BY <1>4, <1>6, <2>2, FS_Subset, FS_CardinalityType
      <3>2. CASE LetThrough' \subseteq LetThrough
        <4>1. Cardinality(LetThrough') <= Cardinality(LetThrough)
          BY <1>7, <3>2, FS_Subset
        <4> QED
          BY <1>1, <1>6, <1>7, <1>8, <3>1, <4>1
      <3>3. CASE ~OverBudget
        <4>1. /\ IsFiniteSet(Failures(Stored, now - AttemptWindow))
              /\ FailuresSince(Stored, now - AttemptWindow) \in Nat
          BY <1>1, FailuresFinite DEF BudgetInv, Stored
        <4>2. Cardinality(old) <= FailuresSince(Stored, now - AttemptWindow)
          BY <4>1, CountSeesAll, FS_Subset DEF BudgetInv, FailuresSince
        <4>3. FailuresSince(Stored, now - AttemptWindow) < AccountLimit
          BY <1>1, <3>3, <4>1 DEF OverBudget
        <4> QED
          BY <1>1, <1>6, <1>7, <3>1, <4>1, <4>2, <4>3
      <3> QED
        BY <3>2, <3>3, LetThroughStep
    <2> QED
      BY <2>1, <2>2
  <1>10. FailuresSince(PendingIds, now - PendingTTL)' = Cardinality(new)
    BY DEF FailuresSince
  <1> QED
    BY <1>2, <1>5, <1>9, <1>10 DEF BudgetInv

\* Time only takes failures away.
LEMMA BudgetTick ==
    ASSUME TypeOK, BudgetInv, Tick
    PROVE  BudgetInv'
  <1>1. /\ UNCHANGED <<pendings, pc, loc>> /\ now' = now + 1 /\ now \in Nat
        /\ PendingTTL \in Nat
    BY LimitsAssumption DEF Tick, store, TypeOK
  <1>2. RowInv'
    <2>1. \A i \in PendingIds : pendings[i].created + PendingTTL \in Nat
      BY <1>1 DEF TypeOK, Pending
    <2> QED
      BY <1>1, <2>1 DEF BudgetInv, RowInv
  <1>3. ClockInv'
    <2>1. \A r \in Requests : loc[r].at \in Nat
      BY DEF TypeOK, Locals
    <2> QED
      BY <1>1, <2>1 DEF BudgetInv, ClockInv
  <1>4. IsFiniteSet(Failures(PendingIds, -1)')
    BY <1>1 DEF BudgetInv, Failures
  <1>5. Failures(PendingIds, now - PendingTTL)' \subseteq Failures(PendingIds, now - PendingTTL)
    <2>1. \A i \in PendingIds : pendings[i].created > now' - PendingTTL
                                   => pendings[i].created > now - PendingTTL
      BY <1>1 DEF TypeOK, Pending
    <2> QED
      BY <1>1, <2>1 DEF Failures
  <1>6. /\ IsFiniteSet(Failures(PendingIds, now - PendingTTL))
        /\ FailuresSince(PendingIds, now - PendingTTL) \in Nat
    BY <1>1, FailuresFinite DEF BudgetInv
  <1>7. /\ FailuresSince(PendingIds, now - PendingTTL)' \in Nat
        /\ FailuresSince(PendingIds, now - PendingTTL)'
               <= FailuresSince(PendingIds, now - PendingTTL)
    BY <1>5, <1>6, FS_Subset, FS_CardinalityType DEF FailuresSince
  <1>8. LetThrough' = LetThrough /\ Cardinality(LetThrough) \in Nat
        /\ Cardinality(Requests) \in Nat /\ AccountLimit \in Nat
    BY <1>1, RequestsAssumption, LimitsAssumption, FS_Subset, FS_CardinalityType
       DEF LetThrough
  <1>9. FailuresSince(PendingIds, now - PendingTTL)' + Cardinality(LetThrough')
            <= AccountLimit + Cardinality(Requests) - 1
    BY <1>6, <1>7, <1>8 DEF BudgetInv
  <1> QED
    BY <1>2, <1>3, <1>4, <1>9 DEF BudgetInv

\* BudgetPerLifetime: whatever the number of requests in parallel and of pending
\* logins they open, the account takes at most AccountLimit failures, plus one for
\* each other request, on pending logins of one lifetime.
THEOREM BudgetSafe == Spec => []BudgetPerLifetime
  <1>1. Init => BudgetInv
    <2> SUFFICES ASSUME Init
                 PROVE  BudgetInv
      OBVIOUS
    <2>2. /\ Failures(PendingIds, -1) = {}
          /\ Failures(PendingIds, now - PendingTTL) = {}
          /\ LetThrough = {}
      BY DEF Init, Failures, LetThrough
    <2>3. /\ IsFiniteSet({}) /\ Cardinality({}) = 0
          /\ Cardinality(Requests) \in Nat /\ AccountLimit \in Nat \ {0}
      BY FS_EmptySet, FS_CardinalityType, RequestsAssumption, LimitsAssumption
    <2>4. RowInv /\ ClockInv
      BY DEF Init, RowInv, ClockInv
    <2>5. /\ FailuresSince(PendingIds, now - PendingTTL) = 0
          /\ Cardinality(LetThrough) = 0 /\ IsFiniteSet(Failures(PendingIds, -1))
      BY <2>2, <2>3 DEF FailuresSince
    <2> QED
      BY <2>3, <2>4, <2>5 DEF BudgetInv
  <1>2. TypeOK /\ BudgetInv /\ [Next]_vars => BudgetInv'
    <2> SUFFICES ASSUME TypeOK, BudgetInv, [Next]_vars
                 PROVE  BudgetInv'
      OBVIOUS
    <2>1. CASE \E r \in Requests : Step(r)
      BY <2>1, BudgetStep, ClockStands
    <2>2. CASE Tick
      BY <2>2, BudgetTick
    <2>3. CASE SessionRefused \/ UNCHANGED vars
      BY <2>3 DEF SessionRefused, vars, BudgetInv, RowInv, ClockInv, FailuresSince,
                  Failures, LetThrough
    <2> QED
      BY <2>1, <2>2, <2>3 DEF Next
  <1>3. TypeOK /\ BudgetInv => BudgetPerLifetime
    <2> SUFFICES ASSUME TypeOK, BudgetInv
                 PROVE  BudgetPerLifetime
      OBVIOUS
    <2>1. now - PendingTTL \in Int
      BY LimitsAssumption DEF TypeOK
    <2>2. FailuresSince(PendingIds, now - PendingTTL) \in Nat
      BY <2>1, FailuresFinite DEF BudgetInv
    <2>3. Cardinality(LetThrough) \in Nat /\ Cardinality(Requests) \in Nat
          /\ AccountLimit \in Nat
      BY RequestsAssumption, LimitsAssumption, FS_Subset, FS_CardinalityType
         DEF LetThrough
    <2> QED
      BY <2>2, <2>3 DEF BudgetInv, BudgetPerLifetime
  <1> QED
    BY <1>1, <1>2, <1>3, TypeCorrect, PTL DEF Spec

=============================================================================
