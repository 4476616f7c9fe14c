---------------------------- MODULE Gates_proofs ----------------------------
(***************************************************************************)
(* Theorems about Gates.                                                   *)
(***************************************************************************)
EXTENDS Gates, TLAPS

USE UsersAssumption, NoneAssumption

-----------------------------------------------------------------------------
(***************************************************************************)
(* Type correctness.                                                       *)
(***************************************************************************)

LEMMA TypeInit == Init => TypeOK
BY DEF Init, TypeOK, Configs, Granted, Sessions, Labels, Locals, NoLocals

\* Watch adds facts.
LEMMA WatchType ==
    ASSUME TypeOK, Watch
    PROVE  seen' \in [Requests -> SUBSET Facts]
<1>1. ASSUME NEW r \in Requests
      PROVE  (IF pc'[r] = "idle" THEN {} ELSE seen[r] \cup Sight(r)') \in SUBSET Facts
    <2>1. Sight(r)' \subseteq Facts
        BY DEF Sight
    <2>2. seen[r] \subseteq Facts
        BY DEF TypeOK
    <2>. QED  BY <2>1, <2>2
<1>. QED  BY <1>1 DEF Watch

LEMMA HandleType ==
    ASSUME TypeOK, NEW r \in Requests, Handle(r)
    PROVE  /\ UNCHANGED <<config, roles, factor>>
           /\ session' \in [Requests -> Sessions]
           /\ pc' \in [Requests -> Labels]
           /\ loc' \in [Requests -> Locals]
<1>. USE DEF TypeOK, Goto, Stored
<1>1. CASE Begin(r)
    <2>1. PICK path \in Paths, u \in Users, row \in {"valid", "gone"} :
            /\ loc' = [loc EXCEPT ![r].path = path, ![r].user = u]
            /\ session' = [session EXCEPT ![r] = row]
            /\ pc' = [pc EXCEPT ![r] = IF path \in Ungated THEN "maintenance" ELSE "policy"]
        BY <1>1 DEF Begin
    <2>2. loc' \in [Requests -> Locals]
        <3>1. [loc[r] EXCEPT !.path = path, !.user = u] \in Locals
            BY <2>1 DEF Locals
        <3>2. loc' = [loc EXCEPT ![r] = [loc[r] EXCEPT !.path = path, !.user = u]]
            BY <2>1
        <3>. QED  BY <3>1, <3>2
    <2>3. session' \in [Requests -> Sessions] /\ pc' \in [Requests -> Labels]
        BY <2>1 DEF Sessions, Labels
    <2>. QED  BY <1>1, <2>2, <2>3 DEF Begin
<1>2. CASE ReadPolicy(r)
    <2>1. config.policy \in {"none", "staff", "all"}
        BY DEF Configs
    <2>. QED  BY <1>2, <2>1 DEF ReadPolicy, Labels, Locals
<1>3. CASE ReadUser(r)
    BY <1>3 DEF ReadUser, Prune, Labels, Sessions
<1>4. CASE ReadFeature(r)
    BY <1>4 DEF ReadFeature, Labels
<1>5. CASE ReadRole(r)
    BY <1>5 DEF ReadRole, NextRole, Labels
<1>6. CASE ReadFactor(r)
    BY <1>6 DEF ReadFactor, Labels
<1>7. CASE ReadMaintenance(r)
    BY <1>7 DEF ReadMaintenance, Labels
<1>8. CASE ReadUserAgain(r)
    BY <1>8 DEF ReadUserAgain, Labels
<1>9. CASE ReadAdmin(r)
    BY <1>9 DEF ReadAdmin, Labels
<1>10. CASE ReadOwner(r)
    BY <1>10 DEF ReadOwner, Labels
<1>11. CASE End(r)
    BY <1>11 DEF End, Labels, Sessions, Locals, NoLocals
<1>. QED
    BY <1>1, <1>2, <1>3, <1>4, <1>5, <1>6, <1>7, <1>8, <1>9, <1>10, <1>11 DEF Handle

LEMMA ChangeType ==
    ASSUME TypeOK, Change
    PROVE  /\ UNCHANGED <<pc, loc>>
           /\ config' \in Configs
           /\ roles' \in [Users -> SUBSET Granted]
           /\ factor' \in [Users -> BOOLEAN]
           /\ session' \in [Requests -> Sessions]
<1>. USE DEF TypeOK
<1>1. CASE SetConfig
    BY <1>1, PoliciesAssumption DEF SetConfig, Configs
<1>2. ASSUME NEW u \in Users, ChangeRole(u)
      PROVE  roles' \in [Users -> SUBSET Granted] /\ UNCHANGED <<config, factor, session, pc, loc>>
    BY <1>2 DEF ChangeRole
<1>3. ASSUME NEW u \in Users, SetFactor(u)
      PROVE  factor' \in [Users -> BOOLEAN] /\ UNCHANGED <<config, roles, session, pc, loc>>
    BY <1>3 DEF SetFactor
<1>4. ASSUME NEW r \in Requests, SetSession(r)
      PROVE  session' \in [Requests -> Sessions] /\ UNCHANGED <<config, roles, factor, pc, loc>>
    BY <1>4 DEF SetSession, Sessions, Stored
<1>5. CASE SetConfig
    BY <1>1, <1>5 DEF SetConfig
<1>. QED
    BY <1>1, <1>2, <1>3, <1>4, <1>5 DEF Change

LEMMA TypeNext == TypeOK /\ [Next]_vars => TypeOK'
<1>1. ASSUME TypeOK, NEW r \in Requests, Handle(r), Watch
      PROVE  TypeOK'
    BY <1>1, HandleType, WatchType DEF TypeOK
<1>2. ASSUME TypeOK, Change, Watch
      PROVE  TypeOK'
    BY <1>2, ChangeType, WatchType DEF TypeOK
<1>3. ASSUME TypeOK, UNCHANGED vars
      PROVE  TypeOK'
    BY <1>3 DEF TypeOK, vars
<1>. QED
    BY <1>1, <1>2, <1>3 DEF Next

\* The variables of the gates keep their types.
THEOREM TypeCorrect == Spec => []TypeOK
<1>. QED  BY TypeInit, TypeNext, PTL DEF Spec

-----------------------------------------------------------------------------
(***************************************************************************)
(* What is so of a request, by the statement it executes next.             *)
(***************************************************************************)

Deciding == {"user", "feature", "admin", "owner", "moderator", "factor"}
Through == {"maintenance", "m_user", "m_admin", "m_owner", "handler"}

Excused(r) == seen[r] \cap {"lax", "off", "out", "enrolled"} # {} \/ Spared(r)
Admitted(r) ==
    \/ "running" \in seen[r]
    \/ /\ "in" \in seen[r]
       /\ loc[r].user \in Flagged \cup Owners \/ "admin" \in seen[r]

\* The policy decided on was in force once, and every role asked for so far was
\* missing once.
Asked(r) ==
    /\ pc[r] \in Deciding => (loc[r].policy = "staff" => "partial" \in seen[r])
    /\ pc[r] \in Deciding => loc[r].policy # "none"
    /\ pc[r] \in {"admin", "owner", "moderator"} => NeedsRole(r)
    /\ pc[r] \in {"owner", "moderator"} => "no admin" \in seen[r]
    /\ pc[r] = "moderator" => loc[r].user \notin Owners

ReqInv(r) ==
    /\ pc[r] # "idle" => Sight(r) \subseteq seen[r]
    /\ Asked(r)
    /\ pc[r] \in {"m_admin", "m_owner"} => "in" \in seen[r]
    /\ loc[r].path \notin Ungated /\ pc[r] \in Through => Excused(r)
    /\ pc[r] = "handler" /\ loc[r].path \notin Unmaintained => Admitted(r)

IInv == TypeOK /\ \A r \in Requests : ReqInv(r)

\* Each fact, read off Sight.
LEMMA SightNow ==
    ASSUME NEW r \in Requests, Sight(r) \subseteq seen[r]
    PROVE  /\ config.policy = "none" => "lax" \in seen[r]
           /\ config.policy = "staff" => "partial" \in seen[r]
           /\ ~config.feature => "off" \in seen[r]
           /\ session[r] # "valid" => "out" \in seen[r]
           /\ session[r] = "valid" => "in" \in seen[r]
           /\ factor[loc[r].user] => "enrolled" \in seen[r]
           /\ ~Has(loc[r].user, "admin") => "no admin" \in seen[r]
           /\ ~Has(loc[r].user, "moderator") => "no moderator" \in seen[r]
           /\ ~config.maintenance => "running" \in seen[r]
           /\ Has(loc[r].user, "admin") => "admin" \in seen[r]
BY DEF Sight, Facts

\* What a request has seen only grows, and holds what is so now.
LEMMA Grows ==
    ASSUME TypeOK, Watch, NEW r \in Requests, pc'[r] # "idle"
    PROVE  seen[r] \subseteq seen'[r] /\ Sight(r)' \subseteq seen'[r]
BY DEF Watch

\* A request that did not move keeps what it has.
LEMMA StandsStill ==
    ASSUME TypeOK, NEW r \in Requests, ReqInv(r),
           pc'[r] = pc[r], loc'[r] = loc[r],
           pc[r] # "idle" => seen[r] \subseteq seen'[r] /\ Sight(r)' \subseteq seen'[r]
    PROVE  ReqInv(r)'
<1>1. CASE pc[r] = "idle"
    BY <1>1 DEF ReqInv, Asked, Deciding, Through
<1>2. CASE pc[r] # "idle"
    <2>1. Asked(r)'
        BY <1>2 DEF ReqInv, Asked, NeedsRole
    <2>2. Excused(r) => Excused(r)'
        BY <1>2 DEF Excused, Spared
    <2>3. Admitted(r) => Admitted(r)'
        BY <1>2 DEF Admitted
    <2>. QED  BY <1>2, <2>1, <2>2, <2>3 DEF ReqInv
<1>. QED  BY <1>1, <1>2

LEMMA MoverKeeps ==
    ASSUME TypeOK, NEW r \in Requests, ReqInv(r), Handle(r), Watch, TypeOK'
    PROVE  ReqInv(r)'
<1>. USE DEF Goto, Stored
<1>1. CASE Begin(r)
    <2>1. PICK path \in Paths, u \in Users, row \in {"valid", "gone"} :
            /\ loc' = [loc EXCEPT ![r].path = path, ![r].user = u]
            /\ pc' = [pc EXCEPT ![r] = IF path \in Ungated THEN "maintenance" ELSE "policy"]
        BY <1>1 DEF Begin
    <2>2. loc' = [loc EXCEPT ![r] = [loc[r] EXCEPT !.path = path, !.user = u]]
        BY <2>1 DEF TypeOK
    <2>3. loc'[r].path = path /\ pc'[r] = IF path \in Ungated THEN "maintenance" ELSE "policy"
        BY <2>1, <2>2 DEF TypeOK, Locals
    <2>. QED  BY <2>3, Grows DEF ReqInv, Asked, Deciding, Through
<1>2. CASE End(r)
    BY <1>2 DEF End, TypeOK, ReqInv, Asked, Deciding, Through
<1>3. ASSUME pc[r] # "idle", pc'[r] # "idle", loc'[r].path = loc[r].path, loc'[r].user = loc[r].user,
             Asked(r)',
             pc'[r] \in {"m_admin", "m_owner"} => "in" \in seen[r],
             loc[r].path \notin Ungated /\ pc'[r] \in Through => Excused(r),
             pc'[r] = "handler" /\ loc[r].path \notin Unmaintained => Admitted(r)
      PROVE  ReqInv(r)'
    <2>1. seen[r] \subseteq seen'[r] /\ Sight(r)' \subseteq seen'[r]
        BY <1>3, Grows
    <2>2. Excused(r) => Excused(r)'
        BY <1>3, <2>1 DEF Excused, Spared
    <2>3. Admitted(r) => Admitted(r)'
        BY <1>3, <2>1 DEF Admitted
    <2>. QED  BY <1>3, <2>1, <2>2, <2>3 DEF ReqInv
<1>4. pc[r] # "idle" => Sight(r) \subseteq seen[r]
    BY DEF ReqInv
<1>5. pc[r] # "idle" /\ pc'[r] # "idle" => seen[r] \subseteq seen'[r]
    BY Grows
<1>6. CASE ReadPolicy(r)
    <2>1. /\ pc[r] = "policy" /\ loc' = [loc EXCEPT ![r].policy = config.policy]
          /\ pc'[r] = IF config.policy = "none" THEN "maintenance" ELSE "user"
        BY <1>6 DEF ReadPolicy, TypeOK
    <2>2. /\ loc'[r].policy = config.policy
          /\ loc'[r].path = loc[r].path /\ loc'[r].user = loc[r].user
        BY <2>1 DEF TypeOK, Locals
    <2>3. Asked(r)'
        BY <2>1, <2>2, <1>4, <1>5, SightNow DEF Asked, Deciding
    <2>4. pc'[r] \in Through => Excused(r)
        BY <2>1, <1>4, SightNow DEF Through, Excused
    <2>. QED  BY <1>3, <2>1, <2>2, <2>3, <2>4
<1>7. CASE ReadUser(r)
    <2>1. /\ pc[r] = "user" /\ loc'[r] = loc[r]
          /\ \/ session[r] # "valid" /\ pc'[r] = "maintenance"
             \/ pc'[r] = "feature"
        BY <1>7 DEF ReadUser, IsGuest, TypeOK
    <2>2. Asked(r)'
        BY <2>1, <1>5 DEF ReqInv, Asked, Deciding
    <2>3. pc'[r] \in Through => Excused(r)
        BY <2>1, <1>4, SightNow DEF Through, Excused
    <2>. QED  BY <1>3, <2>1, <2>2, <2>3
<1>8. CASE ReadFeature(r)
    <2>1. /\ pc[r] = "feature" /\ loc'[r] = loc[r]
          /\ pc'[r] = IF ~config.feature THEN "maintenance"
                      ELSE IF NeedsRole(r) THEN "admin" ELSE "factor"
        BY <1>8 DEF ReadFeature, TypeOK
    <2>2. Asked(r)'
        BY <2>1, <1>5 DEF ReqInv, Asked, Deciding, NeedsRole
    <2>3. pc'[r] \in Through => Excused(r)
        BY <2>1, <1>4, SightNow DEF Through, Excused
    <2>. QED  BY <1>3, <2>1, <2>2, <2>3
<1>9. CASE ReadRole(r)
    <2>1. /\ pc[r] \in {"admin", "owner", "moderator"} /\ loc'[r] = loc[r]
          /\ pc'[r] = IF Has(loc[r].user, pc[r]) THEN "factor" ELSE NextRole[pc[r]]
        BY <1>9 DEF ReadRole, TypeOK
    <2>2. NeedsRole(r) /\ loc[r].policy = "staff" /\ "partial" \in seen[r]
        BY <2>1 DEF ReqInv, Asked, Deciding, NeedsRole, TypeOK, Locals
    <2>3. /\ pc[r] = "admin" /\ ~Has(loc[r].user, "admin") => "no admin" \in seen[r]
          /\ pc[r] = "moderator" /\ ~Has(loc[r].user, "moderator") => "no moderator" \in seen[r]
          /\ pc[r] = "owner" /\ ~Has(loc[r].user, "owner") => loc[r].user \notin Owners
        BY <2>1, <1>4, SightNow DEF Has
    <2>4. /\ pc[r] = "admin" => pc'[r] \in {"factor", "owner"}
          /\ pc[r] = "owner" => pc'[r] \in {"factor", "moderator"}
          /\ pc[r] = "moderator" => pc'[r] \in {"factor", "maintenance"}
          /\ pc'[r] # "factor" => ~Has(loc[r].user, pc[r])
        BY <2>1 DEF NextRole
    <2>5. pc[r] \in {"owner", "moderator"} => "no admin" \in seen[r]
        BY DEF ReqInv, Asked
    <2>6. pc[r] = "moderator" => loc[r].user \notin Owners
        BY DEF ReqInv, Asked
    <2>7. "partial" \in seen'[r] /\ ("no admin" \in seen[r] => "no admin" \in seen'[r])
        BY <2>1, <2>2, <2>4, <1>5
    <2>8. Asked(r)'
        BY <2>1, <2>2, <2>3, <2>4, <2>5, <2>7 DEF Asked, Deciding, NeedsRole
    <2>9. pc'[r] \in Through => Excused(r)
        BY <2>1, <2>2, <2>3, <2>4, <2>5, <2>6 DEF NeedsRole, Through, Excused, Spared
    <2>. QED  BY <1>3, <2>1, <2>4, <2>8, <2>9
<1>10. CASE ReadFactor(r)
    <2>1. pc[r] = "factor" /\ loc'[r] = loc[r] /\ pc'[r] = "maintenance" /\ factor[loc[r].user]
        BY <1>10 DEF ReadFactor, TypeOK
    <2>2. Asked(r)' /\ Excused(r)
        BY <2>1, <1>4, SightNow DEF Asked, Deciding, Excused
    <2>. QED  BY <1>3, <2>1, <2>2
<1>11. CASE ReadMaintenance(r)
    <2>1. /\ pc[r] = "maintenance" /\ loc'[r] = loc[r]
          /\ \/ pc'[r] = "handler" /\ Passes(r)
             \/ pc'[r] = "m_user"
        BY <1>11 DEF ReadMaintenance, TypeOK
    <2>2. Asked(r)'
        BY <2>1 DEF Asked, Deciding
    <2>3. loc[r].path \notin Ungated => Excused(r)
        BY <2>1 DEF ReqInv, Through
    <2>4. pc'[r] = "handler" /\ loc[r].path \notin Unmaintained => Admitted(r)
        BY <2>1, <1>4, SightNow DEF Passes, Admitted
    <2>. QED  BY <1>3, <2>1, <2>2, <2>3, <2>4
<1>12. CASE ReadUserAgain(r)
    <2>1. /\ pc[r] = "m_user" /\ loc'[r] = loc[r] /\ session[r] = "valid"
          /\ pc'[r] = IF loc[r].user \in Flagged THEN "handler" ELSE "m_admin"
        BY <1>12 DEF ReadUserAgain, TypeOK
    <2>2. "in" \in seen[r]
        BY <2>1, <1>4, SightNow
    <2>3. Asked(r)'
        BY <2>1 DEF Asked, Deciding
    <2>4. loc[r].path \notin Ungated => Excused(r)
        BY <2>1 DEF ReqInv, Through
    <2>5. pc'[r] = "handler" => Admitted(r)
        BY <2>1, <2>2 DEF Admitted
    <2>. QED  BY <1>3, <2>1, <2>2, <2>3, <2>4, <2>5
<1>13. CASE ReadAdmin(r)
    <2>1. /\ pc[r] = "m_admin" /\ loc'[r] = loc[r]
          /\ \/ Has(loc[r].user, "admin") /\ pc'[r] = "handler"
             \/ pc'[r] = "m_owner"
        BY <1>13 DEF ReadAdmin, TypeOK
    <2>2. "in" \in seen[r]
        BY <2>1 DEF ReqInv
    <2>3. Asked(r)'
        BY <2>1 DEF Asked, Deciding
    <2>4. loc[r].path \notin Ungated => Excused(r)
        BY <2>1 DEF ReqInv, Through
    <2>5. pc'[r] = "handler" => Admitted(r)
        BY <2>1, <2>2, <1>4, SightNow DEF Admitted
    <2>. QED  BY <1>3, <2>1, <2>2, <2>3, <2>4, <2>5
<1>14. CASE ReadOwner(r)
    <2>1. /\ pc[r] = "m_owner" /\ loc'[r] = loc[r] /\ pc'[r] = "handler"
          /\ loc[r].user \in Owners
        BY <1>14 DEF ReadOwner, Has, TypeOK
    <2>2. "in" \in seen[r]
        BY <2>1 DEF ReqInv
    <2>3. Asked(r)' /\ Admitted(r)
        BY <2>1, <2>2 DEF Asked, Deciding, Admitted
    <2>4. loc[r].path \notin Ungated => Excused(r)
        BY <2>1 DEF ReqInv, Through
    <2>. QED  BY <1>3, <2>1, <2>2, <2>3, <2>4
<1>. QED
    BY <1>1, <1>2, <1>6, <1>7, <1>8, <1>9, <1>10, <1>11, <1>12, <1>13, <1>14 DEF Handle

\* A request moves no other.
LEMMA OthersStand ==
    ASSUME TypeOK, NEW r \in Requests, NEW q \in Requests, q # r, Handle(r)
    PROVE  pc'[q] = pc[q] /\ loc'[q] = loc[q]
<1>. USE DEF Goto, Stored, TypeOK
<1>1. CASE Begin(r)
    <2>1. PICK path \in Paths, u \in Users, row \in {"valid", "gone"} :
            /\ loc' = [loc EXCEPT ![r].path = path, ![r].user = u]
            /\ pc' = [pc EXCEPT ![r] = IF path \in Ungated THEN "maintenance" ELSE "policy"]
        BY <1>1 DEF Begin
    <2>. QED  BY <2>1
<1>2. CASE ReadPolicy(r) \/ ReadUser(r) \/ ReadFeature(r) \/ ReadRole(r)
    BY <1>2 DEF ReadPolicy, ReadUser, ReadFeature, ReadRole
<1>3. CASE ReadFactor(r) \/ ReadMaintenance(r) \/ ReadUserAgain(r)
    BY <1>3 DEF ReadFactor, ReadMaintenance, ReadUserAgain
<1>4. CASE ReadAdmin(r) \/ ReadOwner(r) \/ End(r)
    BY <1>4 DEF ReadAdmin, ReadOwner, End
<1>. QED  BY <1>1, <1>2, <1>3, <1>4 DEF Handle

LEMMA IInvInit == Init => IInv
BY TypeInit DEF Init, IInv, ReqInv, Asked, Deciding, Through

LEMMA IInvNext == IInv /\ [Next]_vars => IInv'
<1>. SUFFICES ASSUME IInv, [Next]_vars
              PROVE  IInv'
    OBVIOUS
<1>a. TypeOK'
    BY TypeNext DEF IInv
<1>. SUFFICES ASSUME NEW q \in Requests
              PROVE  ReqInv(q)'
    BY <1>a DEF IInv
<1>1. TypeOK' /\ TypeOK /\ ReqInv(q)
    BY TypeNext DEF IInv
<1>2. ASSUME NEW r \in Requests, Handle(r), Watch
      PROVE  ReqInv(q)'
    <2>1. CASE q = r
        BY <1>1, <1>2, <2>1, MoverKeeps
    <2>2. CASE q # r
        BY <1>1, <1>2, <2>2, OthersStand, Grows, StandsStill
    <2>. QED  BY <2>1, <2>2
<1>3. ASSUME Change, Watch
      PROVE  ReqInv(q)'
    BY <1>1, <1>3, ChangeType, Grows, StandsStill
<1>4. ASSUME UNCHANGED vars
      PROVE  ReqInv(q)'
    <2>1. Sight(q)' = Sight(q)
        BY <1>4 DEF vars, Sight, Has
    <2>. QED  BY <1>1, <1>4, <2>1, StandsStill DEF vars, ReqInv
<1>. QED
    BY <1>1, <1>2, <1>3, <1>4 DEF Next

THEOREM Inductive == Spec => []IInv
<1>. QED  BY IInvInit, IInvNext, PTL DEF Spec

\* Nobody gets past the second-factor gate on a mixture of old and new answers that
\* was never a reason, whatever the number of requests, users and policies.
THEOREM FactorSafe == Spec => []FactorScreened
<1>1. IInv => FactorScreened
    BY DEF IInv, ReqInv, FactorScreened, Through, Excused
<1>. QED  BY <1>1, Inductive, PTL

\* During maintenance only administrators reach the handlers behind the gate.
THEOREM MaintenanceSafe == Spec => []MaintenanceScreened
<1>1. IInv => MaintenanceScreened
    BY DEF IInv, ReqInv, MaintenanceScreened, Admitted
<1>. QED  BY <1>1, Inductive, PTL

=============================================================================
