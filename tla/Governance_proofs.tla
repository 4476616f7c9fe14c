------------------------- MODULE Governance_proofs -------------------------
(***************************************************************************)
(* Theorems about Governance.                                              *)
(***************************************************************************)
EXTENDS Governance, TLAPS

USE UsersAssumption, NoneAssumption

-----------------------------------------------------------------------------
(***************************************************************************)
(* Type correctness: the types, and the fields a form fills in.            *)
(***************************************************************************)

\* A request under way names what its work needs.
FormOK(r) ==
    pc[r] # "idle" =>
        /\ loc[r].work \in Works
        /\ loc[r].user \in Users
        /\ loc[r].work \in {"grant", "revoke"} => loc[r].role \in Granted
        /\ loc[r].work \in {"grant", "revoke", "ban", "unban", "expel"} => loc[r].target \in Users

TypeInv == TypeOK /\ \A r \in Requests : FormOK(r)

\* A request as it begins.
LEMMA FormType ==
    ASSUME NEW work \in Works, NEW u \in Users, NEW l \in Form(work, u)
    PROVE  /\ l \in Locals /\ l.work = work /\ l.user = u
           /\ work \in {"grant", "revoke"} => l.role \in Granted
           /\ work \in {"grant", "revoke", "ban", "unban", "expel"} => l.target \in Users
<1>1. /\ l.work = work /\ l.user = u
      /\ l.target \in IF work \in {"grant", "revoke"} THEN Users
              ELSE IF work \in {"ban", "unban", "expel"} THEN Named ELSE {None}
      /\ l.role \in IF work \in {"grant", "revoke"} THEN AcceptedRoles ELSE {None}
      /\ l.board \in IF work = "moderate" THEN Boards ELSE {None}
      /\ l.report \in IF work \in StaffWork \cup {"report"} THEN Reports ELSE {None}
      /\ l = [work |-> l.work, user |-> l.user, target |-> l.target, role |-> l.role,
              board |-> l.board, report |-> l.report]
    BY DEF Form
<1>2. /\ l.target \in Users \cup {None} /\ l.role \in Granted \cup {None}
      /\ l.board \in Boards \cup {None} /\ l.report \in Reports \cup {None}
    BY <1>1 DEF AcceptedRoles
<1>3. l \in Locals
    BY <1>1, <1>2 DEF Locals
<1>. QED  BY <1>1, <1>3 DEF AcceptedRoles

\* Watch adds facts.
LEMMA WatchType ==
    ASSUME TypeOK, Watch, \A q \in Requests : pc'[q] # "idle" => loc'[q].work \in Works
    PROVE  seen' \in [Requests -> SUBSET Facts]
<1>1. ASSUME NEW r \in Requests
      PROVE  (IF pc'[r] = "idle" THEN {} ELSE seen[r] \cup Sight(r)') \in SUBSET Facts
    <2>1. CASE pc'[r] # "idle"
        <3>1. Depends(loc'[r].work) \subseteq Facts
            BY <2>1 DEF Depends, Facts
        <3>2. Sight(r)' \subseteq Depends(loc'[r].work)
            BY DEF Sight
        <3>. QED  BY <2>1, <3>1, <3>2 DEF TypeOK
    <2>. QED  BY <2>1
<1>. QED  BY <1>1 DEF Watch

\* A check moves one request on; it writes nothing but the session of one that
\* begins or ends.
LEMMA CheckMoves ==
    ASSUME TypeOK, NEW r \in Requests, FormOK(r), Check(r), ~Begin(r), ~End(r)
    PROVE  /\ UNCHANGED <<tables, loc>>
           /\ pc[r] # "idle"
           /\ \E label \in Labels \ {"idle"} : pc' = [pc EXCEPT ![r] = label]
<1>. USE DEF At, Goto, Labels
<1>1. CASE ReadUser(r)
    BY <1>1 DEF ReadUser, AfterUser, FormOK, Works
<1>2. CASE ReadOwner(r)
    BY <1>2 DEF ReadOwner
<1>3. CASE ReadStaff(r)
    BY <1>3 DEF ReadStaff
<1>4. CASE ReadTarget(r)
    BY <1>4 DEF ReadTarget
<1>5. CASE ReadFactor(r)
    BY <1>5 DEF ReadFactor
<1>6. CASE ReadUserAgain(r)
    BY <1>6 DEF ReadUserAgain
<1>7. CASE ReadScope(r)
    BY <1>7 DEF ReadScope
<1>8. CASE ReadAssigned(r)
    BY <1>8 DEF ReadAssigned
<1>9. CASE ReadEnabled(r)
    BY <1>9 DEF ReadEnabled
<1>. QED
    BY <1>1, <1>2, <1>3, <1>4, <1>5, <1>6, <1>7, <1>8, <1>9 DEF Check

LEMMA BeginType ==
    ASSUME TypeOK, NEW r \in Requests, Begin(r)
    PROVE  /\ UNCHANGED <<roles, factor, banned, reporting, report>>
           /\ session' \in [Requests -> BOOLEAN]
           /\ pc' = [pc EXCEPT ![r] = "user"]
           /\ loc' \in [Requests -> Locals]
           /\ \A q \in Requests \ {r} : loc'[q] = loc[q]
           /\ FormOK(r)'
<1>0. PICK work \in Works, u \in Users : \E l \in Form(work, u) : loc' = [loc EXCEPT ![r] = l]
    BY DEF Begin
<1>1. PICK l \in Form(work, u) : loc' = [loc EXCEPT ![r] = l]
    BY <1>0
<1>2. FormOK(r)' /\ loc' \in [Requests -> Locals]
    BY <1>1, FormType DEF FormOK, TypeOK
<1>. QED  BY <1>1, <1>2 DEF Begin, Goto, TypeOK

\* A write ends its request, but for a ban, which has the sessions still to delete.
Ends(r) ==
    /\ pc' = [pc EXCEPT ![r] = "idle"]
    /\ loc' = [loc EXCEPT ![r] = NoLocals]
Bans(r) ==
    /\ loc[r].work = "ban"
    /\ pc' = [pc EXCEPT ![r] = "sessions"]
    /\ loc' = loc

LEMMA WriteType ==
    ASSUME TypeOK, NEW r \in Requests, FormOK(r), Write(r) \/ End(r)
    PROVE  /\ roles' \in [Users -> SUBSET Granted]
           /\ factor' = factor
           /\ banned' \in [Users -> BOOLEAN]
           /\ reporting' \in BOOLEAN
           /\ report' \in [Reports -> ReportRows]
           /\ session' \in [Requests -> BOOLEAN]
           /\ Ends(r) \/ Bans(r)
<1>. USE DEF TypeOK, At, Goto, Finish, FormOK
<1>1. CASE ChangeRole(r)
    <2>1. IF loc[r].work = "grant" THEN roles[loc[r].target] \cup {loc[r].role} \in SUBSET Granted
          ELSE roles[loc[r].target] \ {loc[r].role} \in SUBSET Granted
        BY <1>1 DEF ChangeRole
    <2>. QED  BY <1>1, <2>1 DEF ChangeRole, Ends
<1>2. CASE CloseReport(r)
    BY <1>2 DEF CloseReport, ReportRows, Ends
<1>3. CASE CreateReport(r)
    <2>1. [report EXCEPT ![loc[r].report].status = "open"] \in [Reports -> ReportRows]
        BY DEF ReportRows
    <2>. QED  BY <1>3, <2>1 DEF CreateReport, Ends
<1>4. CASE Expel(r)
    BY <1>4 DEF Expel, Expelled, Ends
<1>5. CASE SetBanned(r)
    BY <1>5 DEF SetBanned, Ends, Bans
<1>6. CASE SetReporting(r)
    BY <1>6 DEF SetReporting, Ends
<1>7. CASE MoveToOrFromTrash(r)
    BY <1>7 DEF MoveToOrFromTrash, Ends
<1>8. CASE End(r)
    BY <1>8 DEF End, Ends
<1>. QED
    BY <1>1, <1>2, <1>3, <1>4, <1>5, <1>6, <1>7, <1>8 DEF Write

LEMMA TypeInit == Init => TypeInv
<1>1. Init => TypeOK
    BY DEF Init, TypeOK, ReportRows, Labels, Locals, NoLocals
<1>. QED  BY <1>1 DEF Init, TypeInv, FormOK

\* The steps of a request, as far as the others are concerned.
LEMMA OthersStand ==
    ASSUME TypeOK, NEW r \in Requests, FormOK(r), Check(r) \/ Write(r),
           NEW q \in Requests, q # r
    PROVE  pc'[q] = pc[q] /\ loc'[q] = loc[q]
<1>1. CASE Begin(r)
    BY <1>1, BeginType DEF TypeOK
<1>2. CASE Write(r) \/ End(r)
    BY <1>2, WriteType DEF Ends, Bans, TypeOK
<1>3. CASE Check(r) /\ ~Begin(r) /\ ~End(r)
    BY <1>3, CheckMoves DEF TypeOK
<1>. QED  BY <1>1, <1>2, <1>3

LEMMA RequestType ==
    ASSUME TypeInv, NEW r \in Requests, Check(r) \/ Write(r), Watch
    PROVE  TypeInv'
<1>1. TypeOK /\ FormOK(r)
    BY DEF TypeInv
<1>2. /\ roles' \in [Users -> SUBSET Granted] /\ factor' = factor
      /\ banned' \in [Users -> BOOLEAN] /\ reporting' \in BOOLEAN
      /\ report' \in [Reports -> ReportRows] /\ session' \in [Requests -> BOOLEAN]
      /\ pc' \in [Requests -> Labels] /\ loc' \in [Requests -> Locals]
      /\ FormOK(r)'
    <2>1. CASE Begin(r)
        BY <1>1, <2>1, BeginType DEF TypeOK, Labels
    <2>2. CASE Write(r) \/ End(r)
        <3>1. NoLocals \in Locals
            BY DEF NoLocals, Locals
        <3>2. Ends(r) \/ Bans(r)
            BY <1>1, <2>2, WriteType
        <3>3. pc' \in [Requests -> Labels] /\ loc' \in [Requests -> Locals] /\ FormOK(r)'
            <4>1. CASE Ends(r)
                <5>1. pc'[r] = "idle" /\ pc' \in [Requests -> Labels]
                    BY <1>1, <4>1 DEF Ends, TypeOK, Labels
                <5>2. loc' \in [Requests -> Locals]
                    BY <1>1, <3>1, <4>1 DEF Ends, TypeOK
                <5>. QED  BY <5>1, <5>2 DEF FormOK
            <4>2. CASE Bans(r)
                <5>1. pc[r] # "idle"
                    BY <2>2 DEF Write, End, At, ChangeRole, CloseReport, CreateReport, Expel,
                        SetBanned, SetReporting, MoveToOrFromTrash
                <5>. QED  BY <1>1, <4>2, <5>1 DEF Bans, TypeOK, Labels, FormOK
            <4>. QED  BY <3>2, <4>1, <4>2
        <3>. QED  BY <1>1, <2>2, <3>3, WriteType DEF TypeOK
    <2>3. CASE Check(r) /\ ~Begin(r) /\ ~End(r)
        BY <1>1, <2>3, CheckMoves DEF TypeOK, tables, FormOK
    <2>. QED  BY <2>1, <2>2, <2>3
<1>3. \A q \in Requests : FormOK(q)'
    BY <1>1, <1>2, OthersStand DEF TypeInv, FormOK
<1>4. seen' \in [Requests -> SUBSET Facts]
    BY <1>1, <1>3, WatchType DEF FormOK
<1>. QED  BY <1>1, <1>2, <1>3, <1>4 DEF TypeInv, TypeOK

LEMMA TypeNext == TypeInv /\ [Next]_vars => TypeInv'
<1>1. ASSUME TypeInv, NEW u \in Users \ Owners, SetFactor(u), Watch
      PROVE  TypeInv'
    <2>1. seen' \in [Requests -> SUBSET Facts]
        BY <1>1, WatchType DEF SetFactor, TypeInv, FormOK
    <2>. QED  BY <1>1, <2>1 DEF SetFactor, TypeInv, TypeOK, FormOK
<1>2. ASSUME TypeInv, UNCHANGED vars
      PROVE  TypeInv'
    BY <1>2 DEF TypeInv, TypeOK, FormOK, vars
<1>. QED  BY <1>1, <1>2, RequestType DEF Next

\* The variables of Governance keep their types.
THEOREM TypeCorrect == Spec => []TypeOK
<1>1. TypeInv => TypeOK
    BY DEF TypeInv
<1>. QED  BY <1>1, TypeInit, TypeNext, PTL DEF Spec

-----------------------------------------------------------------------------
(***************************************************************************)
(* What entitles a request, by the statement it executes next.             *)
(***************************************************************************)

\* The works that come to a statement.
WorksAt(label) ==
    CASE label = "owner" -> OwnerWork
      [] label = "staff" -> StaffWork
      [] label = "target" -> {"grant", "revoke"}
      [] label = "factor" -> {"grant"}
      [] label \in {"again", "scope", "assigned"} -> {"moderate"}
      [] label = "enabled" -> {"report"}
      [] label = "sessions" -> {"ban"}
      [] OTHER -> Works

\* What has been found so far.
Found(r) ==
    /\ loc[r].work \in WorksAt(pc[r])
    /\ pc[r] # "user" => "in" \in seen[r]
    /\ pc[r] # "user" /\ loc[r].work \in AdminWork => loc[r].user \in Flagged
    /\ pc[r] \in {"target", "factor"} => loc[r].user \in Owners
    /\ pc[r] = "factor" => MayChange(r)
    /\ pc[r] = "assigned" => "moderator" \in seen[r]
    /\ pc[r] \in {"write", "sessions"} => Entitled(r)

ReqInv(r) == pc[r] # "idle" => Sight(r) \subseteq seen[r] /\ Found(r)

IInv == TypeInv /\ \A r \in Requests : ReqInv(r)

\* Each fact, read off Sight.
LEMMA SightNow ==
    ASSUME NEW r \in Requests, Sight(r) \subseteq seen[r], loc[r].work \in Works
    PROVE  /\ SignedIn(r) => "in" \in seen[r]
           /\ loc[r].work = "grant" /\ loc[r].target \notin Owners /\ factor[loc[r].target]
                => "enrolled" \in seen[r]
           /\ loc[r].work \in StaffWork \cup {"moderate"}
                => roles[loc[r].user] \cap Granted \subseteq seen[r]
           /\ loc[r].work = "report" /\ reporting => "reporting" \in seen[r]
<1>1. SignedIn(r) => "in" \in Sight(r)
    BY DEF Sight, Depends, SignedIn, Works
<1>2. loc[r].work = "grant" /\ loc[r].target \notin Owners /\ factor[loc[r].target]
        => "enrolled" \in Sight(r)
    <2>1. loc[r].work = "grant" => "enrolled" \in Depends(loc[r].work)
        BY DEF Depends, StaffWork
    <2>. QED  BY <2>1 DEF Sight
<1>3. ASSUME loc[r].work \in StaffWork \cup {"moderate"}, NEW f \in Granted, f \in roles[loc[r].user]
      PROVE  f \in Sight(r)
    <2>1. f \in {"admin", "moderator"} /\ Depends(loc[r].work) = {"in", "admin", "moderator"}
        BY <1>3 DEF Depends, StaffWork, Granted
    <2>. QED  BY <1>3, <2>1 DEF Sight
<1>4. loc[r].work = "report" /\ reporting => "reporting" \in Sight(r)
    BY DEF Sight, Depends, StaffWork
<1>. QED  BY <1>1, <1>2, <1>3, <1>4

\* What a request has seen only grows, and holds what is so now.
LEMMA Grows ==
    ASSUME TypeOK, Watch, NEW r \in Requests, pc'[r] # "idle"
    PROVE  seen[r] \subseteq seen'[r] /\ Sight(r)' \subseteq seen'[r]
BY DEF Watch

\* A request that did not move keeps what it has.
LEMMA StandsStill ==
    ASSUME NEW r \in Requests, ReqInv(r),
           pc'[r] = pc[r], loc'[r] = loc[r],
           pc[r] # "idle" => seen[r] \subseteq seen'[r] /\ Sight(r)' \subseteq seen'[r]
    PROVE  ReqInv(r)'
<1>1. CASE pc[r] = "idle"
    BY <1>1 DEF ReqInv
<1>2. CASE pc[r] # "idle"
    <2>1. Entitled(r) => Entitled(r)'
        BY <1>2 DEF Entitled
    <2>2. Found(r)'
        BY <1>2, <2>1 DEF ReqInv, Found, MayChange
    <2>. QED  BY <1>2, <2>2 DEF ReqInv
<1>. QED  BY <1>1, <1>2

\* A check adds what it found.
LEMMA CheckKeeps ==
    ASSUME TypeInv, NEW r \in Requests, ReqInv(r), Check(r), ~Begin(r), ~End(r), Watch
    PROVE  ReqInv(r)'
<1>. DEFINE l == loc[r]
<1>1. TypeOK /\ FormOK(r) /\ pc[r] # "idle" /\ loc' = loc /\ pc'[r] # "idle"
    BY CheckMoves DEF TypeInv, TypeOK
<1>2. seen[r] \subseteq seen'[r] /\ Sight(r)' \subseteq seen'[r]
    BY <1>1, Grows
<1>3. Sight(r) \subseteq seen[r] /\ Found(r) /\ l.work \in Works
    BY <1>1 DEF ReqInv, FormOK
<1>4. Entitled(r) => Entitled(r)'
    BY <1>1, <1>2 DEF Entitled
<1>. SUFFICES Found(r)'
    BY <1>2 DEF ReqInv
<1>. USE DEF At, Goto, TypeOK
<1>5. ASSUME l.work \in WorksAt(pc'[r]), pc'[r] # "user",
             "in" \in seen[r],
             l.work \in AdminWork => l.user \in Flagged,
             pc'[r] \in {"target", "factor"} => l.user \in Owners,
             pc'[r] = "factor" => MayChange(r),
             pc'[r] = "assigned" => "moderator" \in seen[r],
             pc'[r] \in {"write", "sessions"} => Entitled(r)
      PROVE  Found(r)'
    BY <1>1, <1>2, <1>4, <1>5 DEF Found, MayChange
<1>6. CASE ReadUser(r)
    <2>1. pc[r] = "user" /\ SignedIn(r) /\ (l.work \in AdminWork => l.user \in Flagged)
          /\ pc'[r] = AfterUser(l.work)
        BY <1>1, <1>6 DEF ReadUser
    <2>2. "in" \in seen[r]
        BY <1>3, <2>1, SightNow
    <2>3. l.work \in WorksAt(pc'[r]) /\ pc'[r] \in {"write", "owner", "staff", "again", "enabled"}
        BY <1>3, <2>1 DEF AfterUser, WorksAt, Works
    <2>4. pc'[r] = "write" => l.work \in AdminWork
        BY <1>3, <2>1 DEF AfterUser, Works, AdminWork, OwnerWork, StaffWork
    <2>5. l.work \in AdminWork => Entitled(r)
        BY <2>1 DEF Entitled, AdminWork, OwnerWork, StaffWork
    <2>. QED  BY <1>5, <2>1, <2>2, <2>3, <2>4, <2>5
<1>7. CASE ReadOwner(r)
    <2>1. /\ pc[r] = "owner" /\ l.user \in Owners
          /\ pc'[r] = IF l.work \in {"grant", "revoke"} THEN "target" ELSE "write"
        BY <1>1, <1>7 DEF ReadOwner
    <2>2. l.work \in OwnerWork /\ "in" \in seen[r]
        BY <1>3, <2>1 DEF Found, WorksAt
    <2>3. pc'[r] = "write" => Entitled(r)
        BY <2>1, <2>2 DEF Entitled, AdminWork, OwnerWork, StaffWork
    <2>4. l.work \in WorksAt(pc'[r])
        BY <1>3, <2>1 DEF WorksAt
    <2>. QED  BY <1>5, <2>1, <2>2, <2>3, <2>4 DEF AdminWork, OwnerWork
<1>8. CASE ReadStaff(r)
    <2>1. pc[r] = "staff" /\ IsStaff(l.user) /\ pc'[r] = "write"
        BY <1>1, <1>8 DEF ReadStaff
    <2>2. l.work \in StaffWork /\ "in" \in seen[r]
        BY <1>3, <2>1 DEF Found, WorksAt
    <2>3. roles[l.user] \cap Granted \subseteq seen[r]
        BY <1>3, <2>2, SightNow
    <2>4. l.user \in Owners \cup Flagged \/ {"admin", "moderator"} \cap seen[r] # {}
        BY <1>1, <2>1, <2>3 DEF IsStaff, Granted, FormOK
    <2>5. Entitled(r)
        BY <2>2, <2>4 DEF Entitled, AdminWork, OwnerWork, StaffWork
    <2>6. l.work \in WorksAt(pc'[r])
        BY <1>3, <2>1 DEF WorksAt
    <2>. QED  BY <1>5, <2>1, <2>2, <2>5, <2>6 DEF AdminWork, StaffWork
<1>9. CASE ReadTarget(r)
    <2>1. pc[r] = "target" /\ MayChange(r) /\ pc'[r] = IF l.work = "grant" THEN "factor" ELSE "write"
        BY <1>1, <1>9 DEF ReadTarget
    <2>2. l.work \in {"grant", "revoke"} /\ "in" \in seen[r] /\ l.user \in Owners
        BY <1>3, <2>1 DEF Found, WorksAt
    <2>3. l.work = "revoke" => Entitled(r)
        BY <2>1, <2>2 DEF Entitled, MayChange, AdminWork, OwnerWork, StaffWork
    <2>4. l.work \in WorksAt(pc'[r])
        BY <1>3, <2>1 DEF WorksAt
    <2>. QED  BY <1>5, <2>1, <2>2, <2>3, <2>4 DEF AdminWork
<1>10. CASE ReadFactor(r)
    <2>1. pc[r] = "factor" /\ factor[l.target] /\ pc'[r] = "write"
        BY <1>1, <1>10 DEF ReadFactor
    <2>2. l.work = "grant" /\ "in" \in seen[r] /\ l.user \in Owners /\ MayChange(r)
        BY <1>3, <2>1 DEF Found, WorksAt
    <2>3. "enrolled" \in seen[r]
        BY <1>3, <2>1, <2>2, SightNow DEF MayChange
    <2>4. Entitled(r)
        BY <2>2, <2>3 DEF Entitled, MayChange, AdminWork, OwnerWork, StaffWork
    <2>5. l.work \in WorksAt(pc'[r])
        BY <1>3, <2>1 DEF WorksAt
    <2>. QED  BY <1>5, <2>1, <2>2, <2>4, <2>5 DEF AdminWork
<1>11. CASE ReadUserAgain(r)
    <2>1. pc[r] = "again" /\ pc'[r] = "scope"
        BY <1>1, <1>11 DEF ReadUserAgain
    <2>2. l.work = "moderate" /\ "in" \in seen[r] /\ l.work \in WorksAt(pc'[r])
        BY <1>3, <2>1 DEF Found, WorksAt
    <2>. QED  BY <1>5, <2>1, <2>2 DEF AdminWork
<1>12. CASE ReadScope(r)
    <2>1. /\ pc[r] = "scope"
          /\ \/ Moderates(r) /\ pc'[r] = "write"
             \/ "moderator" \in roles[l.user] /\ pc'[r] = "assigned"
        BY <1>1, <1>12 DEF ReadScope
    <2>2. l.work = "moderate" /\ "in" \in seen[r]
        BY <1>3, <2>1 DEF Found, WorksAt
    <2>3. roles[l.user] \cap Granted \subseteq seen[r]
        BY <1>3, <2>2, SightNow
    <2>4. pc'[r] = "write" => l.user \in Owners \/ "admin" \in seen[r]
        BY <2>1, <2>3 DEF Moderates, Granted
    <2>5. pc'[r] = "write" => Entitled(r)
        BY <2>2, <2>4 DEF Entitled, AdminWork, OwnerWork, StaffWork
    <2>6. pc'[r] = "assigned" => "moderator" \in seen[r]
        BY <2>1, <2>3 DEF Granted
    <2>7. l.work \in WorksAt(pc'[r])
        BY <1>3, <2>1, <2>2 DEF WorksAt
    <2>. QED  BY <1>5, <2>1, <2>2, <2>5, <2>6, <2>7 DEF AdminWork
<1>13. CASE ReadAssigned(r)
    <2>1. pc[r] = "assigned" /\ <<l.user, l.board>> \in Assigned /\ pc'[r] = "write"
        BY <1>1, <1>13 DEF ReadAssigned
    <2>2. l.work = "moderate" /\ "in" \in seen[r] /\ "moderator" \in seen[r]
        BY <1>3, <2>1 DEF Found, WorksAt
    <2>3. Entitled(r)
        BY <2>1, <2>2 DEF Entitled, AdminWork, OwnerWork, StaffWork
    <2>4. l.work \in WorksAt(pc'[r])
        BY <1>3, <2>1 DEF WorksAt
    <2>. QED  BY <1>5, <2>1, <2>2, <2>3, <2>4 DEF AdminWork
<1>14. CASE ReadEnabled(r)
    <2>1. pc[r] = "enabled" /\ reporting /\ pc'[r] = "write"
        BY <1>1, <1>14 DEF ReadEnabled
    <2>2. l.work = "report" /\ "in" \in seen[r]
        BY <1>3, <2>1 DEF Found, WorksAt
    <2>3. "reporting" \in seen[r]
        BY <1>3, <2>1, <2>2, SightNow
    <2>4. Entitled(r)
        BY <2>2, <2>3 DEF Entitled, AdminWork, OwnerWork, StaffWork
    <2>5. l.work \in WorksAt(pc'[r])
        BY <1>3, <2>1 DEF WorksAt
    <2>. QED  BY <1>5, <2>1, <2>2, <2>4, <2>5 DEF AdminWork
<1>. QED
    BY <1>6, <1>7, <1>8, <1>9, <1>10, <1>11, <1>12, <1>13, <1>14 DEF Check

\* A request that begins has found nothing; one that ends needs nothing; a ban that
\* is written keeps what it has.
LEMMA MoverKeeps ==
    ASSUME TypeInv, NEW r \in Requests, ReqInv(r), Check(r) \/ Write(r), Watch
    PROVE  ReqInv(r)'
<1>1. TypeOK /\ FormOK(r)
    BY DEF TypeInv
<1>2. CASE Check(r) /\ ~Begin(r) /\ ~End(r)
    BY <1>2, CheckKeeps
<1>3. CASE Begin(r)
    <2>1. pc'[r] = "user" /\ loc'[r].work \in Works
        BY <1>1, <1>3, BeginType DEF TypeOK, FormOK
    <2>2. Sight(r)' \subseteq seen'[r]
        BY <1>1, <2>1, Grows
    <2>. QED  BY <2>1, <2>2 DEF ReqInv, Found, WorksAt
<1>4. CASE (Write(r) \/ End(r)) /\ Ends(r)
    BY <1>1, <1>4 DEF Ends, ReqInv, TypeOK
<1>5. CASE Write(r) /\ Bans(r)
    <2>1. /\ pc[r] \in {"write", "sessions"} /\ loc[r].work = "ban"
          /\ pc'[r] = "sessions" /\ loc' = loc
        BY <1>1, <1>5 DEF Write, Bans, At, ChangeRole, CloseReport, CreateReport, Expel,
            SetBanned, SetReporting, MoveToOrFromTrash, TypeOK
    <2>2. seen[r] \subseteq seen'[r] /\ Sight(r)' \subseteq seen'[r]
        BY <1>1, <2>1, Grows
    <2>3. Entitled(r)'
        BY <2>1, <2>2 DEF ReqInv, Found, Entitled
    <2>4. Found(r)'
        BY <2>1, <2>2, <2>3 DEF ReqInv, Found, WorksAt
    <2>. QED  BY <2>2, <2>4 DEF ReqInv
<1>6. (Write(r) \/ End(r)) => Ends(r) \/ Bans(r)
    BY <1>1, WriteType
<1>7. End(r) => Ends(r)
    BY DEF End, Ends, Goto
<1>. QED  BY <1>2, <1>3, <1>4, <1>5, <1>6, <1>7

LEMMA IInvInit == Init => IInv
BY TypeInit DEF Init, IInv, ReqInv

LEMMA IInvNext == IInv /\ [Next]_vars => IInv'
<1>. SUFFICES ASSUME IInv, [Next]_vars
              PROVE  IInv'
    OBVIOUS
<1>1. TypeInv' /\ TypeInv /\ TypeOK
    BY TypeNext DEF IInv, TypeInv
<1>. SUFFICES ASSUME NEW q \in Requests
              PROVE  ReqInv(q)'
    BY <1>1 DEF IInv
<1>2. ReqInv(q)
    BY DEF IInv
<1>3. ASSUME NEW r \in Requests, Check(r) \/ Write(r), Watch
      PROVE  ReqInv(q)'
    <2>1. CASE q = r
        BY <1>1, <1>2, <1>3, <2>1, MoverKeeps
    <2>2. CASE q # r
        <3>1. pc'[q] = pc[q] /\ loc'[q] = loc[q]
            BY <1>1, <1>3, <2>2, OthersStand DEF TypeInv
        <3>. QED  BY <1>1, <1>2, <1>3, <3>1, Grows, StandsStill
    <2>. QED  BY <2>1, <2>2
<1>4. ASSUME NEW u \in Users \ Owners, SetFactor(u), Watch
      PROVE  ReqInv(q)'
    <2>1. pc' = pc /\ loc' = loc
        BY <1>4 DEF SetFactor
    <2>. QED  BY <1>1, <1>2, <1>4, <2>1, Grows, StandsStill
<1>5. ASSUME UNCHANGED vars
      PROVE  ReqInv(q)'
    <2>1. Sight(q)' = Sight(q)
        BY <1>5 DEF vars, Sight
    <2>. QED  BY <1>2, <1>5, <2>1, StandsStill DEF vars, ReqInv
<1>. QED
    BY <1>3, <1>4, <1>5 DEF Next

THEOREM Inductive == Spec => []IInv
<1>. QED  BY IInvInit, IInvNext, PTL DEF Spec

\* Nothing is written that the session, the role, the assignment or the target's
\* factor did not allow at some moment since the request began, whatever the other
\* requests do between the checks and the write.
THEOREM AuthorisedSafe == Spec => []Authorised
<1>1. IInv => Authorised
    BY DEF IInv, ReqInv, Authorised, Found
<1>. QED  BY <1>1, Inductive, PTL

-----------------------------------------------------------------------------
(***************************************************************************)
(* A report is settled once.                                               *)
(***************************************************************************)

LEMMA Settled ==
    ASSUME TypeOK, [Next]_vars, NEW p \in Reports, report[p].status \in {"resolved", "dismissed"}
    PROVE  report'[p] = report[p]
<1>1. ASSUME NEW r \in Requests, CloseReport(r)
      PROVE  report'[p] = report[p]
    BY <1>1 DEF CloseReport, StillOpen, TypeOK
<1>2. ASSUME NEW r \in Requests, CreateReport(r)
      PROVE  report'[p] = report[p]
    BY <1>2 DEF CreateReport, TypeOK
<1>3. ASSUME NEW r \in Requests, Check(r)
      PROVE  report' = report
    BY <1>3 DEF Check, Begin, ReadUser, ReadOwner, ReadStaff, ReadTarget, ReadFactor,
        ReadUserAgain, ReadScope, ReadAssigned, ReadEnabled, End, tables
<1>4. ASSUME NEW r \in Requests, Write(r), ~CloseReport(r), ~CreateReport(r)
      PROVE  report' = report
    BY <1>4 DEF Write, ChangeRole, Expel, SetBanned, SetReporting, MoveToOrFromTrash
<1>5. ASSUME NEW u \in Users \ Owners, SetFactor(u)
      PROVE  report' = report
    BY <1>5 DEF SetFactor
<1>. QED
    BY <1>1, <1>2, <1>3, <1>4, <1>5 DEF Next, vars

\* Neither the outcome of a report nor the name under it is ever overwritten.
THEOREM ReportFinalSafe == Spec => ReportFinal
<1>1. TypeOK /\ [Next]_vars =>
        [\A p \in Reports : report[p].status \in {"resolved", "dismissed"} => report'[p] = report[p]]_vars
    BY Settled
<1>. QED  BY <1>1, TypeCorrect, PTL DEF Spec, ReportFinal

=============================================================================
