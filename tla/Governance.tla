----------------------------- MODULE Governance -----------------------------
(***************************************************************************)
(* Who may do what to whom: roles, bans, reports and the trash, as the     *)
(* handlers under /governance, /admin and /report of src/handler/mod.rs    *)
(* decide it over user_roles, users, sessions and reports of src/store.rs. *)
(*                                                                         *)
(* A handler reads who asks, then what entitles him, then what protects    *)
(* the target, each by a statement of its own, and writes by a later one.  *)
(* Another handler may have taken the role, the factor or the session away *)
(* by then.  A check that fails or finds nothing ends the request.         *)
(*                                                                         *)
(* Gates models what a request passes before; Posting what becomes of the  *)
(* threads and posts that are deleted and restored.                        *)
(***************************************************************************)
CONSTANTS
    Users,
    Owners,         \* the users with the role "owner"
    Flagged,        \* the users with is_admin
    Boards,
    Assigned,       \* board_moderators; no handler writes it
    Reports,        \* report ids, each given once
    Requests,       \* requests under way at a time
    Named,          \* bound: the users whom the forms of ban, unban and expel name
    None

ASSUME UsersAssumption ==
    /\ Owners \subseteq Users /\ Flagged \subseteq Users /\ Named \subseteq Users
    /\ Assigned \subseteq Users \X Boards
ASSUME NoneAssumption == None \notin Users \cup Boards \cup Reports

VARIABLES
    roles,      \* [Users -> SUBSET Granted]: user_roles without the owners
    factor,     \* [Users \ Owners -> BOOLEAN]: an active second factor; that of
                \* an owner, to whom no role is granted, is not asked for
    banned,     \* [Users -> BOOLEAN]
    reporting,  \* the setting reports_enabled
    report,     \* [Reports -> ReportRows]
    session,    \* [Requests -> BOOLEAN]: is the row of the cookie there?
    pc,         \* [Requests -> Labels]
    loc,        \* [Requests -> Locals]: what the handler holds
    seen        \* history: [Requests -> SUBSET Facts]: what was so at some
                \* moment since the request began

vars == <<roles, factor, banned, reporting, report, session, pc, loc, seen>>
tables == <<roles, factor, banned, reporting, report, session>>

Granted == {"admin", "moderator"}
ReportRows == [status : {"unused", "open", "resolved", "dismissed"}, by : Users \cup {None}]

\* require_admin_state; require_capability for RoleManagement and for Governance.
AdminWork == {"ban", "unban", "policies"}
OwnerWork == {"grant", "revoke", "expel", "restore"}
StaffWork == {"resolve", "dismiss"}
Works == AdminWork \cup OwnerWork \cup StaffWork \cup {"moderate", "report"}

\* The statement a request executes next.
Labels == {"idle", "user", "owner", "staff", "target", "factor", "again", "scope",
           "assigned", "enabled", "write", "sessions"}
Locals == [work : Works \cup {None}, user : Users \cup {None}, target : Users \cup {None},
           role : Granted \cup {None}, board : Boards \cup {None},
           report : Reports \cup {None}]
NoLocals == [work |-> None, user |-> None, target |-> None, role |-> None,
             board |-> None, report |-> None]

\* What was so of the request's user, of its target and of reporting, as far as
\* its work depends on it.
Facts == {"in", "admin", "moderator", "enrolled", "reporting"}
Depends(work) ==
    CASE work = "grant" -> {"in", "enrolled"}
      [] work \in StaffWork \cup {"moderate"} -> {"in", "admin", "moderator"}
      [] work = "report" -> {"in", "reporting"}
      [] OTHER -> {"in"}
Sight(r) ==
    LET u == loc[r].user IN
    {f \in Depends(loc[r].work) :
        CASE f = "in" -> session[r] /\ ~banned[u]
          [] f = "enrolled" -> loc[r].target \notin Owners /\ factor[loc[r].target]
          [] f = "reporting" -> reporting
          [] OTHER -> f \in roles[u]}

TypeOK ==
    /\ roles \in [Users -> SUBSET Granted]
    /\ factor \in [Users \ Owners -> BOOLEAN]
    /\ banned \in [Users -> BOOLEAN]
    /\ reporting \in BOOLEAN
    /\ report \in [Reports -> ReportRows]
    /\ session \in [Requests -> BOOLEAN]
    /\ pc \in [Requests -> Labels]
    /\ loc \in [Requests -> Locals]
    /\ seen \in [Requests -> SUBSET Facts]

Init ==
    /\ roles = [u \in Users |-> {}]
    /\ factor = [u \in Users \ Owners |-> FALSE]
    /\ banned = [u \in Users |-> FALSE]
    /\ reporting = TRUE
    /\ report = [p \in Reports |-> [status |-> "unused", by |-> None]]
    /\ session = [r \in Requests |-> FALSE]
    /\ pc = [r \in Requests |-> "idle"]
    /\ loc = [r \in Requests |-> NoLocals]
    /\ seen = [r \in Requests |-> {}]

Goto(r, label) == pc' = [pc EXCEPT ![r] = label]
At(r, label) == pc[r] = label

\* History: every step of anybody adds what is so after it.
Watch == seen' = [r \in Requests |->
    IF pc'[r] = "idle" THEN {} ELSE seen[r] \cup Sight(r)']

-----------------------------------------------------------------------------
(***************************************************************************)
(* What the handlers ask before they write.                                *)
(***************************************************************************)

\* change_role takes two of the three names of Role::from_str.
RoleNames == Granted \cup {"owner"}
AcceptedRoles == Granted

\* A request of u for a work, with the fields of its form.
Form(work, u) ==
    [work : {work}, user : {u},
     target : IF work \in {"grant", "revoke"} THEN Users
              ELSE IF work \in {"ban", "unban", "expel"} THEN Named ELSE {None},
     role : IF work \in {"grant", "revoke"} THEN AcceptedRoles ELSE {None},
     board : IF work = "moderate" THEN Boards ELSE {None},
     report : IF work \in StaffWork \cup {"report"} THEN Reports ELSE {None}]
Begin(r) ==
    /\ At(r, "idle")
    /\ \E work \in Works, u \in Users :
        \E l \in Form(work, u) : loc' = [loc EXCEPT ![r] = l]
    /\ session' = [session EXCEPT ![r] = TRUE]
    /\ Goto(r, "user")
    /\ UNCHANGED <<roles, factor, banned, reporting, report>>

SignedIn(r) == session[r] /\ ~banned[loc[r].user]
AfterUser(work) ==
    CASE work \in AdminWork -> "write"
      [] work \in OwnerWork -> "owner"
      [] work \in StaffWork -> "staff"
      [] work = "moderate" -> "again"
      [] work = "report" -> "enabled"

\* current_user, and the flag for which require_admin_state asks.
ReadUser(r) ==
    /\ At(r, "user")
    /\ SignedIn(r)
    /\ loc[r].work \in AdminWork => loc[r].user \in Flagged
    /\ Goto(r, AfterUser(loc[r].work))
    /\ UNCHANGED <<tables, loc>>

\* require_capability(RoleManagement); change_role goes on with the target.
ReadOwner(r) ==
    /\ At(r, "owner")
    /\ loc[r].user \in Owners
    /\ Goto(r, IF loc[r].work \in {"grant", "revoke"} THEN "target" ELSE "write")
    /\ UNCHANGED <<tables, loc>>

\* require_capability(Governance): up to three roles, one statement each; the
\* first that is found will do, so that this is the statement that finds it.
IsStaff(u) == u \in Owners \cup Flagged \/ roles[u] # {}
ReadStaff(r) ==
    /\ At(r, "staff")
    /\ IsStaff(loc[r].user)
    /\ Goto(r, "write")
    /\ UNCHANGED <<tables, loc>>

\* change_role: nobody's own roles, and not those of an owner.
MayChange(r) == loc[r].target # loc[r].user /\ loc[r].target \notin Owners
ReadTarget(r) ==
    /\ At(r, "target")
    /\ MayChange(r)
    /\ Goto(r, IF loc[r].work = "grant" THEN "factor" ELSE "write")
    /\ UNCHANGED <<tables, loc>>

\* change_role: a grant needs the target's active second factor.
ReadFactor(r) ==
    /\ At(r, "factor")
    /\ factor[loc[r].target]
    /\ Goto(r, "write")
    /\ UNCHANGED <<tables, loc>>

\* thread_delete and post_delete, once they have found the row and its board, ask
\* again who asks (require_board_moderator).
ReadUserAgain(r) ==
    /\ At(r, "again")
    /\ SignedIn(r)
    /\ Goto(r, "scope")
    /\ UNCHANGED <<tables, loc>>

\* can_moderate_board: owners and administrators on every board, a moderator on
\* those assigned to him.  is_admin does not count.
ModeratesAnywhere(r) == loc[r].user \in Owners \/ roles[loc[r].user] # {}
Moderates(r) == loc[r].user \in Owners \/ "admin" \in roles[loc[r].user]
ReadScope(r) ==
    /\ At(r, "scope")
    /\ \/ Moderates(r) /\ Goto(r, "write")
       \/ "moderator" \in roles[loc[r].user] /\ Goto(r, "assigned")
    /\ UNCHANGED <<tables, loc>>
ReadAssigned(r) ==
    /\ At(r, "assigned")
    /\ <<loc[r].user, loc[r].board>> \in Assigned
    /\ Goto(r, "write")
    /\ UNCHANGED <<tables, loc>>

\* submit_report: reporting is on; and the thread or post is there.
ReadEnabled(r) ==
    /\ At(r, "enabled")
    /\ reporting
    /\ Goto(r, "write")
    /\ UNCHANGED <<tables, loc>>

\* A check refuses, a statement fails, the client hangs up, or the handler is done.
End(r) ==
    /\ ~At(r, "idle")
    /\ Goto(r, "idle")
    /\ loc' = [loc EXCEPT ![r] = NoLocals]
    /\ session' = [session EXCEPT ![r] = FALSE]
    /\ UNCHANGED <<roles, factor, banned, reporting, report>>

-----------------------------------------------------------------------------
(***************************************************************************)
(* What they write.                                                        *)
(***************************************************************************)

\* The handler is over; its cookie does not matter any more.
Finish(r, sessions) ==
    /\ Goto(r, "idle")
    /\ loc' = [loc EXCEPT ![r] = NoLocals]
    /\ session' = [sessions EXCEPT ![r] = FALSE]

\* grant_role, revoke_role.
ChangeRole(r) ==
    /\ At(r, "write") /\ loc[r].work \in {"grant", "revoke"}
    /\ roles' = [roles EXCEPT ![loc[r].target] =
            IF loc[r].work = "grant" THEN @ \cup {loc[r].role} ELSE @ \ {loc[r].role}]
    /\ Finish(r, session)
    /\ UNCHANGED <<factor, banned, reporting, report>>

\* resolve_report: UPDATE ... WHERE status='open'.
CloseAny(r) == report[loc[r].report].status # "unused"
StillOpen(r) == report[loc[r].report].status = "open"
CloseReport(r) ==
    /\ At(r, "write") /\ loc[r].work \in StaffWork
    /\ report' = IF StillOpen(r)
        THEN [report EXCEPT ![loc[r].report] =
                [status |-> IF loc[r].work = "resolve" THEN "resolved" ELSE "dismissed",
                 by |-> loc[r].user]]
        ELSE report
    /\ Finish(r, session)
    /\ UNCHANGED <<roles, factor, banned, reporting>>

\* create_report.
CreateReport(r) ==
    /\ At(r, "write") /\ loc[r].work = "report"
    /\ report[loc[r].report].status = "unused"
    /\ report' = [report EXCEPT ![loc[r].report].status = "open"]
    /\ Finish(r, session)
    /\ UNCHANGED <<roles, factor, banned, reporting>>

\* delete_sessions_by_user.
Expelled(u) == [q \in Requests |-> session[q] /\ loc[q].user # u]
Expel(r) ==
    /\ \/ At(r, "write") /\ loc[r].work = "expel"
       \/ At(r, "sessions")
    /\ Finish(r, Expelled(loc[r].target))
    /\ UNCHANGED <<roles, factor, banned, reporting, report>>

\* ban: set_user_banned, then the sessions by a statement of their own.
SetBanned(r) ==
    /\ At(r, "write") /\ loc[r].work \in {"ban", "unban"}
    /\ banned' = [banned EXCEPT ![loc[r].target] = (loc[r].work = "ban")]
    /\ \/ loc[r].work = "ban" /\ Goto(r, "sessions") /\ UNCHANGED <<session, loc>>
       \/ loc[r].work = "unban" /\ Finish(r, session)
    /\ UNCHANGED <<roles, factor, reporting, report>>

\* admin_policies, of which reporting alone matters here.
SetReporting(r) ==
    /\ At(r, "write") /\ loc[r].work = "policies"
    /\ reporting' \in BOOLEAN
    /\ Finish(r, session)
    /\ UNCHANGED <<roles, factor, banned, report>>

\* soft_delete_thread, soft_delete_post, restore_thread, restore_post: Posting.
MoveToOrFromTrash(r) ==
    /\ At(r, "write") /\ loc[r].work \in {"moderate", "restore"}
    /\ Finish(r, session)
    /\ UNCHANGED <<roles, factor, banned, reporting, report>>

\* The user's own account page: the factor is enrolled or switched off.
SetFactor(u) ==
    /\ factor' = [factor EXCEPT ![u] = ~@]
    /\ UNCHANGED <<roles, banned, reporting, report, session, pc, loc>>

Check(r) ==
    \/ Begin(r) \/ ReadUser(r) \/ ReadOwner(r) \/ ReadStaff(r) \/ ReadTarget(r)
    \/ ReadFactor(r) \/ ReadUserAgain(r) \/ ReadScope(r) \/ ReadAssigned(r)
    \/ ReadEnabled(r) \/ End(r)

Write(r) ==
    \/ ChangeRole(r) \/ CloseReport(r) \/ CreateReport(r) \/ Expel(r)
    \/ SetBanned(r) \/ SetReporting(r) \/ MoveToOrFromTrash(r)

Next ==
    /\ \/ \E r \in Requests : Check(r) \/ Write(r)
       \/ \E u \in Users \ Owners : SetFactor(u)
    /\ Watch

Spec == Init /\ [][Next]_vars

-----------------------------------------------------------------------------
(***************************************************************************)
(* Properties.                                                             *)
(***************************************************************************)

\* What entitles the work of r, each part of it at some moment since r began.
Entitled(r) ==
    LET l == loc[r] IN
    /\ l.work \in AdminWork => l.user \in Flagged
    /\ l.work \in OwnerWork => l.user \in Owners
    /\ l.work \in StaffWork =>
        l.user \in Owners \cup Flagged \/ {"admin", "moderator"} \cap seen[r] # {}
    /\ l.work = "moderate" =>
        \/ l.user \in Owners \/ "admin" \in seen[r]
        \/ "moderator" \in seen[r] /\ <<l.user, l.board>> \in Assigned
    /\ l.work \in {"grant", "revoke"} => l.target # l.user /\ l.target \notin Owners
    /\ l.work = "grant" => "enrolled" \in seen[r]
    /\ l.work = "report" => "reporting" \in seen[r]

\* Nothing is written for a request whose user was signed out or banned all the
\* while, or that nothing entitled, although rows of a banned user may be left
\* (the two statements of ban): the session, the role, the assignment and the
\* target's second factor were each there at some moment since it began.
Authorised ==
    \A r \in Requests :
        pc[r] \in {"write", "sessions"} => "in" \in seen[r] /\ Entitled(r)

\* A report is settled once: of two moderators who read it open, the second
\* changes neither the outcome nor who is named for it.
ReportFinal ==
    [][\A p \in Reports :
        report[p].status \in {"resolved", "dismissed"} => report'[p] = report[p]]_vars

=============================================================================
