------------------------------- MODULE Gates -------------------------------
(***************************************************************************)
(* The two gates in front of every handler (src/handler/middleware.rs):    *)
(* totp_gate, the policy on second factors, and behind it                  *)
(* maintenance_gate.                                                       *)
(*                                                                         *)
(* A gate asks for one fact after the other, each by a statement of its    *)
(* own: the policy, who the session belongs to, whether the feature is on, *)
(* the roles one by one, the factor.  Between any two of them a setting is *)
(* written, a role granted or revoked, a factor enrolled or switched off,  *)
(* a user banned or signed out.  A statement that fails refuses the        *)
(* request, where the code does not answer "no" instead.                   *)
(***************************************************************************)
CONSTANTS
    Users,
    Owners,         \* the users with the role "owner"; no handler grants it
    Flagged,        \* the users with is_admin; no handler sets it
    Requests,       \* requests under way at a time
    Policies,       \* the values of totp_required that are set
    None

ASSUME UsersAssumption == Owners \subseteq Users /\ Flagged \subseteq Users
ASSUME PoliciesAssumption == Policies \subseteq {"none", "staff", "all"}
ASSUME NoneAssumption == None \notin Users

VARIABLES
    config,     \* the settings totp_required, totp_enabled, maintenance_enabled
    roles,      \* [Users -> SUBSET Granted]: user_roles without the owners
    factor,     \* [Users -> BOOLEAN]: an active second factor
    session,    \* [Requests -> Sessions]: the row of the request's cookie
    pc,         \* [Requests -> Labels]
    loc,        \* [Requests -> Locals]: what the gates hold
    seen        \* history: [Requests -> SUBSET Facts]: what was so at some
                \* moment since the request began

vars == <<config, roles, factor, session, pc, loc, seen>>

Configs == [policy : {"none", "staff", "all"}, feature : BOOLEAN, maintenance : BOOLEAN]
Granted == {"admin", "moderator"}

\* "blocked": the row is there and its user is banned; "gone" for good.
Sessions == {"valid", "blocked", "gone"}

\* Paths by the gates they are exempt from: "open" (login, logout, account,
\* static files) from both, "code" (/login/totp) from the first, "staff" (/admin,
\* /governance) from the second, "forum" from neither.
Paths == {"open", "code", "staff", "forum"}
Ungated == {"open", "code"}
Unmaintained == {"open", "staff"}

\* The statement a request executes next, those of maintenance_gate after
\* "maintenance"; "handler" once both gates let it through.
Labels == {"idle", "policy", "user", "feature", "admin", "owner", "moderator", "factor",
           "maintenance", "m_user", "m_admin", "m_owner", "handler"}
Locals == [path : Paths \cup {None}, user : Users \cup {None},
           policy : {"none", "staff", "all"}]
NoLocals == [path |-> None, user |-> None, policy |-> "none"]

Has(u, role) == IF role = "owner" THEN u \in Owners ELSE role \in roles[u]

\* What may excuse a request of user u from the second factor, or from maintenance.
Facts == {"lax", "partial", "off", "out", "enrolled", "no admin", "no moderator",
          "running", "in", "admin"}
Sight(r) ==
    LET u == loc[r].user IN
    {f \in Facts :
        CASE f = "lax" -> config.policy = "none"
          [] f = "partial" -> config.policy = "staff"
          [] f = "off" -> ~config.feature
          [] f = "out" -> session[r] # "valid"
          [] f = "enrolled" -> factor[u]
          [] f = "no admin" -> ~Has(u, "admin")
          [] f = "no moderator" -> ~Has(u, "moderator")
          [] f = "running" -> ~config.maintenance
          [] f = "in" -> session[r] = "valid"
          [] f = "admin" -> Has(u, "admin")}

TypeOK ==
    /\ config \in Configs
    /\ roles \in [Users -> SUBSET Granted]
    /\ factor \in [Users -> BOOLEAN]
    /\ session \in [Requests -> Sessions]
    /\ pc \in [Requests -> Labels]
    /\ loc \in [Requests -> Locals]
    /\ seen \in [Requests -> SUBSET Facts]

\* seed_defaults: no policy, the feature on, no maintenance.
Init ==
    /\ config = [policy |-> "none", feature |-> TRUE, maintenance |-> FALSE]
    /\ roles = [u \in Users |-> {}]
    /\ factor = [u \in Users |-> FALSE]
    /\ session = [r \in Requests |-> "gone"]
    /\ pc = [r \in Requests |-> "idle"]
    /\ loc = [r \in Requests |-> NoLocals]
    /\ seen = [r \in Requests |-> {}]

Goto(r, label) == pc' = [pc EXCEPT ![r] = label]
Stored == <<config, roles, factor>>

\* History: every step of anybody adds what is so after it.
Watch == seen' = [r \in Requests |->
    IF pc'[r] = "idle" THEN {} ELSE seen[r] \cup Sight(r)']

-----------------------------------------------------------------------------
(***************************************************************************)
(* totp_gate.                                                              *)
(***************************************************************************)

\* A request with a cookie; one without is a cookie whose row is gone.
Begin(r) ==
    /\ pc[r] = "idle"
    /\ \E path \in Paths, u \in Users, row \in {"valid", "gone"} :
        /\ loc' = [loc EXCEPT ![r].path = path, ![r].user = u]
        /\ session' = [session EXCEPT ![r] = row]
        /\ Goto(r, IF path \in Ungated THEN "maintenance" ELSE "policy")
    /\ UNCHANGED Stored

\* Only the policies "staff" and "all" ask for a factor.
ReadPolicy(r) ==
    /\ pc[r] = "policy"
    /\ loc' = [loc EXCEPT ![r].policy = config.policy]
    /\ Goto(r, IF config.policy = "none" THEN "maintenance" ELSE "user")
    /\ UNCHANGED <<Stored, session>>

\* get_session: the row of a banned user is deleted; an error of that is ignored.
Prune(r) ==
    \/ UNCHANGED session
    \/ session[r] = "blocked" /\ session' = [session EXCEPT ![r] = "gone"]

\* get_user_by_session; a guest is left to the handler, an error is not a guest.
FailedReadIsGuest(r) == TRUE
IsGuest(r) == session[r] # "valid"
ReadUser(r) ==
    /\ pc[r] = "user"
    /\ \/ IsGuest(r) /\ Goto(r, "maintenance")
       \/ session[r] = "valid" /\ Goto(r, "feature")
    /\ Prune(r)
    /\ UNCHANGED <<Stored, loc>>

\* "all" and is_admin spare the questions about roles.
NeedsRole(r) == loc[r].policy # "all" /\ loc[r].user \notin Flagged
ReadFeature(r) ==
    /\ pc[r] = "feature"
    /\ Goto(r, IF ~config.feature THEN "maintenance"
               ELSE IF NeedsRole(r) THEN "admin" ELSE "factor")
    /\ UNCHANGED <<Stored, session, loc>>

\* user_has_role for admin, owner and moderator, until one is found.
NextRole == [admin |-> "owner", owner |-> "moderator", moderator |-> "maintenance"]
ReadRole(r) ==
    /\ pc[r] \in {"admin", "owner", "moderator"}
    /\ Goto(r, IF Has(loc[r].user, pc[r]) THEN "factor" ELSE NextRole[pc[r]])
    /\ UNCHANGED <<Stored, session, loc>>

\* totp_state: a request without an active factor is answered by the gate.
ReadFactor(r) ==
    /\ pc[r] = "factor"
    /\ factor[loc[r].user]
    /\ Goto(r, "maintenance")
    /\ UNCHANGED <<Stored, session, loc>>

-----------------------------------------------------------------------------
(***************************************************************************)
(* maintenance_gate.                                                       *)
(***************************************************************************)

FailedReadIsRunning(r) == TRUE
Passes(r) == loc[r].path \in Unmaintained \/ ~config.maintenance
ReadMaintenance(r) ==
    /\ pc[r] = "maintenance"
    /\ \/ Passes(r) /\ Goto(r, "handler")
       \/ ~Passes(r) /\ Goto(r, "m_user")
    /\ UNCHANGED <<Stored, session, loc>>

\* The session again; a guest is refused.
ReadUserAgain(r) ==
    /\ pc[r] = "m_user"
    /\ session[r] = "valid"
    /\ Goto(r, IF loc[r].user \in Flagged THEN "handler" ELSE "m_admin")
    /\ UNCHANGED <<Stored, session, loc>>

\* The role admin, then owner; one that cannot be read counts as missing.
ReadAdmin(r) ==
    /\ pc[r] = "m_admin"
    /\ \/ Has(loc[r].user, "admin") /\ Goto(r, "handler")
       \/ Goto(r, "m_owner")
    /\ UNCHANGED <<Stored, session, loc>>

ReadOwner(r) ==
    /\ pc[r] = "m_owner"
    /\ Has(loc[r].user, "owner")
    /\ Goto(r, "handler")
    /\ UNCHANGED <<Stored, session, loc>>

\* The handler is done, a gate has refused the request, a statement has failed or
\* the client has hung up.
End(r) ==
    /\ pc[r] # "idle"
    /\ Goto(r, "idle")
    /\ loc' = [loc EXCEPT ![r] = NoLocals]
    /\ session' = [session EXCEPT ![r] = "gone"]
    /\ UNCHANGED Stored

-----------------------------------------------------------------------------
(***************************************************************************)
(* What the handlers behind the gates write, a statement each.             *)
(***************************************************************************)

\* set_config: admin_config_totp writes totp_enabled and then totp_required,
\* admin_maintenance writes maintenance_enabled first.  policy_value takes a policy it
\* does not know for "none".
SetUncheckedConfig ==
    /\ config' = [config EXCEPT !.policy = "optional"]
    /\ UNCHANGED <<roles, factor, session, pc, loc>>
SetConfig ==
    /\ \/ \E p \in Policies : config' = [config EXCEPT !.policy = p]
       \/ \E on \in BOOLEAN : config' = [config EXCEPT !.feature = on]
       \/ \E on \in BOOLEAN : config' = [config EXCEPT !.maintenance = on]
    /\ UNCHANGED <<roles, factor, session, pc, loc>>

\* change_role grants to an enrolled user who is not an owner, and revokes.
ChangeRole(u) ==
    /\ u \notin Owners
    /\ \E role \in Granted :
        \/ factor[u] /\ roles' = [roles EXCEPT ![u] = @ \cup {role}]
        \/ roles' = [roles EXCEPT ![u] = @ \ {role}]
    /\ UNCHANGED <<config, factor, session, pc, loc>>

\* account_totp_confirm, account_totp_disable.
SetFactor(u) ==
    /\ factor' = [factor EXCEPT ![u] = ~@]
    /\ UNCHANGED <<config, roles, session, pc, loc>>

\* Banned, or allowed again; signed out, revoked or expired.
SetSession(r) ==
    /\ \/ session[r] = "valid" /\ session' = [session EXCEPT ![r] = "blocked"]
       \/ session[r] = "blocked" /\ session' = [session EXCEPT ![r] = "valid"]
       \/ session[r] # "gone" /\ session' = [session EXCEPT ![r] = "gone"]
    /\ UNCHANGED <<Stored, pc, loc>>

Handle(r) ==
    \/ Begin(r) \/ ReadPolicy(r) \/ ReadUser(r) \/ ReadFeature(r) \/ ReadRole(r)
    \/ ReadFactor(r) \/ ReadMaintenance(r) \/ ReadUserAgain(r) \/ ReadAdmin(r)
    \/ ReadOwner(r) \/ End(r)

Change ==
    \/ SetConfig
    \/ \E u \in Users : ChangeRole(u) \/ SetFactor(u)
    \/ \E r \in Requests : SetSession(r)

Next == ((\E r \in Requests : Handle(r)) \/ Change) /\ Watch

Spec == Init /\ [][Next]_vars

-----------------------------------------------------------------------------
(***************************************************************************)
(* Properties.                                                             *)
(***************************************************************************)

\* The policy spared the user at some moment: it asked staff alone, and each of
\* the roles was missing at a moment of its own.
Spared(r) ==
    /\ loc[r].user \notin Owners \cup Flagged
    /\ {"partial", "no admin", "no moderator"} \subseteq seen[r]

\* A request to a gated path goes no further without a second factor, unless at
\* some moment since it began the policy asked for none, the feature was off,
\* the session was not valid, the factor was active, or the policy spared the
\* user; whatever was written meanwhile, and although a failed statement
\* is neither ("A storage error in the policy gate must not read as `no
\* session`", tests/totp_http_tests.rs).
FactorScreened ==
    \A r \in Requests :
        (/\ loc[r].path \notin Ungated
         /\ pc[r] \in {"maintenance", "m_user", "m_admin", "m_owner", "handler"})
            => seen[r] \cap {"lax", "off", "out", "enrolled"} # {} \/ Spared(r)

\* During maintenance the handlers behind the gate see only the requests of
\* administrators: at some moment since it began the forum was running, or the
\* session was valid and, at some moment, its user an administrator.
MaintenanceScreened ==
    \A r \in Requests :
        (pc[r] = "handler" /\ loc[r].path \notin Unmaintained)
            => \/ "running" \in seen[r]
               \/ /\ "in" \in seen[r]
                  /\ loc[r].user \in Flagged \cup Owners \/ "admin" \in seen[r]

=============================================================================
