------------------------------ MODULE Account ------------------------------
(***************************************************************************)
(* One account of the forum: the password step, the second factor, the     *)
(* sessions, and the account and administration handlers that change them. *)
(*                                                                         *)
(* PostgreSQL runs every statement of src/store.rs in autocommit READ      *)
(* COMMITTED mode, so a statement (or an explicit transaction) is one      *)
(* atomic step and the requests interleave at every await between two      *)
(* statements.  A request is a slot of the server: pc[r] is the next       *)
(* statement of the handler it runs and loc[r] holds the Rust locals the   *)
(* handler carries over an await.  Every statement of the program names    *)
(* one user_id, so accounts never meet and one account is enough.          *)
(*                                                                         *)
(* A refusal that changes nothing (a failed CSRF or rate check, a wrong    *)
(* password, maintenance mode) is the request that does not begin.         *)
(***************************************************************************)
EXTENDS Integers, FiniteSets

CONSTANTS
    Requests,       \* slots of the server that run a request at a time
    Handlers,       \* [Requests -> SUBSET HandlerNames]: what a slot may run
    SessionIds,     \* digests of session tokens
    PendingIds,     \* digests of pending-login tokens, each drawn once
    Secrets,        \* base32 secrets, each drawn once
    Codes,          \* recovery codes, each drawn once
    None,           \* SQL NULL
    Enrolled,       \* BOOLEAN: does the account start with a second factor?
    MaxAttempts,    \* PENDING_LOGIN_MAX_ATTEMPTS
    AccountLimit,   \* TOTP_ACCOUNT_ATTEMPT_LIMIT
    PendingTTL,     \* PENDING_LOGIN_TTL_SECONDS, in time steps
    AttemptWindow,  \* TOTP_ATTEMPT_WINDOW_MINUTES, in time steps
    Skew,           \* SKEW
    MaxTime,        \* bound of the clock, in time steps of 30 seconds
    DbMayFail       \* BOOLEAN: may a statement whose error is ignored fail?

HandlerNames ==
    {"login", "totp", "logout", "password", "setup", "cancel", "confirm",
     "disable", "regenerate", "revoke", "ban", "unban", "revoke_all", "feature"}

ASSUME RequestsAssumption == Requests # {} /\ IsFiniteSet(Requests)
ASSUME HandlersAssumption == Handlers \in [Requests -> SUBSET HandlerNames]
ASSUME NoneAssumption ==
    None \notin SessionIds \cup PendingIds \cup Secrets \cup Codes
ASSUME DataAssumption ==
    /\ Secrets # {} /\ SessionIds # {}
    /\ Enrolled \in BOOLEAN /\ DbMayFail \in BOOLEAN
ASSUME LimitsAssumption ==
    /\ MaxAttempts \in Nat \ {0} /\ AccountLimit \in Nat \ {0}
    /\ PendingTTL \in Nat \ {0} /\ AttemptWindow \in Nat /\ Skew \in Nat
    /\ MaxTime \in Nat
\* Five minutes and fifteen: a failure counts for as long as its row may be used.
ASSUME WindowAssumption == PendingTTL <= AttemptWindow

\* totp_last_step is NULL: every step is greater, as in the SQL predicate
\* "totp_last_step IS NULL OR totp_last_step < $1".
NoStep == -1

Steps == 0..(MaxTime + Skew)

VARIABLES
    user,       \* the row of table users
    recovery,   \* unused rows of totp_recovery_codes
    pendings,   \* table pending_logins, by id
    sessions,   \* table sessions
    feature,    \* setting totp_enabled
    now,        \* the server clock
    pc,         \* [Requests -> Labels]
    loc,        \* [Requests -> Locals]
    issued,     \* recovery codes ever drawn
    drawn,      \* secrets ever drawn
    uses,       \* history: how often each single-use token was accepted
    reset       \* history: secrets whose last step was written over or forgotten

vars == <<user, recovery, pendings, sessions, feature, now, pc, loc,
          issued, drawn, uses, reset>>

store == <<user, recovery, pendings, sessions, feature>>
history == <<issued, drawn, uses, reset>>

(***************************************************************************)
(* Types.  Two fields of a session row are history: strong, whether its    *)
(* login presented a second factor (or the session itself proved one), and *)
(* spared, whether a DELETE of it failed and the error was ignored.        *)
(***************************************************************************)
User == [banned: BOOLEAN, secret: Secrets \cup {None},
         last: Steps \cup {NoStep}, pending: Secrets \cup {None}]

Pending == [state: {"fresh", "open", "consumed", "deleted"}, created: Nat,
            attempts: Nat]

Session == [id: SessionIds, strong: BOOLEAN, spared: BOOLEAN]

Labels ==
    {"idle", "login_feature", "login_state", "pend_clean", "pend_insert",
     "tp_count", "tp_state", "tp_code", "tp_claim", "tp_consume", "tp_fail",
     "sess_delete", "sess_insert", "pw_commit", "setup_set", "cancel_clear",
     "cf_read", "cf_code", "cf_activate", "cf_codes",
     "ds_read", "ds_code", "ds_claim", "ds_commit", "rg_read", "rg_replace",
     "codes_commit",
     "rv_list", "rv_delete", "audit", "ban_delete"}

Locals == [sid: SessionIds \cup {None}, strong: BOOLEAN,
           pid: PendingIds \cup {None}, doomed: SUBSET Codes,
           secret: Secrets \cup {None}, last: Steps \cup {NoStep},
           step: Steps \cup {NoStep}, at: Nat,
           victims: SUBSET SessionIds, old: SUBSET SessionIds,
           then: {"idle", "cf_codes", "audit"}]

Acceptances == [code: [Codes -> 0..2], pending: [PendingIds -> 0..2],
                step: [Secrets \X Steps -> 0..2]]

NoLocals == [sid |-> None, strong |-> FALSE, pid |-> None, doomed |-> {},
             secret |-> None, last |-> NoStep, step |-> NoStep, at |-> 0,
             victims |-> {}, old |-> {}, then |-> "idle"]

TypeOK ==
    /\ user \in User
    /\ recovery \in SUBSET Codes
    /\ pendings \in [PendingIds -> Pending]
    /\ sessions \in SUBSET Session
    /\ feature \in BOOLEAN
    /\ now \in 0..MaxTime
    /\ pc \in [Requests -> Labels]
    /\ loc \in [Requests -> Locals]
    /\ issued \in SUBSET Codes
    /\ drawn \in SUBSET Secrets
    /\ uses \in Acceptances
    /\ reset \in SUBSET Secrets

Init ==
    /\ \E s \in Secrets :
        /\ user = [banned |-> FALSE,
                   secret |-> IF Enrolled THEN s ELSE None,
                   last |-> NoStep, pending |-> None]
        /\ drawn = IF Enrolled THEN {s} ELSE {}
    /\ recovery \in IF Enrolled /\ Codes # {} THEN {{c} : c \in Codes} ELSE {{}}
    /\ issued = recovery
    /\ pendings = [i \in PendingIds |-> [state |-> "fresh", created |-> 0,
                                         attempts |-> 0]]
    /\ sessions \in {{}} \cup
           {{[id |-> i, strong |-> Enrolled, spared |-> FALSE]} : i \in SessionIds}
    /\ feature = TRUE
    /\ now = 0
    /\ pc = [r \in Requests |-> "idle"]
    /\ loc = [r \in Requests |-> NoLocals]
    /\ uses = [code |-> [c \in Codes |-> 0], pending |-> [i \in PendingIds |-> 0],
               step |-> [x \in Secrets \X Steps |-> 0]]
    /\ reset = {}

-----------------------------------------------------------------------------
(***************************************************************************)
(* Shared pieces.                                                          *)
(***************************************************************************)
Goto(r, label) == pc' = [pc EXCEPT ![r] = label]

\* The Rust locals the handler holds at its next await.
Carry(r, l) == loc' = [loc EXCEPT ![r] = l]

\* The response is sent (or the handler returned early): the locals are gone.
Done(r) ==
    /\ Goto(r, "idle")
    /\ Carry(r, NoLocals)

May(r, h) == pc[r] = "idle" /\ h \in Handlers[r]

\* TotpState::is_active: every writer sets secret and activated_at together.
IsActiveOnceUsed == user.secret # None /\ user.last # NoStep
IsActive == user.secret # None

Ids(S) == {s.id : s \in S}

\* The rows of S after a DELETE of them failed, where the error is ignored ("let _ =").
Spared(S) == {[s EXCEPT !.spared = TRUE] : s \in S}

\* A random session id: none that is in the table or that a request still holds.
FreshId(i) ==
    /\ i \notin Ids(sessions)
    /\ \A r \in Requests : i # loc[r].sid /\ i \notin loc[r].victims \cup loc[r].old

\* get_session and get_user_by_session: the row joined with its user.
Authenticates(s) == s \in sessions /\ ~user.banned

\* The locals that are still needed once the code has been checked.
AfterCode(r) == [loc[r] EXCEPT !.secret = None, !.last = NoStep, !.step = NoStep]

\* One more acceptance of a token; two stand for any larger number.
Bump(f, x) == [f EXCEPT ![x] = IF @ = 2 THEN 2 ELSE @ + 1]

\* pending_login: unconsumed, unexpired and with attempts left.
UsableWhateverAttempts(i) ==
    pendings[i].state = "open" /\ pendings[i].created + PendingTTL > now
Usable(i) ==
    /\ pendings[i].state = "open"
    /\ pendings[i].created + PendingTTL > now
    /\ pendings[i].attempts < MaxAttempts

\* The WHERE clauses of the conditional UPDATEs: consume_pending_login (which
\* does not look at the expiry) and claim_totp_step.
ConsumableTwice(i) == pendings[i].state # "deleted"
Consumable(i) == pendings[i].state = "open"

\* The secret that is active, if any, is about to lose its last step.
WithoutStep == reset \cup ({user.secret} \ {None})

NotOlder(t) == user.last <= t
Newer(t) == user.last < t

\* A row that an open transaction has deleted: an UPDATE waits for its end.
Locked(c) == \E q \in Requests : c \in loc[q].doomed

\* consume_recovery_code marks the row used.
NotMarked(c) == recovery
Marked(c) == recovery \ {c}

\* SET attempts=attempts+1.
CountedDown(n) == n - 1
Counted(n) == n + 1

\* Failures of the pending logins in S opened after an instant: the n-th of
\* pending login i is the pair <<i, n>>, so that SUM(attempts) is their number.
Failures(S, since) ==
    UNION {{i} \X (1..pendings[i].attempts) :
               i \in {j \in S : pendings[j].created > since}}
FailuresSince(S, since) == Cardinality(Failures(S, since))

\* Rows the table still has.
Stored == {i \in PendingIds : pendings[i].state \in {"open", "consumed"}}

\* recent_failed_totp_attempts against TOTP_ACCOUNT_ATTEMPT_LIMIT.
OverBudgetByOne == FailuresSince(Stored, now - AttemptWindow) > AccountLimit
OverBudget == FailuresSince(Stored, now - AttemptWindow) >= AccountLimit

\* The steps whose code is accepted at the current instant.
InWindow(t) == t \in Steps /\ t >= now - Skew /\ t <= now + Skew

-----------------------------------------------------------------------------
(***************************************************************************)
(* The password step: login_post.                                          *)
(***************************************************************************)

\* The users row is read and the password verified against the hash read; a
\* banned account is refused.
LoginUser(r) ==
    /\ May(r, "login")
    /\ ~user.banned
    /\ Goto(r, "login_feature")
    /\ UNCHANGED <<store, now, loc, history>>

\* With the feature off the password completes the login; an unreadable
\* setting reads as on.
LoginFeature(r) ==
    /\ pc[r] = "login_feature"
    /\ \/ feature /\ Goto(r, "login_state")
       \/ ~feature /\ Goto(r, "sess_delete")
       \/ DbMayFail /\ Goto(r, "login_state")
    /\ UNCHANGED <<store, now, loc, history>>

LoginState(r) ==
    /\ pc[r] = "login_state"
    /\ IF IsActive
       THEN /\ Goto(r, "pend_clean")
            /\ Carry(r, [loc[r] EXCEPT !.at = now])
       ELSE Goto(r, "sess_delete") /\ UNCHANGED loc
    /\ UNCHANGED <<store, now, history>>

\* create_pending_login, first statement: drop the rows that had expired when
\* the clock was read.
PendingClean(r) ==
    /\ pc[r] = "pend_clean"
    /\ pendings' = [i \in PendingIds |->
           IF i \in Stored /\ pendings[i].created + PendingTTL <= loc[r].at
           THEN [pendings[i] EXCEPT !.state = "deleted"]
           ELSE pendings[i]]
    /\ Goto(r, "pend_insert")
    /\ UNCHANGED <<user, recovery, sessions, feature, now, loc, history>>

\* create_pending_login, second statement, stamped with the same clock reading.
PendingInsert(r) ==
    /\ pc[r] = "pend_insert"
    /\ \E i \in PendingIds :
        /\ pendings[i].state = "fresh"
        /\ pendings' = [pendings EXCEPT ![i] =
               [state |-> "open", created |-> loc[r].at, attempts |-> 0]]
    /\ Done(r)
    /\ UNCHANGED <<user, recovery, sessions, feature, now, history>>

(***************************************************************************)
(* complete_login: two statements, shared by both login paths.             *)
(***************************************************************************)
SessionsKept(r) ==
    /\ pc[r] = "sess_delete"
    /\ Goto(r, "sess_insert")
    /\ UNCHANGED <<store, now, loc, history>>

SessionsDelete(r) ==
    /\ pc[r] = "sess_delete"
    /\ \/ sessions' = {}
       \/ DbMayFail /\ sessions' = Spared(sessions)
    /\ Goto(r, "sess_insert")
    /\ UNCHANGED <<user, recovery, pendings, feature, now, loc, history>>

SessionInsert(r) ==
    /\ pc[r] = "sess_insert"
    /\ \E i \in SessionIds :
        /\ FreshId(i)
        /\ sessions' = sessions \cup
               {[id |-> i, strong |-> loc[r].strong, spared |-> FALSE]}
    /\ Done(r)
    /\ UNCHANGED <<user, recovery, pendings, feature, now, history>>

(***************************************************************************)
(* The second step: login_totp_post.                                       *)
(***************************************************************************)
TotpPost(r) ==
    /\ May(r, "totp")
    /\ \E i \in PendingIds :
        /\ Usable(i)
        /\ Carry(r, [loc[r] EXCEPT !.pid = i])
    /\ Goto(r, "tp_count")
    /\ UNCHANGED <<store, now, history>>

\* The account's budget, read before the code is looked at.
TotpCount(r) ==
    /\ pc[r] = "tp_count"
    /\ IF OverBudget
       THEN Done(r)
       ELSE Goto(r, "tp_state") /\ UNCHANGED loc
    /\ UNCHANGED <<store, now, history>>

\* totp_state; a factor that disappeared counts as a failed attempt.
TotpState(r) ==
    /\ pc[r] = "tp_state"
    /\ IF IsActive
       THEN /\ Goto(r, "tp_code")
            /\ Carry(r, [loc[r] EXCEPT !.secret = user.secret, !.last = user.last])
       ELSE Goto(r, "tp_fail") /\ UNCHANGED loc
    /\ UNCHANGED <<store, now, history>>

\* verify_code with the state that was read: a code of an accepted window whose
\* step is newer, one that is not (Replayed), or any other code (Invalid).
TotpVerify(r) ==
    /\ pc[r] = "tp_code"
    /\ \/ \E t \in Steps :
           /\ InWindow(t)
           /\ IF t > loc[r].last
              THEN /\ Goto(r, "tp_claim")
                   /\ Carry(r, [loc[r] EXCEPT !.step = t])
              ELSE Done(r)
       \/ Goto(r, "tp_fail") /\ Carry(r, AfterCode(r))
    /\ UNCHANGED <<store, now, history>>

\* consume_recovery_code: the UPDATE ... WHERE used_at IS NULL of the login.
TotpRecovery(r) ==
    /\ pc[r] = "tp_code"
    /\ \E c \in recovery :
        /\ ~Locked(c)
        /\ recovery' = Marked(c)
        /\ uses' = [uses EXCEPT !.code = Bump(@, c)]
    /\ Goto(r, "tp_consume")
    /\ Carry(r, [AfterCode(r) EXCEPT !.strong = TRUE])
    /\ UNCHANGED <<user, pendings, sessions, feature, now, issued, drawn, reset>>

\* claim_totp_step: the conditional UPDATE; who loses it is refused.
TotpClaim(r) ==
    /\ pc[r] = "tp_claim"
    /\ IF Newer(loc[r].step)
       THEN /\ user' = [user EXCEPT !.last = loc[r].step]
            /\ uses' = [uses EXCEPT !.step = Bump(@, <<loc[r].secret, loc[r].step>>)]
            /\ Goto(r, "tp_consume")
            /\ Carry(r, [AfterCode(r) EXCEPT !.strong = TRUE])
       ELSE Done(r) /\ UNCHANGED <<user, uses>>
    /\ UNCHANGED <<recovery, pendings, sessions, feature, now, issued, drawn, reset>>

\* consume_pending_login: conditional on consumed_at IS NULL, not on expiry.
TotpConsume(r) ==
    /\ pc[r] = "tp_consume"
    /\ IF Consumable(loc[r].pid)
       THEN /\ pendings' = [pendings EXCEPT ![loc[r].pid].state = "consumed"]
            /\ uses' = [uses EXCEPT !.pending = Bump(@, loc[r].pid)]
            /\ Goto(r, "sess_delete")
            /\ Carry(r, [loc[r] EXCEPT !.pid = None])
       ELSE Done(r) /\ UNCHANGED <<pendings, uses>>
    /\ UNCHANGED <<user, recovery, sessions, feature, now, issued, drawn, reset>>

\* fail_pending_login: unconditional, if the row is still there.
TotpFail(r) ==
    /\ pc[r] = "tp_fail"
    /\ pendings' = [pendings EXCEPT ![loc[r].pid].attempts =
           IF loc[r].pid \in Stored THEN Counted(@) ELSE @]
    /\ Done(r)
    /\ UNCHANGED <<user, recovery, sessions, feature, now, history>>

-----------------------------------------------------------------------------
(***************************************************************************)
(* Signed-in handlers begin with current_user.                             *)
(***************************************************************************)
Begin(r, s, label) ==
    /\ Authenticates(s)
    /\ Goto(r, label)
    /\ Carry(r, [loc[r] EXCEPT !.sid = s.id, !.strong = s.strong])
    /\ UNCHANGED <<store, now, history>>

\* account_password and change_password: the old password matched the row.
PasswordBegin(r) ==
    /\ May(r, "password")
    /\ \E s \in sessions : Begin(r, s, "pw_commit")

\* update_password_and_rotate_sessions: one transaction.
PasswordCommit(r) ==
    /\ pc[r] = "pw_commit"
    /\ \E i \in SessionIds :
        /\ FreshId(i)
        /\ sessions' = {[id |-> i, strong |-> loc[r].strong, spared |-> FALSE]}
    /\ Done(r)
    /\ UNCHANGED <<user, recovery, pendings, feature, now, history>>

\* account_totp_setup: feature on and password confirmed, then set_totp_pending.
SetupBegin(r) ==
    /\ May(r, "setup") /\ feature
    /\ \E s \in sessions : Begin(r, s, "setup_set")

SetupSet(r) ==
    /\ pc[r] = "setup_set"
    /\ \E x \in Secrets \ drawn :
        /\ user' = [user EXCEPT !.pending = x]
        /\ drawn' = drawn \cup {x}
    /\ Done(r)
    /\ UNCHANGED <<recovery, pendings, sessions, feature, now, issued, uses, reset>>

CancelBegin(r) ==
    /\ May(r, "cancel")
    /\ \E s \in sessions : Begin(r, s, "cancel_clear")

CancelClear(r) ==
    /\ pc[r] = "cancel_clear"
    /\ user' = [user EXCEPT !.pending = None]
    /\ Done(r)
    /\ UNCHANGED <<recovery, pendings, sessions, feature, now, history>>

(***************************************************************************)
(* account_totp_confirm: the pending secret is read, the code checked       *)
(* against it with no last step, and the secret written back active.        *)
(***************************************************************************)
ConfirmBegin(r) ==
    /\ May(r, "confirm")
    /\ \E s \in sessions : Begin(r, s, "cf_read")

ConfirmRead(r) ==
    /\ pc[r] = "cf_read"
    /\ IF user.pending = None
       THEN Done(r)
       ELSE /\ Goto(r, "cf_code")
            /\ Carry(r, [loc[r] EXCEPT !.secret = user.pending])
    /\ UNCHANGED <<store, now, history>>

ConfirmVerify(r) ==
    /\ pc[r] = "cf_code"
    /\ \/ \E t \in Steps :
           /\ InWindow(t)
           /\ Goto(r, "cf_activate")
           /\ Carry(r, [loc[r] EXCEPT !.step = t])
       \/ Done(r)
    /\ UNCHANGED <<store, now, history>>

\* activate_totp: unconditional.  "old" remembers the sessions of this instant.
ConfirmActivate(r) ==
    /\ pc[r] = "cf_activate"
    /\ user' = [user EXCEPT !.secret = loc[r].secret, !.last = loc[r].step,
                            !.pending = None]
    /\ uses' = [uses EXCEPT !.step = Bump(@, <<loc[r].secret, loc[r].step>>)]
    /\ reset' = WithoutStep
    /\ sessions' = {IF s.id = loc[r].sid THEN [s EXCEPT !.strong = TRUE] ELSE s
                        : s \in sessions}
    /\ Goto(r, "rv_list")
    /\ Carry(r, [AfterCode(r) EXCEPT !.then = "cf_codes",
                               !.old = Ids(sessions) \ {loc[r].sid}])
    /\ UNCHANGED <<recovery, pendings, feature, now, issued, drawn>>

\* replace_recovery_codes: a transaction whose DELETE sees the rows of its moment, so
\* that a set another one inserts meanwhile stays beside its own.
DeleteCodes(r) ==
    /\ pc[r] \in {"cf_codes", "rg_replace"}
    /\ Goto(r, "codes_commit")
    /\ Carry(r, [loc[r] EXCEPT !.doomed = recovery])
    /\ UNCHANGED <<store, now, history>>

NewCodes(r) ==
    /\ pc[r] = "codes_commit"
    /\ \E B \in SUBSET (Codes \ issued) :
        /\ B # {}
        /\ recovery' = (recovery \ loc[r].doomed) \cup B
        /\ issued' = issued \cup B
    /\ Done(r)
    /\ UNCHANGED <<user, pendings, sessions, feature, now, drawn, uses, reset>>

RegenerateBegin(r) ==
    /\ May(r, "regenerate")
    /\ \E s \in sessions : Begin(r, s, "rg_read")

RegenerateRead(r) ==
    /\ pc[r] = "rg_read"
    /\ IF IsActive
       THEN Goto(r, "rg_replace") /\ UNCHANGED loc
       ELSE Done(r)
    /\ UNCHANGED <<store, now, history>>

(***************************************************************************)
(* account_totp_disable: the state read decides; a code spends its step or  *)
(* its row before the factor is removed.                                    *)
(***************************************************************************)
DisableBegin(r) ==
    /\ May(r, "disable")
    /\ \E s \in sessions : Begin(r, s, "ds_read")

DisableRead(r) ==
    /\ pc[r] = "ds_read"
    /\ IF user.secret = None
       THEN Goto(r, "ds_commit") /\ UNCHANGED loc
       ELSE /\ Goto(r, "ds_code")
            /\ Carry(r, [loc[r] EXCEPT !.secret = user.secret, !.last = user.last])
    /\ UNCHANGED <<store, now, history>>

DisableVerify(r) ==
    /\ pc[r] = "ds_code"
    /\ \E t \in Steps :
        /\ InWindow(t)
        /\ IF t > loc[r].last
           THEN /\ Goto(r, "ds_claim")
                /\ Carry(r, [loc[r] EXCEPT !.step = t])
           ELSE Done(r)
    /\ UNCHANGED <<store, now, history>>

DisableRecovery(r) ==
    /\ pc[r] = "ds_code"
    /\ \E c \in recovery :
        /\ ~Locked(c)
        /\ recovery' = Marked(c)
        /\ uses' = [uses EXCEPT !.code = Bump(@, c)]
    /\ Goto(r, "ds_commit")
    /\ Carry(r, AfterCode(r))
    /\ UNCHANGED <<user, pendings, sessions, feature, now, issued, drawn, reset>>

DisableClaim(r) ==
    /\ pc[r] = "ds_claim"
    /\ IF Newer(loc[r].step)
       THEN /\ user' = [user EXCEPT !.last = loc[r].step]
            /\ uses' = [uses EXCEPT !.step = Bump(@, <<loc[r].secret, loc[r].step>>)]
            /\ Goto(r, "ds_commit")
            /\ Carry(r, AfterCode(r))
       ELSE Done(r) /\ UNCHANGED <<user, uses>>
    /\ UNCHANGED <<recovery, pendings, sessions, feature, now, issued, drawn, reset>>

\* disable_totp: one transaction over the users row and the recovery codes.
DisableCommit(r) ==
    /\ pc[r] = "ds_commit"
    /\ user' = [user EXCEPT !.secret = None, !.last = NoStep, !.pending = None]
    /\ recovery' = {}
    /\ reset' = WithoutStep
    /\ Goto(r, "rv_list")
    /\ Carry(r, [loc[r] EXCEPT !.then = "audit",
                               !.old = Ids(sessions) \ {loc[r].sid}])
    /\ UNCHANGED <<pendings, sessions, feature, now, issued, drawn, uses>>

(***************************************************************************)
(* revoke_other_sessions: a list, then one DELETE for each row of it.       *)
(***************************************************************************)
RevokeBegin(r) ==
    /\ May(r, "revoke")
    /\ \E s \in sessions :
        /\ Authenticates(s)
        /\ Carry(r, [loc[r] EXCEPT !.sid = s.id, !.then = "audit",
                                   !.old = Ids(sessions) \ {s.id}])
    /\ Goto(r, "rv_list")
    /\ UNCHANGED <<store, now, history>>

RevokeList(r) ==
    /\ pc[r] = "rv_list"
    /\ \/ /\ Carry(r, [loc[r] EXCEPT !.victims = Ids(sessions) \ {loc[r].sid}])
          /\ UNCHANGED sessions
       \/ /\ DbMayFail                         \* unwrap_or_default: an empty list
          /\ sessions' = {s \in sessions : s.id = loc[r].sid}
                         \cup Spared({s \in sessions : s.id # loc[r].sid})
          /\ UNCHANGED loc
    /\ Goto(r, "rv_delete")
    /\ UNCHANGED <<user, recovery, pendings, feature, now, history>>

RevokeDelete(r) ==
    /\ pc[r] = "rv_delete"
    /\ \E i \in loc[r].victims :
        /\ \/ sessions' = {s \in sessions : s.id # i}
           \/ /\ DbMayFail
              /\ sessions' = {s \in sessions : s.id # i}
                             \cup Spared({s \in sessions : s.id = i})
        /\ Carry(r, [loc[r] EXCEPT !.victims = @ \ {i}])
    /\ UNCHANGED <<user, recovery, pendings, feature, now, pc, history>>

RevokeEndEarly(r) ==
    /\ pc[r] = "rv_delete"
    /\ Goto(r, loc[r].then)
    /\ UNCHANGED <<store, now, loc, history>>

RevokeEnd(r) ==
    /\ pc[r] = "rv_delete" /\ loc[r].victims = {}
    /\ Goto(r, loc[r].then)
    /\ UNCHANGED <<store, now, loc, history>>

\* The audit row and the response.
Audit(r) ==
    /\ pc[r] = "audit"
    /\ Done(r)
    /\ UNCHANGED <<store, now, history>>

-----------------------------------------------------------------------------
(***************************************************************************)
(* Single-statement handlers, administration, and the environment.          *)
(***************************************************************************)
Logout(r) ==
    /\ May(r, "logout")
    /\ \E s \in sessions : sessions' = sessions \ {s}
    /\ UNCHANGED <<user, recovery, pendings, feature, now, pc, loc, history>>

\* get_session deletes a row it refuses: expired, idle for 12 hours, or banned.
SessionRefused ==
    /\ \E s \in sessions : sessions' = sessions \ {s}
    /\ UNCHANGED <<user, recovery, pendings, feature, now, pc, loc, history>>

BanSet(r) ==
    /\ May(r, "ban")
    /\ user' = [user EXCEPT !.banned = TRUE]
    /\ Goto(r, "ban_delete")
    /\ UNCHANGED <<recovery, pendings, sessions, feature, now, loc, history>>

BanDelete(r) ==
    /\ pc[r] = "ban_delete"
    /\ sessions' = {}
    /\ Done(r)
    /\ UNCHANGED <<user, recovery, pendings, feature, now, history>>

Unban(r) ==
    /\ May(r, "unban")
    /\ user' = [user EXCEPT !.banned = FALSE]
    /\ UNCHANGED <<recovery, pendings, sessions, feature, now, pc, loc, history>>

RevokeAll(r) ==
    /\ May(r, "revoke_all")
    /\ sessions' = {}
    /\ UNCHANGED <<user, recovery, pendings, feature, now, pc, loc, history>>

SetFeature(r) ==
    /\ May(r, "feature")
    /\ feature' \in BOOLEAN
    /\ UNCHANGED <<user, recovery, pendings, sessions, now, pc, loc, history>>

\* The client hangs up, the process dies, or a statement whose error the
\* handler reports fails: the handler goes no further.
Abandon(r) ==
    /\ pc[r] # "idle"
    /\ Done(r)
    /\ UNCHANGED <<store, now, history>>

Tick ==
    /\ now < MaxTime
    /\ now' = now + 1
    /\ UNCHANGED <<store, pc, loc, history>>

PasswordStep(r) == LoginUser(r) \/ LoginFeature(r) \/ LoginState(r)
                   \/ PendingClean(r) \/ PendingInsert(r)
CompleteLogin(r) == SessionsDelete(r) \/ SessionInsert(r)
TotpStep(r) == TotpPost(r) \/ TotpCount(r) \/ TotpState(r) \/ TotpVerify(r)
               \/ TotpRecovery(r) \/ TotpClaim(r) \/ TotpConsume(r) \/ TotpFail(r)
ChangePassword(r) == PasswordBegin(r) \/ PasswordCommit(r)
Enrol(r) == SetupBegin(r) \/ SetupSet(r) \/ CancelBegin(r) \/ CancelClear(r)
            \/ ConfirmBegin(r) \/ ConfirmRead(r) \/ ConfirmVerify(r)
            \/ ConfirmActivate(r) \/ DeleteCodes(r) \/ NewCodes(r)
            \/ RegenerateBegin(r) \/ RegenerateRead(r)
Disable(r) == DisableBegin(r) \/ DisableRead(r) \/ DisableVerify(r)
              \/ DisableRecovery(r) \/ DisableClaim(r) \/ DisableCommit(r)
Revoke(r) == RevokeBegin(r) \/ RevokeList(r) \/ RevokeDelete(r) \/ RevokeEnd(r)
             \/ Audit(r)
Administer(r) == BanSet(r) \/ BanDelete(r) \/ Unban(r) \/ RevokeAll(r)
                 \/ SetFeature(r)

Step(r) ==
    \/ PasswordStep(r) \/ CompleteLogin(r) \/ TotpStep(r)
    \/ ChangePassword(r) \/ Enrol(r) \/ Disable(r) \/ Revoke(r)
    \/ Logout(r) \/ Administer(r) \/ Abandon(r)

Next ==
    \/ \E r \in Requests : Step(r)
    \/ SessionRefused
    \/ Tick

Spec == Init /\ [][Next]_vars

-----------------------------------------------------------------------------
(***************************************************************************)
(* Properties.                                                             *)
(***************************************************************************)

\* Requests that have passed the attempt check of pending login i and may still
\* count a failure against it.
Guessing(i) ==
    {r \in Requests : /\ pc[r] \in {"tp_count", "tp_state", "tp_code", "tp_fail"}
                      /\ loc[r].pid = i}

\* The check of pending_login and the increment of fail_pending_login are two
\* statements, so the five attempts may be overrun, but only by the requests
\* that were already past the check: never by more than the other slots.
AttemptsBounded ==
    \A i \in PendingIds :
        pendings[i].attempts <= MaxAttempts + Cardinality(Requests) - 1

\* Requests between the two statements of complete_login.
Completing == {r \in Requests : pc[r] = "sess_insert"}

\* "One active session per account. Signing in again ends the previous one."
\* (src/handler/account.rs) is not kept by complete_login, which deletes and inserts
\* in two statements and goes on when the DELETE fails.  What is: apart from
\* sessions whose DELETE failed, overlapping logins leave no more than the server
\* runs requests at a time, however many sign in, rotate and revoke.
Unspared == {s \in sessions : ~s.spared}
SessionsBounded == Cardinality(Unspared) <= Cardinality(Requests)

\* However requests overlap, crash or are retried, a pending login completes at
\* most one login and a recovery code is accepted at most once, by the login or
\* the disable handler (the conditional UPDATEs of consume_pending_login and
\* consume_recovery_code).
PendingOnce == \A i \in PendingIds : uses.pending[i] <= 1
RecoveryOnce == \A c \in Codes : uses.code[c] <= 1

\* A pending login as a token of OneTime: live from its insert until it is
\* consumed or its row deleted.
PendingTokenState ==
    [i \in PendingIds |->
        CASE pendings[i].state = "fresh" -> "unissued"
          [] pendings[i].state = "open" -> "live"
          [] OTHER -> IF uses.pending[i] > 0 THEN "spent" ELSE "void"]

PendingToken ==
    INSTANCE OneTime WITH Tokens <- PendingIds, state <- PendingTokenState,
                          accepted <- uses.pending

\* A recovery code as a token of OneTime: live while its unused row is there.
RecoveryTokenState ==
    [c \in Codes |->
        IF c \in recovery THEN "live"
        ELSE IF uses.code[c] > 0 THEN "spent"
        ELSE IF c \in issued THEN "void"
        ELSE "unissued"]

RecoveryToken ==
    INSTANCE OneTime WITH Tokens <- Codes, state <- RecoveryTokenState,
                          accepted <- uses.code

\* Pending logins and recovery codes implement single use: whatever requests
\* overlap, hang up or are retried, and whatever the cleaning of expired rows, the
\* reissue of codes and the removal of the factor withdraw meanwhile, each is
\* accepted at most once, only while its row is there and unused, and one that was
\* withdrawn or accepted never comes back (the conditional UPDATEs of
\* consume_pending_login and consume_recovery_code).
PendingSingleUse == PendingToken!Spec
RecoverySingleUse == RecoveryToken!Spec

\* No code of a secret is accepted for the same time step by two requests, logins,
\* confirmations or disablings, as long as the last step of that secret is
\* neither forgotten (disable_totp) nor written over (activate_totp, where another
\* request has confirmed a secret already), whatever reads came before.  Without that
\* reserve, docs/operations.md promises more: "A code is accepted only once".
CodeOnce ==
    \A x \in Secrets \ reset : \A t \in Steps : uses.step[<<x, t>>] <= 1

\* Once the revocation that follows switching the factor on or off is over, no
\* session that was in the table when it was switched is left, whatever other
\* requests signed in, out or rotated meanwhile, unless its DELETE failed.
PredatingSessionsGone ==
    \A r \in Requests :
        pc[r] \in {"cf_codes", "audit"} => Ids(Unspared) \cap loc[r].old = {}

\* Failures the account really spent on pending logins that are not yet expired:
\* the budget is never overrun inside one lifetime of a pending login, except
\* by the requests that were already past the check.
BudgetPerLifetime ==
    FailuresSince(PendingIds, now - PendingTTL)
        <= AccountLimit + Cardinality(Requests) - 1

\* "The password step no longer creates a session when a second factor is
\* active" (CHANGELOG.md): as long as no request switches the factor or the
\* feature, every session of an enrolled account presented the factor, also
\* those a password change rotates.
Switching == {"setup", "confirm", "cancel", "disable", "feature"}
FactorPresented ==
    Enrolled /\ (\A r \in Requests : Handlers[r] \cap Switching = {})
        => \A s \in sessions : s.strong

=============================================================================
