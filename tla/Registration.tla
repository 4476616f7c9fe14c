---------------------------- MODULE Registration ----------------------------
(***************************************************************************)
(* Registering an account, the invite codes and the registration policy.   *)
(*                                                                         *)
(* register_post reads the policy in two statements, then registers in one *)
(* transaction (register_with_invite) or one statement (create_user), then *)
(* opens a session.  The transaction holds a connection of the pool to its *)
(* end; its INSERT holds the username, as the UNIQUE index does, and its   *)
(* UPDATE the invite row.  Who meets such a lock waits for the holder's    *)
(* commit or rollback and then judges the row that is left.                *)
(*                                                                         *)
(* A request registers once, its challenges passed and its form valid.     *)
(***************************************************************************)
EXTENDS Integers, FiniteSets

CONSTANTS
    Requests,    \* registrations, each made once
    Names,       \* usernames
    Codes,       \* invite codes, each drawn once
    MaxUses,     \* values an administrator gives max_uses
    Modes,       \* values of registration_mode
    Switches,    \* values of registration_invite_enabled = "1"
    PoolSize,    \* connections of the pool
    MaxTime,     \* bound of the clock
    DbMayFail,   \* BOOLEAN: may a read whose error is ignored fail?
    None

ASSUME NoneAssumption == None \notin Names \cup Codes
ASSUME RequestsAssumption == IsFiniteSet(Requests)
ASSUME PolicyAssumption ==
    /\ Modes \subseteq {"open", "invite", "closed"}
    /\ Switches \subseteq BOOLEAN /\ DbMayFail \in BOOLEAN
ASSUME LimitsAssumption ==
    /\ MaxUses \subseteq Nat \ {0} /\ PoolSize \in Nat \ {0} /\ MaxTime \in Nat

VARIABLES
    users,       \* table users: the name, and the invite it came with
    invites,     \* table invite_codes; a code nobody drew has max = 0
    mode,        \* setting registration_mode
    inviteOn,    \* setting registration_invite_enabled
    sessioned,   \* names whose registration opened a session
    now,
    pc,          \* [Requests -> Labels]
    loc          \* [Requests -> Locals]

vars == <<users, invites, mode, inviteOn, sessioned, now, pc, loc>>
policy == <<mode, inviteOn>>

User == [name: Names, via: Codes \cup {None}]

\* expires_at IS NULL: later than every instant.
Never == 2 * MaxTime + 1

Invite == [max: MaxUses \cup {0}, count: Nat, expires: 1..Never,
           revoked: BOOLEAN]

Labels == {"new", "setting", "begin", "insert", "redeem", "commit", "session",
           "done"}

Locals == [name: Names \cup {None}, via: Codes \cup {None},
           mode: {"open", "invite", "closed"}, at: Nat]

NoLocals == [name |-> None, via |-> None, mode |-> "invite", at |-> 0]

TypeOK ==
    /\ users \in SUBSET User
    /\ invites \in [Codes -> Invite]
    /\ mode \in Modes /\ inviteOn \in Switches
    /\ sessioned \in SUBSET Names
    /\ now \in 0..MaxTime
    /\ pc \in [Requests -> Labels]
    /\ loc \in [Requests -> Locals]
    /\ \A r \in Requests : pc[r] \notin {"new", "done"} => loc[r].name \in Names

Init ==
    /\ users = {} /\ sessioned = {} /\ now = 0
    /\ invites = [c \in Codes |-> [max |-> 0, count |-> 0, expires |-> Never,
                                   revoked |-> FALSE]]
    /\ mode \in Modes /\ inviteOn \in Switches
    /\ pc = [r \in Requests |-> "new"]
    /\ loc = [r \in Requests |-> NoLocals]

-----------------------------------------------------------------------------
Goto(r, label) == pc' = [pc EXCEPT ![r] = label]
Carry(r, l) == loc' = [loc EXCEPT ![r] = l]
Done(r) == Goto(r, "done") /\ Carry(r, NoLocals)

\* Requests that hold a connection over several statements.
InTx == {r \in Requests : pc[r] \in {"insert", "redeem", "commit"}}
FreeConn == Cardinality(InTx) < PoolSize

\* A statement runs on the connection of its transaction (&mut *tx), or waits
\* for one of the pool.
FromPool(r) == FreeConn
Connected(r) == r \in InTx \/ FreeConn

\* The uncommitted rows a statement has to wait for.
NameHeld(n) ==
    \E r \in Requests : pc[r] \in {"redeem", "commit"} /\ loc[r].name = n
RowHeld(c) == \E r \in Requests : pc[r] = "commit" /\ loc[r].via = c

\* UNIQUE (username).
Taken(n) == \E u \in users : u.name = n

\* The WHERE clause of the UPDATE of register_with_invite; the clock is that of
\* the beginning of the transaction.
Unexpired(c, at) == invites[c].expires > at
UsableWithoutCap(c, at) ==
    /\ invites[c].max > 0 /\ ~invites[c].revoked /\ Unexpired(c, at)
UsableThoughRevoked(c, at) ==
    /\ invites[c].count < invites[c].max /\ Unexpired(c, at)
Usable(c, at) ==
    /\ invites[c].count < invites[c].max
    /\ ~invites[c].revoked
    /\ Unexpired(c, at)

-----------------------------------------------------------------------------
(***************************************************************************)
(* register_post.                                                          *)
(***************************************************************************)

\* registration_mode: one that cannot be read counts as "invite".
ReadMode(r) ==
    /\ pc[r] = "new" /\ Connected(r)
    /\ \E n \in Names, c \in Codes \cup {None},
          m \in {mode} \cup (IF DbMayFail THEN {"invite"} ELSE {}) :
        IF m = "closed"
        THEN Done(r)
        ELSE /\ Goto(r, "setting")
             /\ Carry(r, [loc[r] EXCEPT !.name = n, !.via = c, !.mode = m])
    /\ UNCHANGED <<users, invites, policy, sessioned, now>>

\* registration_invite_enabled: one that cannot be read follows the mode.  An
\* invite given where none is asked for is not looked at.
ReadSetting(r) ==
    /\ pc[r] = "setting" /\ Connected(r)
    /\ \E need \in {inviteOn}
                   \cup (IF DbMayFail THEN {loc[r].mode = "invite"} ELSE {}) :
        IF need /\ loc[r].via = None
        THEN Done(r)
        ELSE /\ Goto(r, "begin")
             /\ Carry(r, [loc[r] EXCEPT !.via = IF need THEN @ ELSE None])
    /\ UNCHANGED <<users, invites, policy, sessioned, now>>

\* The password is hashed; then a connection is taken and the clock read.
Begin(r) ==
    /\ pc[r] = "begin" /\ Connected(r)
    /\ Goto(r, "insert")
    /\ Carry(r, [loc[r] EXCEPT !.at = now])
    /\ UNCHANGED <<users, invites, policy, sessioned, now>>

\* INSERT INTO users refused by the UNIQUE index.
NameRefused(r) ==
    /\ pc[r] = "insert" /\ Connected(r)
    /\ ~NameHeld(loc[r].name) /\ Taken(loc[r].name)
    /\ Done(r)
    /\ UNCHANGED <<users, invites, policy, sessioned, now>>

\* INSERT INTO users of register_with_invite.
InsertUser(r) ==
    /\ pc[r] = "insert" /\ Connected(r) /\ loc[r].via # None
    /\ ~NameHeld(loc[r].name) /\ ~Taken(loc[r].name)
    /\ Goto(r, "redeem")
    /\ UNCHANGED <<users, invites, policy, sessioned, now, loc>>

\* create_user: the statement commits by itself.
CreateUser(r) ==
    /\ pc[r] = "insert" /\ Connected(r) /\ loc[r].via = None
    /\ ~NameHeld(loc[r].name) /\ ~Taken(loc[r].name)
    /\ users' = users \cup {[name |-> loc[r].name, via |-> None]}
    /\ Goto(r, "session")
    /\ UNCHANGED <<invites, policy, sessioned, now, loc>>

\* The UPDATE found no row: the transaction rolls back.
InviteRefused(r) ==
    /\ pc[r] = "redeem" /\ Connected(r)
    /\ ~Usable(loc[r].via, loc[r].at)
    /\ Done(r)
    /\ UNCHANGED <<users, invites, policy, sessioned, now>>

RedeemInvite(r) ==
    /\ pc[r] = "redeem" /\ Connected(r)
    /\ Usable(loc[r].via, loc[r].at) /\ ~RowHeld(loc[r].via)
    /\ Goto(r, "commit")
    /\ UNCHANGED <<users, invites, policy, sessioned, now, loc>>

Commit(r) ==
    /\ pc[r] = "commit" /\ Connected(r)
    /\ users' = users \cup {[name |-> loc[r].name, via |-> loc[r].via]}
    /\ invites' = [invites EXCEPT ![loc[r].via].count = @ + 1]
    /\ Goto(r, "session")
    /\ UNCHANGED <<policy, sessioned, now, loc>>

\* delete_sessions_by_user, whose error is ignored, and create_session.
OpenSession(r) ==
    /\ pc[r] = "session" /\ Connected(r)
    /\ sessioned' = sessioned \cup {loc[r].name}
    /\ Done(r)
    /\ UNCHANGED <<users, invites, policy, now>>

\* The client hangs up, the process dies, or a statement fails or waits too
\* long for a connection: an open transaction rolls back, a committed account
\* stays without a session.
Abandon(r) ==
    /\ pc[r] \notin {"new", "done"}
    /\ Done(r)
    /\ UNCHANGED <<users, invites, policy, sessioned, now>>

-----------------------------------------------------------------------------
(***************************************************************************)
(* The administrator.                                                      *)
(***************************************************************************)

\* expires_at of a new invite: NULL for zero days.
ExpiresAnyway(days) == now + days
ExpiresAt(days) == IF days > 0 THEN now + days ELSE Never

\* One turn of the loop of invite_create, which stops at the first failure.
CreateInvite ==
    /\ \E c \in Codes, m \in MaxUses, days \in 0..MaxTime :
        /\ invites[c].max = 0
        /\ invites' = [invites EXCEPT ![c].max = m, ![c].expires = ExpiresAt(days)]
    /\ UNCHANGED <<users, policy, sessioned, now, pc, loc>>

\* revoke_invite waits for the row, too.
RevokeInvite ==
    /\ \E c \in Codes :
        /\ invites[c].max > 0 /\ ~invites[c].revoked /\ ~RowHeld(c)
        /\ invites' = [invites EXCEPT ![c].revoked = TRUE]
    /\ UNCHANGED <<users, policy, sessioned, now, pc, loc>>

\* admin_regmode and admin_policies.
SetMode ==
    /\ mode' \in Modes
    /\ UNCHANGED <<users, invites, inviteOn, sessioned, now, pc, loc>>

SetSwitch ==
    /\ inviteOn' \in Switches
    /\ UNCHANGED <<users, invites, mode, sessioned, now, pc, loc>>

Tick ==
    /\ now < MaxTime
    /\ now' = now + 1
    /\ UNCHANGED <<users, invites, policy, sessioned, pc, loc>>

Serve(r) ==
    \/ ReadSetting(r) \/ Begin(r) \/ NameRefused(r) \/ InsertUser(r)
    \/ CreateUser(r) \/ InviteRefused(r) \/ RedeemInvite(r) \/ Commit(r)
    \/ OpenSession(r)

Administer == CreateInvite \/ RevokeInvite \/ SetMode \/ SetSwitch

Next ==
    \/ \E r \in Requests : ReadMode(r) \/ Serve(r) \/ Abandon(r)
    \/ Administer
    \/ Tick

Spec == Init /\ [][Next]_vars

\* The runtime polls every handler it has begun.
FairSpec == Spec /\ \A r \in Requests : WF_vars(Serve(r))

-----------------------------------------------------------------------------
(***************************************************************************)
(* Properties.                                                             *)
(***************************************************************************)
Registered(c) == {u \in users : u.via = c}

\* However registrations race for a code, fail, hang up or crash between two
\* statements, the uses of a code are the accounts registered with it, never
\* more than it allows: register_with_invite inserts and counts together.
InviteAccounted ==
    \A c \in Codes : /\ invites[c].count = Cardinality(Registered(c))
                     /\ invites[c].count <= invites[c].max

\* Whatever mix of invited and open registrations races for a name, one of them
\* gets it.
OneAccountPerName == \A u, v \in users : u.name = v.name => u = v

\* What an invite has left.
Uses == [c \in Codes |-> [max |-> invites[c].max, count |-> invites[c].count,
                          revoked |-> invites[c].revoked]]

Atomic == INSTANCE AtomicRegistration WITH accounts <- users, uses <- Uses

\* A registration is one step to everybody else, although register_with_invite is
\* several statements that others overtake and that may fail at each: the account
\* and the use of the invite appear together, under a name that is free and with an
\* invite that has a use left and is not revoked at that moment.
RegistersAtomically == Atomic!Spec

\* Once revoke_invite has returned, no registration uses the code any more, not
\* even one whose transaction was already open.
RevokedFrozen ==
    [][\A c \in Codes : invites[c].revoked
            => invites'[c].count = invites[c].count]_vars

\* A registration that has begun is answered: the waits for a name, an invite
\* row and a connection never close a circle, even with a pool of one and
\* without the acquire timeout.
Answered == \A r \in Requests : pc[r] = "setting" ~> pc[r] = "done"

=============================================================================
