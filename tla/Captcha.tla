------------------------------ MODULE Captcha ------------------------------
(***************************************************************************)
(* src/captcha.rs: the in-memory table of captcha challenges.              *)
(*                                                                         *)
(* The table is a HashMap behind one Mutex, so each locked section is one  *)
(* step.  generate and verify read the clock before they take the lock,    *)
(* and other requests, and seconds, may pass in between.  The token's HMAC *)
(* binds scope, id and expiry, so a submission that reaches the table      *)
(* names the scope and the expiry its record has; what is left of the      *)
(* answer is whether it is right.                                          *)
(***************************************************************************)
EXTENDS Integers, FiniteSets

CONSTANTS
    Requests,        \* requests running at a time
    Ids,             \* challenge ids, each drawn once
    MaxAttempts,     \* MAX_ATTEMPTS
    MaxChallenges,   \* MAX_CHALLENGES
    TTL,             \* TTL_SECONDS, in time steps
    MaxTime,         \* bound of the clock
    None

ASSUME RequestsAssumption == IsFiniteSet(Requests)
ASSUME LimitsAssumption ==
    /\ MaxAttempts \in Nat \ {0} /\ MaxChallenges \in Nat \ {0}
    /\ TTL \in Nat /\ MaxTime \in Nat
ASSUME NoneAssumption == None \notin Ids

VARIABLES
    challenges,   \* ids of the table
    attempts,     \* [Ids -> Nat]: ChallengeRecord::attempts, kept as history
                  \* when the record is gone
    expires,      \* [Ids -> Nat]: ChallengeRecord::expires_at
    drawn,        \* ids drawn in this or an earlier life of the process
    signed,       \* ids whose token verifies under the key of this process
    now,
    pc,           \* [Requests -> {"idle", "insert", "lock"}]
    loc,          \* [Requests -> Ids \cup {None}]: the id the request is about
    accepted      \* history: how often an id was accepted

vars == <<challenges, attempts, expires, drawn, signed, now, pc, loc,
          accepted>>

TypeOK ==
    /\ challenges \in SUBSET Ids
    /\ attempts \in [Ids -> Nat]
    /\ expires \in [Ids -> Nat]
    /\ drawn \in SUBSET Ids /\ signed \in SUBSET drawn
    /\ now \in 0..MaxTime
    /\ pc \in [Requests -> {"idle", "insert", "lock"}]
    /\ loc \in [Requests -> Ids \cup {None}]
    /\ accepted \in [Ids -> Nat]

Init ==
    /\ challenges = {} /\ drawn = {} /\ signed = {} /\ now = 0
    /\ attempts = [i \in Ids |-> 0] /\ expires = [i \in Ids |-> 0]
    /\ pc = [r \in Requests |-> "idle"] /\ loc = [r \in Requests |-> None]
    /\ accepted = [i \in Ids |-> 0]

Goto(r, label, i) ==
    /\ pc' = [pc EXCEPT ![r] = label]
    /\ loc' = [loc EXCEPT ![r] = i]

Done(r) == Goto(r, "idle", None)

\* Ids a client has been given: of this process, and no longer being inserted.
Inserting == {loc[r] : r \in {q \in Requests : pc[q] = "insert"}}
Published == signed \ Inserting

\* retain(expires_at >= now).
Retained == {i \in challenges : expires[i] >= now}

\* The oldest record makes room in a full table.
Oldest(S) == {i \in S : \A j \in S : expires[i] <= expires[j]}
KeepAll(S, kept) == kept = S
RoomIn(S, kept) ==
    IF Cardinality(S) >= MaxChallenges
    THEN \E i \in Oldest(S) : kept = S \ {i}
    ELSE kept = S

ExpiryInThePast == now - TTL
Expiry == now + TTL

\* generate: the id is drawn and the expiry stamped before the lock is taken.
Generate(r) ==
    /\ pc[r] = "idle"
    /\ \E i \in Ids \ drawn :
        /\ drawn' = drawn \cup {i}
        /\ signed' = signed \cup {i}
        /\ expires' = [expires EXCEPT ![i] = Expiry]
        /\ Goto(r, "insert", i)
    /\ UNCHANGED <<challenges, attempts, now, accepted>>

\* generate, under the lock.
Insert(r) ==
    /\ pc[r] = "insert"
    /\ \E kept \in SUBSET challenges :
        /\ RoomIn(Retained, kept)
        /\ challenges' = kept \cup {loc[r]}
    /\ attempts' = [attempts EXCEPT ![loc[r]] = 0]
    /\ Done(r)
    /\ UNCHANGED <<expires, drawn, signed, now, accepted>>

\* verify, up to the lock: the expiry is compared with the clock and the token
\* checked.  A token that does not verify, or has expired, changes nothing.
Submit(r) ==
    /\ pc[r] = "idle"
    /\ \E i \in Published :
        /\ expires[i] >= now /\ expires[i] <= now + TTL
        /\ Goto(r, "lock", i)
    /\ UNCHANGED <<challenges, attempts, expires, drawn, signed, now, accepted>>

\* verify, under the lock: the record is gone.
Missing(r) ==
    /\ pc[r] = "lock" /\ loc[r] \notin challenges
    /\ Done(r)
    /\ UNCHANGED <<challenges, attempts, expires, drawn, signed, now, accepted>>

\* verify, under the lock: a wrong answer is counted and the last one allowed
\* removes the record.
ExhaustedOneLate(n) == n > MaxAttempts
Exhausted(n) == n >= MaxAttempts
Wrong(r) ==
    /\ pc[r] = "lock" /\ loc[r] \in challenges
    /\ attempts' = [attempts EXCEPT ![loc[r]] = @ + 1]
    /\ challenges' = IF Exhausted(attempts[loc[r]] + 1)
                     THEN challenges \ {loc[r]} ELSE challenges
    /\ Done(r)
    /\ UNCHANGED <<expires, drawn, signed, now, accepted>>

\* verify, under the lock: the right answer removes the record.
StillThere(i) == challenges
Removed(i) == challenges \ {i}
Right(r) ==
    /\ pc[r] = "lock" /\ loc[r] \in challenges
    /\ challenges' = Removed(loc[r])
    /\ accepted' = [accepted EXCEPT ![loc[r]] = @ + 1]
    /\ Done(r)
    /\ UNCHANGED <<attempts, expires, drawn, signed, now>>

\* A new process has a new key and an empty table.
Restart ==
    /\ challenges' = {} /\ signed' = {}
    /\ pc' = [r \in Requests |-> "idle"] /\ loc' = [r \in Requests |-> None]
    /\ UNCHANGED <<attempts, expires, drawn, now, accepted>>

Tick ==
    /\ now < MaxTime
    /\ now' = now + 1
    /\ UNCHANGED <<challenges, attempts, expires, drawn, signed, pc, loc,
                   accepted>>

Next ==
    \/ \E r \in Requests : \/ Generate(r) \/ Insert(r) \/ Submit(r)
                           \/ Missing(r) \/ Wrong(r) \/ Right(r)
    \/ Restart
    \/ Tick

Spec == Init /\ [][Next]_vars

-----------------------------------------------------------------------------
(***************************************************************************)
(* Properties.                                                             *)
(***************************************************************************)

\* A captcha as a token of OneTime: live while its record is in the table.
TokenState ==
    [i \in Ids |->
        IF i \in challenges THEN "live"
        ELSE IF accepted[i] > 0 THEN "spent"
        ELSE IF i \in drawn \ Inserting THEN "void"
        ELSE "unissued"]

Token == INSTANCE OneTime WITH Tokens <- Ids, state <- TokenState

\* The table implements single use: whatever submissions race each other, the
\* expiry, the eviction of a full table or a restart, a captcha is accepted at
\* most once and only while its record is in the table (verify removes the
\* record under the lock that checks the answer).
SingleUse == Token!Spec

\* However submissions interleave, an id takes at most MAX_ATTEMPTS wrong
\* answers, and after that many no right one either.
GuessesBounded ==
    \A i \in Ids : /\ attempts[i] <= MaxAttempts
                   /\ attempts[i] = MaxAttempts => i \notin challenges

\* The table never holds more than MAX_CHALLENGES records, whatever mix of
\* requests, expiries and evictions runs (generate makes room before inserting).
TableBounded == Cardinality(challenges) <= MaxChallenges

=============================================================================
