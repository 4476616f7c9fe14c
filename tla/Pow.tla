-------------------------------- MODULE Pow --------------------------------
(***************************************************************************)
(* src/pow.rs: proof-of-work challenges and the map of those already used. *)
(*                                                                         *)
(* A challenge is a signed message: nothing is kept about it until it is   *)
(* submitted.  verify reserves it in the map, releases the lock, reads the *)
(* required difficulty from the database, and takes the reservation back   *)
(* when the difficulty or the nonce is refused.  The map drops what has    *)
(* expired, and the entry nearest to expiry when it is full.  Each locked  *)
(* section is one step; seconds pass between the steps.                    *)
(*                                                                         *)
(* The signature comes in hexadecimal.  It is decoded to be verified, in   *)
(* any spelling (upper or lower case), but the key of the map is the text  *)
(* as it was sent: the map knows a challenge by the spelling of its        *)
(* signature, and so does this module.                                     *)
(***************************************************************************)
EXTENDS Integers, FiniteSets

CONSTANTS
    Requests,       \* requests running at a time
    Challenges,     \* challenges, each drawn once
    Keys,           \* hexadecimal texts of their signatures
    Of,             \* [Keys -> Challenges]: the challenge whose signature it is
    Levels,         \* difficulties the configuration may ask for
    DefaultLevel,   \* minutes_to_difficulty(DEFAULT_MINUTES)
    MaxUsed,        \* MAX_USED_CHALLENGES
    TTL,            \* lifetime of a challenge, in time steps
    MaxTime,        \* bound of the clock
    MaxCount,       \* bound of the history count
    None

ASSUME RequestsAssumption == IsFiniteSet(Requests)
ASSUME LevelsAssumption == Levels \subseteq Nat /\ DefaultLevel \in Levels
ASSUME LimitsAssumption ==
    /\ MaxUsed \in Nat \ {0} /\ TTL \in Nat /\ MaxTime \in Nat
    /\ MaxCount \in Nat \ {0, 1}
ASSUME KeysAssumption == Of \in [Keys -> Challenges]
ASSUME NoneAssumption == None \notin Keys

VARIABLES
    level,      \* the configured difficulty
    used,       \* keys of Manager::used; the value of a key is the expiry
    expires,    \* [Challenges -> Nat]: the signed expires_at
    diff,       \* [Challenges -> Levels]: the signed difficulty
    drawn,      \* challenges drawn in this or an earlier life of the process
    signed,     \* challenges the client has that verify under this key
    now,
    pc,         \* [Requests -> Labels]
    loc,        \* [Requests -> Keys \cup {None}]
    asked,      \* [Requests -> Levels]: difficulty a generate has read
    accepted,   \* history: how often a key was accepted, up to MaxCount
    lapsed,     \* history: keys reserved after their expiry, or evicted
    burned      \* history: keys reserved by a request that was abandoned

vars == <<level, used, expires, diff, drawn, signed, now, pc, loc, asked,
          accepted, lapsed, burned>>
history == <<accepted, lapsed, burned>>

Labels == {"idle", "stamp", "reserve", "difficulty", "rollback"}

TypeOK ==
    /\ level \in Levels
    /\ used \in SUBSET Keys
    /\ expires \in [Challenges -> Nat]
    /\ diff \in [Challenges -> Levels]
    /\ drawn \in SUBSET Challenges /\ signed \in SUBSET drawn
    /\ now \in 0..MaxTime
    /\ pc \in [Requests -> Labels]
    /\ loc \in [Requests -> Keys \cup {None}]
    /\ asked \in [Requests -> Levels]
    /\ accepted \in [Keys -> Nat]
    /\ lapsed \in SUBSET Keys /\ burned \in SUBSET Keys

Init ==
    /\ level \in Levels
    /\ used = {} /\ drawn = {} /\ signed = {} /\ now = 0 /\ lapsed = {} /\ burned = {}
    /\ expires = [c \in Challenges |-> 0]
    /\ diff = [c \in Challenges |-> DefaultLevel]
    /\ pc = [r \in Requests |-> "idle"]
    /\ loc = [r \in Requests |-> None]
    /\ asked = [r \in Requests |-> DefaultLevel]
    /\ accepted = [k \in Keys |-> 0]

Goto(r, label) == pc' = [pc EXCEPT ![r] = label]

Done(r) ==
    /\ Goto(r, "idle")
    /\ loc' = [loc EXCEPT ![r] = None]
    /\ asked' = [asked EXCEPT ![r] = DefaultLevel]

\* get_difficulty: a setting that cannot be read counts as the default.
Difficulty == {level, DefaultLevel}

\* generate: the difficulty is read, then the challenge is drawn and stamped.
GenerateRead(r) ==
    /\ pc[r] = "idle"
    /\ \E d \in Difficulty : asked' = [asked EXCEPT ![r] = d]
    /\ Goto(r, "stamp")
    /\ UNCHANGED <<level, used, expires, diff, drawn, signed, now, loc, history>>

ExpiryInThePast == now - TTL
Expiry == now + TTL

GenerateStamp(r) ==
    /\ pc[r] = "stamp"
    /\ \E c \in Challenges \ drawn :
        /\ drawn' = drawn \cup {c}
        /\ signed' = signed \cup {c}
        /\ expires' = [expires EXCEPT ![c] = Expiry]
        /\ diff' = [diff EXCEPT ![c] = asked[r]]
    /\ Done(r)
    /\ UNCHANGED <<level, used, now, history>>

\* verify up to the lock: not expired, and signed by this process.
Submit(r) ==
    /\ pc[r] = "idle"
    /\ \E k \in Keys :
        /\ Of[k] \in signed /\ now <= expires[Of[k]]
        /\ loc' = [loc EXCEPT ![r] = k]
    /\ Goto(r, "reserve")
    /\ UNCHANGED <<level, used, expires, diff, drawn, signed, now, asked,
                   history>>

\* retain(exp >= now).
RetainedShorter == {k \in used : expires[Of[k]] > now}
Retained == {k \in used : expires[Of[k]] >= now}

\* A full map loses one of the entries nearest to expiry.
Oldest(S) == {k \in S : \A q \in S : expires[Of[k]] <= expires[Of[q]]}
KeepAll(S, kept) == kept = S
RoomIn(S, kept) ==
    IF Cardinality(S) >= MaxUsed
    THEN \E k \in Oldest(S) : kept = S \ {k}
    ELSE kept = S

\* verify, first locked section: what is in the map is refused.
Taken(k) == k \in used

ReserveRefused(r) ==
    /\ pc[r] = "reserve" /\ Taken(loc[r])
    /\ Done(r)
    /\ UNCHANGED <<level, used, expires, diff, drawn, signed, now, history>>

Reserve(r) ==
    /\ pc[r] = "reserve" /\ ~Taken(loc[r])
    /\ \E kept \in SUBSET used :
        /\ RoomIn(Retained, kept)
        /\ used' = kept \cup {loc[r]}
        /\ lapsed' = lapsed \cup (Retained \ kept)
                            \cup {k \in {loc[r]} : expires[Of[k]] < now}
    /\ Goto(r, "difficulty")
    /\ UNCHANGED <<level, expires, diff, drawn, signed, now, loc, asked,
                   accepted, burned>>

Counted(n) == IF n = MaxCount THEN n ELSE n + 1

\* verify after the lock: the difficulty is read again; the nonce solves the
\* challenge or does not.
Accept(r) ==
    /\ pc[r] = "difficulty"
    /\ \E d \in Difficulty : diff[Of[loc[r]]] >= d
    /\ accepted' = [accepted EXCEPT ![loc[r]] = Counted(@)]
    /\ Done(r)
    /\ UNCHANGED <<level, used, expires, diff, drawn, signed, now, lapsed,
                   burned>>

Refuse(r) ==
    /\ pc[r] = "difficulty"
    /\ Goto(r, "rollback")
    /\ UNCHANGED <<level, used, expires, diff, drawn, signed, now, loc, asked,
                   history>>

NotRolledBack(k) == used
RolledBack(k) == used \ {k}

\* The reservation is taken back under the lock.
Rollback(r) ==
    /\ pc[r] = "rollback"
    /\ used' = RolledBack(loc[r])
    /\ Done(r)
    /\ UNCHANGED <<level, expires, diff, drawn, signed, now, history>>

\* The client hangs up while the handler awaits the configuration: what it
\* had reserved stays in the map.
Abandon(r) ==
    /\ pc[r] \in {"stamp", "difficulty"}
    /\ burned' = burned \cup {k \in {loc[r]} : pc[r] = "difficulty"}
    /\ Done(r)
    /\ UNCHANGED <<level, used, expires, diff, drawn, signed, now, accepted,
                   lapsed>>

\* admin settings: the difficulty of the scope.
Configure ==
    /\ level' \in Levels
    /\ UNCHANGED <<used, expires, diff, drawn, signed, now, pc, loc, asked,
                   history>>

\* A new process has a new key and an empty map.
Restart ==
    /\ used' = {} /\ signed' = {}
    /\ pc' = [r \in Requests |-> "idle"]
    /\ loc' = [r \in Requests |-> None]
    /\ asked' = [r \in Requests |-> DefaultLevel]
    /\ UNCHANGED <<level, expires, diff, drawn, now, history>>

Tick ==
    /\ now < MaxTime
    /\ now' = now + 1
    /\ UNCHANGED <<level, used, expires, diff, drawn, signed, pc, loc,
                   asked, history>>

Step(r) ==
    \/ GenerateRead(r) \/ GenerateStamp(r) \/ Submit(r) \/ ReserveRefused(r)
    \/ Reserve(r) \/ Accept(r) \/ Refuse(r) \/ Rollback(r) \/ Abandon(r)

Next == (\E r \in Requests : Step(r)) \/ Configure \/ Restart \/ Tick

Spec == Init /\ [][Next]_vars

-----------------------------------------------------------------------------
(***************************************************************************)
(* Properties.                                                             *)
(***************************************************************************)

\* A challenge is accepted at most once in each spelling of its signature, unless
\* its key was evicted from a full map or reserved after its expiry, whatever the
\* interleaving of reservations, rollbacks, abandoned requests and configuration
\* changes.  (Not once altogether: verify decodes the signature but keeps the text.)
AcceptedOnceWhileKept ==
    \A k \in Keys \ lapsed : accepted[k] <= 1

\* No reservation is left behind: an entry of the map was accepted, is being
\* verified, or belongs to a request whose client hung up ("roll back the
\* reservation" of verify).
Reserving(k) == \E r \in Requests : pc[r] \in {"difficulty", "rollback"} /\ loc[r] = k
NoneLeftBehind ==
    \A k \in used \ burned : accepted[k] > 0 \/ Reserving(k)

\* The map never holds more than MAX_USED_CHALLENGES entries.
UsedBounded == Cardinality(used) <= MaxUsed

=============================================================================
