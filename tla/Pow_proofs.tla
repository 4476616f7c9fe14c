----------------------------- MODULE Pow_proofs -----------------------------
(***************************************************************************)
(* Theorems about the proof-of-work challenges, for every number of        *)
(* requests, challenges, spellings of their signatures, difficulties and   *)
(* limits.                                                                 *)
(***************************************************************************)
EXTENDS Pow, TLAPS, FiniteSetTheorems

\* Requests past the reservation: they hold an entry of the map, unless it
\* expired or was evicted.
Holders == {r \in Requests : pc[r] \in {"difficulty", "rollback"}}

\* What is submitted, reserved or accepted was drawn, and what is being
\* verified is signed by this process.
DrawnInv ==
    /\ \A r \in Requests : pc[r] \in {"reserve", "difficulty", "rollback"}
           => loc[r] \in Keys /\ Of[loc[r]] \in signed
    /\ \A k \in used : Of[k] \in drawn
    /\ \A k \in Keys : Of[k] \notin drawn => accepted[k] = 0

\* A key that did not lapse has one holder, was not accepted before, and
\* cannot be reserved by another request while it is held or once it was
\* accepted: it is in the map, expired, or of an earlier process.
ReservationInv ==
    \A k \in Keys \ lapsed :
        /\ \A r, q \in Holders : loc[r] = k /\ loc[q] = k => r = q
        /\ \A r \in Holders : loc[r] = k
               => accepted[k] = 0 /\ (k \in used \/ expires[Of[k]] < now)
        /\ accepted[k] <= 1
        /\ accepted[k] > 0 => k \in used \/ expires[Of[k]] < now \/ Of[k] \notin signed

PowInv == DrawnInv /\ ReservationInv /\ NoneLeftBehind

\* Making room only removes entries.
LEMMA RoomInSubset ==
    ASSUME NEW S, NEW kept, RoomIn(S, kept)
    PROVE  kept \subseteq S
  BY DEF RoomIn, Oldest

\* Every step of a request keeps the types.
LEMMA TypeStep ==
    ASSUME TypeOK, DrawnInv, NEW r \in Requests, Step(r)
    PROVE  TypeOK'
  <1> USE LimitsAssumption, LevelsAssumption DEF Goto, Done, Labels, history
  <1>1. CASE GenerateRead(r)
    BY <1>1 DEF GenerateRead, Difficulty, TypeOK
  <1>2. CASE GenerateStamp(r)
    <2>1. Expiry \in Nat
      BY DEF Expiry, TypeOK
    <2> QED
      BY <1>2, <2>1 DEF GenerateStamp, TypeOK
  <1>3. CASE Submit(r)
    BY <1>3 DEF Submit, TypeOK
  <1>4. CASE ReserveRefused(r) \/ Refuse(r)
    BY <1>4 DEF ReserveRefused, Refuse, TypeOK
  <1>5. CASE Reserve(r)
    <2>1. loc[r] \in Keys
      BY <1>5 DEF Reserve, DrawnInv, TypeOK
    <2>2. PICK kept \in SUBSET used :
              /\ used' = kept \cup {loc[r]}
              /\ lapsed' = lapsed \cup (Retained \ kept)
                                  \cup {k \in {loc[r]} : expires[Of[k]] < now}
      BY <1>5 DEF Reserve
    <2>3. used' \in SUBSET Keys /\ lapsed' \in SUBSET Keys
      BY <2>1, <2>2 DEF Retained, TypeOK
    <2> QED
      BY <1>5, <2>3 DEF Reserve, TypeOK
  <1>6. CASE Accept(r)
    <2>1. \A n \in Nat : Counted(n) \in Nat
      BY DEF Counted
    <2> QED
      BY <1>6, <2>1 DEF Accept, TypeOK
  <1>7. CASE Rollback(r)
    BY <1>7 DEF Rollback, RolledBack, TypeOK
  <1>8. CASE Abandon(r)
    <2>1. burned' \in SUBSET Keys
      BY <1>8 DEF Abandon, DrawnInv, TypeOK
    <2> QED
      BY <1>8, <2>1 DEF Abandon, TypeOK
  <1> QED
    BY <1>1, <1>2, <1>3, <1>4, <1>5, <1>6, <1>7, <1>8 DEF Step

\* Drawing a challenge touches none that is in use.
LEMMA StampStep ==
    ASSUME TypeOK, PowInv, NEW r \in Requests, GenerateStamp(r)
    PROVE  PowInv'
  <1>1. PICK c \in Challenges \ drawn :
            /\ drawn' = drawn \cup {c} /\ signed' = signed \cup {c}
            /\ expires' = [expires EXCEPT ![c] = Expiry]
    BY DEF GenerateStamp
  <1>2. /\ Holders' = Holders /\ \A q \in Holders : loc'[q] = loc[q]
        /\ UNCHANGED <<used, now, accepted, lapsed, burned>>
        /\ \A q \in Requests : pc'[q] # "idle" => loc'[q] = loc[q] /\ pc'[q] = pc[q]
    BY DEF GenerateStamp, Goto, Done, Holders, TypeOK, history
  <1>3. \A k \in Keys : Of[k] = c => /\ k \notin used /\ accepted[k] = 0
                                     /\ \A q \in Holders : loc[q] # k
    BY <1>1 DEF PowInv, DrawnInv, Holders, TypeOK
  <1>4. \A k \in Keys : Of[k] # c => expires'[Of[k]] = expires[Of[k]]
    BY <1>1, KeysAssumption DEF TypeOK
  <1>5. DrawnInv'
    BY <1>1, <1>2 DEF PowInv, DrawnInv
  <1>6. ReservationInv'
    <2> SUFFICES ASSUME NEW k \in Keys \ lapsed'
                 PROVE  /\ \A s, q \in Holders : loc[s] = k /\ loc[q] = k => s = q
                        /\ \A q \in Holders : loc[q] = k => accepted[k] = 0
                               /\ (k \in used \/ expires'[Of[k]] < now)
                        /\ accepted[k] <= 1
                        /\ accepted[k] > 0 => \/ k \in used \/ expires'[Of[k]] < now
                                             \/ Of[k] \notin signed'
      BY <1>2 DEF ReservationInv
    <2>1. CASE Of[k] = c
      BY <1>2, <1>3, <2>1
    <2>2. CASE Of[k] # c
      BY <1>1, <1>2, <1>4, <2>2 DEF PowInv, ReservationInv
    <2> QED
      BY <2>1, <2>2
  <1>7. \A k \in Keys : Reserving(k) => Reserving(k)'
    BY <1>2 DEF Reserving, Holders
  <1>8. NoneLeftBehind'
    BY <1>2, <1>7 DEF PowInv, NoneLeftBehind, TypeOK
  <1> QED
    BY <1>5, <1>6, <1>8 DEF PowInv

\* A step that neither reserves, accepts nor releases keeps the invariant.
LEMMA FrameStep ==
    ASSUME TypeOK, PowInv, NEW r \in Requests,
           GenerateRead(r) \/ Submit(r) \/ ReserveRefused(r) \/ Refuse(r)
    PROVE  PowInv'
  <1>1. /\ Holders' = Holders /\ \A q \in Holders : loc'[q] = loc[q]
        /\ UNCHANGED <<used, now, expires, drawn, signed, accepted, lapsed, burned>>
    BY DEF GenerateRead, Submit, ReserveRefused, Refuse, Goto, Done, Holders,
           TypeOK, history
  <1>2. \A q \in Requests : pc'[q] \in {"reserve", "difficulty", "rollback"}
            => loc'[q] \in Keys /\ Of[loc'[q]] \in signed
    BY DEF GenerateRead, Submit, ReserveRefused, Refuse, Goto, Done, TypeOK,
           PowInv, DrawnInv
  <1>3. DrawnInv'
    BY <1>1, <1>2 DEF PowInv, DrawnInv
  <1>4. ReservationInv'
    BY <1>1 DEF PowInv, ReservationInv
  <1>5. \A d \in Keys : Reserving(d) => Reserving(d)'
    BY <1>1 DEF Reserving, Holders
  <1>6. NoneLeftBehind'
    BY <1>1, <1>5 DEF PowInv, NoneLeftBehind, TypeOK
  <1> QED
    BY <1>3, <1>4, <1>6 DEF PowInv

\* A reservation: the challenge was neither held nor accepted, unless it has
\* expired; what the map drops has expired or lapsed.
LEMMA ReserveStep ==
    ASSUME TypeOK, PowInv, NEW r \in Requests, Reserve(r)
    PROVE  PowInv'
  <1> DEFINE d == loc[r]
  <1>1. PICK kept \in SUBSET used :
            /\ RoomIn(Retained, kept)
            /\ used' = kept \cup {d}
            /\ lapsed' = lapsed \cup (Retained \ kept)
                                \cup {k \in {d} : expires[Of[k]] < now}
    BY DEF Reserve
  <1>2. /\ Holders' = Holders \cup {r} /\ r \notin Holders /\ loc' = loc
        /\ UNCHANGED <<now, expires, drawn, signed, accepted, burned>>
        /\ d \in Keys /\ Of[d] \in signed /\ d \notin used
    BY DEF Reserve, Goto, Holders, TypeOK, Taken, PowInv, DrawnInv
  <1>3. kept \subseteq Retained /\ kept \subseteq used
    BY <1>1, RoomInSubset
  <1>4. \A k \in Keys \ lapsed' :
            k \in used => k \in kept \/ expires[Of[k]] < now
    <2>1. \A k \in Keys : expires[Of[k]] \in Nat
      BY KeysAssumption DEF TypeOK
    <2> QED
      BY <1>1, <2>1 DEF Retained, TypeOK
  <1>5. \A k \in Keys \ lapsed' : k = d => ~(expires[Of[k]] < now)
    BY <1>1
  <1> HIDE DEF d
  <1>6. DrawnInv'
    <2>1. \A q \in Requests : pc'[q] \in {"reserve", "difficulty", "rollback"}
              => loc'[q] \in Keys /\ Of[loc'[q]] \in signed
      BY <1>2 DEF Reserve, Goto, TypeOK, PowInv, DrawnInv, d
    <2>2. \A k \in used' : Of[k] \in drawn
      BY <1>1, <1>2 DEF PowInv, DrawnInv, TypeOK
    <2> QED
      BY <1>2, <2>1, <2>2 DEF PowInv, DrawnInv
  <1>7. ReservationInv'
    <2> SUFFICES ASSUME NEW k \in Keys \ lapsed'
                 PROVE  /\ \A s, q \in Holders' : loc[s] = k /\ loc[q] = k => s = q
                        /\ \A q \in Holders' : loc[q] = k
                               => accepted[k] = 0 /\ (k \in used' \/ expires[Of[k]] < now)
                        /\ accepted[k] <= 1
                        /\ accepted[k] > 0
                               => k \in used' \/ expires[Of[k]] < now \/ Of[k] \notin signed
      BY <1>2 DEF ReservationInv
    <2>1. /\ \A s, q \in Holders : loc[s] = k /\ loc[q] = k => s = q
          /\ \A q \in Holders : loc[q] = k
                 => accepted[k] = 0 /\ (k \in used \/ expires[Of[k]] < now)
          /\ accepted[k] <= 1
          /\ accepted[k] > 0 => k \in used \/ expires[Of[k]] < now \/ Of[k] \notin signed
          /\ accepted[k] \in Nat
      BY <1>1 DEF PowInv, ReservationInv, TypeOK
    <2>2. CASE k = d
      <3>1. ~(expires[Of[k]] < now) /\ k \notin used /\ Of[k] \in signed /\ k \in used'
        BY <1>1, <1>2, <1>5, <2>2
      <3>2. accepted[k] = 0 /\ \A q \in Holders : loc[q] # k
        BY <2>1, <3>1
      <3> QED
        BY <1>2, <3>1, <3>2
    <2>3. CASE k # d
      <3>1. k \in used => k \in used' \/ expires[Of[k]] < now
        BY <1>1, <1>4
      <3>2. \A q \in Holders' : loc[q] = k => q \in Holders
        BY <1>2, <2>3 DEF d
      <3> QED
        BY <2>1, <3>1, <3>2
    <2> QED
      BY <2>2, <2>3
  <1>8. NoneLeftBehind'
    <2>1. \A k \in Keys : Reserving(k) => Reserving(k)'
      BY <1>2 DEF Reserving, Holders
    <2>2. \A k \in Keys : k = d => Reserving(k)'
      BY <1>2 DEF Reserving, Holders, d
    <2> QED
      BY <1>1, <1>2, <2>1, <2>2 DEF PowInv, NoneLeftBehind, TypeOK
  <1> QED
    BY <1>6, <1>7, <1>8 DEF PowInv

\* Accepting, rolling back or hanging up ends a holder.
LEMMA ReleaseStep ==
    ASSUME TypeOK, PowInv, NEW r \in Requests, Accept(r) \/ Rollback(r) \/ Abandon(r)
    PROVE  PowInv'
  <1> DEFINE d == loc[r]
  <1>1. /\ Holders' = Holders \ {r} /\ \A q \in Holders' : loc'[q] = loc[q]
        /\ UNCHANGED <<now, expires, drawn, signed, lapsed>>
        /\ \A q \in Requests : pc'[q] # "idle" => loc'[q] = loc[q] /\ pc'[q] = pc[q]
    BY DEF Accept, Rollback, Abandon, Goto, Done, Holders, TypeOK, history
  <1>2. r \in Holders => d \in Keys /\ Of[d] \in drawn
    BY DEF PowInv, DrawnInv, Holders, TypeOK
  <1>3. CASE Accept(r)
    <2>1. /\ r \in Holders /\ used' = used /\ burned' = burned
          /\ accepted' = [accepted EXCEPT ![d] = Counted(@)]
      BY <1>3 DEF Accept, Holders
    <2>2. /\ \A k \in Keys : k # d => accepted'[k] = accepted[k]
          /\ accepted'[d] > 0
          /\ accepted[d] = 0 => accepted'[d] = 1
      BY <1>2, <2>1, LimitsAssumption DEF Counted, TypeOK
    <2> HIDE DEF d
    <2>3. DrawnInv'
      BY <1>1, <1>2, <2>1, <2>2 DEF PowInv, DrawnInv
    <2>4. ReservationInv'
      <3> SUFFICES ASSUME NEW k \in Keys \ lapsed
                   PROVE  /\ \A s, q \in Holders' : loc[s] = k /\ loc[q] = k => s = q
                          /\ \A q \in Holders' : loc[q] = k
                                 => accepted'[k] = 0 /\ (k \in used \/ expires[Of[k]] < now)
                          /\ accepted'[k] <= 1
                          /\ accepted'[k] > 0
                                 => k \in used \/ expires[Of[k]] < now \/ Of[k] \notin signed
        BY <1>1, <2>1 DEF ReservationInv
      <3>1. CASE k = d
        <4>1. accepted'[k] = 1 /\ (k \in used \/ expires[Of[k]] < now)
          BY <2>1, <2>2, <3>1 DEF PowInv, ReservationInv, d
        <4>2. \A q \in Holders' : loc[q] # k
          BY <1>1, <2>1, <3>1 DEF PowInv, ReservationInv, d
        <4> QED
          BY <4>1, <4>2
      <3>2. CASE k # d
        BY <1>1, <2>2, <3>2 DEF PowInv, ReservationInv
      <3> QED
        BY <3>1, <3>2
    <2>5. NoneLeftBehind'
      <3>1. \A k \in Keys : k # d /\ Reserving(k) => Reserving(k)'
        BY <1>1 DEF Reserving, Holders, d
      <3> QED
        BY <2>1, <2>2, <3>1 DEF PowInv, NoneLeftBehind, TypeOK
    <2> QED
      BY <2>3, <2>4, <2>5 DEF PowInv
  <1>4. CASE Rollback(r)
    <2>1. /\ r \in Holders /\ used' = used \ {d} /\ burned' = burned
          /\ accepted' = accepted
      BY <1>4 DEF Rollback, RolledBack, Holders, history
    <2> HIDE DEF d
    <2>2. DrawnInv'
      BY <1>1, <2>1 DEF PowInv, DrawnInv
    <2>3. ReservationInv'
      <3> SUFFICES ASSUME NEW k \in Keys \ lapsed
                   PROVE  /\ \A s, q \in Holders' : loc[s] = k /\ loc[q] = k => s = q
                          /\ \A q \in Holders' : loc[q] = k
                                 => accepted[k] = 0 /\ (k \in used' \/ expires[Of[k]] < now)
                          /\ accepted[k] <= 1
                          /\ accepted[k] > 0
                                 => k \in used' \/ expires[Of[k]] < now \/ Of[k] \notin signed
        BY <1>1, <2>1 DEF ReservationInv
      <3>1. CASE k = d
        <4>1. accepted[k] = 0
          BY <2>1, <3>1 DEF PowInv, ReservationInv, d
        <4>2. \A q \in Holders' : loc[q] # k
          BY <1>1, <2>1, <3>1 DEF PowInv, ReservationInv, d
        <4> QED
          BY <4>1, <4>2
      <3>2. CASE k # d
        BY <1>1, <2>1, <3>2 DEF PowInv, ReservationInv
      <3> QED
        BY <3>1, <3>2
    <2>4. NoneLeftBehind'
      <3>1. \A k \in Keys : k # d /\ Reserving(k) => Reserving(k)'
        BY <1>1 DEF Reserving, Holders, d
      <3> QED
        BY <2>1, <3>1 DEF PowInv, NoneLeftBehind, TypeOK
    <2> QED
      BY <2>2, <2>3, <2>4 DEF PowInv
  <1>5. CASE Abandon(r)
    <2>1. /\ used' = used /\ accepted' = accepted
          /\ burned' = burned \cup {k \in {d} : pc[r] = "difficulty"}
          /\ pc[r] \in {"stamp", "difficulty"}
      BY <1>5 DEF Abandon
    <2> HIDE DEF d
    <2>2. DrawnInv'
      BY <1>1, <2>1 DEF PowInv, DrawnInv
    <2>3. ReservationInv'
      BY <1>1, <2>1 DEF PowInv, ReservationInv
    <2>4. NoneLeftBehind'
      <3>1. \A k \in Keys : k \notin burned' /\ Reserving(k) => Reserving(k)'
        BY <1>1, <2>1 DEF Reserving, Holders, d
      <3> QED
        BY <2>1, <3>1 DEF PowInv, NoneLeftBehind, TypeOK
    <2> QED
      BY <2>2, <2>3, <2>4 DEF PowInv
  <1> QED
    BY <1>3, <1>4, <1>5

\* The types and the invariant hold in every reachable state.
LEMMA PowInvariant == Spec => [](TypeOK /\ PowInv)
  <1>1. Init => TypeOK /\ PowInv
    BY LevelsAssumption, LimitsAssumption
       DEF Init, TypeOK, Labels, PowInv, DrawnInv, ReservationInv, Holders,
           NoneLeftBehind
  <1>2. TypeOK /\ PowInv /\ [Next]_vars => TypeOK' /\ PowInv'
    <2> SUFFICES ASSUME TypeOK, PowInv, [Next]_vars
                 PROVE  TypeOK' /\ PowInv'
      OBVIOUS
    <2>1. ASSUME NEW r \in Requests, Step(r)
          PROVE  TypeOK' /\ PowInv'
      BY <2>1, TypeStep, StampStep, FrameStep, ReserveStep, ReleaseStep
         DEF Step, PowInv
    <2>2. CASE Configure \/ UNCHANGED vars
      BY <2>2 DEF Configure, vars, history, TypeOK, PowInv, DrawnInv,
                  ReservationInv, Holders, NoneLeftBehind, Reserving
    <2>3. CASE Restart
      BY <2>3, LevelsAssumption
         DEF Restart, history, TypeOK, Labels, PowInv, DrawnInv, ReservationInv,
             Holders, NoneLeftBehind
    <2>4. CASE Tick
      <3>1. TypeOK'
        BY <2>4, LimitsAssumption DEF Tick, history, TypeOK
      <3>2. DrawnInv' /\ NoneLeftBehind'
        BY <2>4 DEF Tick, history, PowInv, DrawnInv, NoneLeftBehind, Reserving
      <3>3. \A k \in Keys : expires[Of[k]] < now => expires'[Of[k]] < now'
        BY <2>4, KeysAssumption DEF Tick, TypeOK
      <3>4. ReservationInv'
        BY <2>4, <3>3 DEF Tick, history, PowInv, ReservationInv, Holders
      <3> QED
        BY <3>1, <3>2, <3>4 DEF PowInv
    <2> QED
      BY <2>1, <2>2, <2>3, <2>4 DEF Next
  <1> QED
    BY <1>1, <1>2, PTL DEF Spec

\* Every reachable state of the manager is well typed.
THEOREM TypeCorrect == Spec => []TypeOK
  BY PowInvariant, PTL

\* In each spelling of its signature a challenge is accepted at most once, unless
\* that key was evicted or reserved after its expiry (the reservation of verify).
THEOREM AcceptedOnceSafe == Spec => []AcceptedOnceWhileKept
  <1>1. PowInv => AcceptedOnceWhileKept
    BY DEF PowInv, ReservationInv, AcceptedOnceWhileKept
  <1> QED
    BY <1>1, PowInvariant, PTL

\* Every entry of the map was accepted, is being verified, or belonged to a
\* client that hung up (the roll-backs of verify).
THEOREM NoneLeftBehindSafe == Spec => []NoneLeftBehind
  <1>1. PowInv => NoneLeftBehind
    BY DEF PowInv
  <1> QED
    BY <1>1, PowInvariant, PTL

-----------------------------------------------------------------------------
(***************************************************************************)
(* The size of the map.                                                    *)
(***************************************************************************)
UsedInv == IsFiniteSet(used) /\ Cardinality(used) <= MaxUsed

\* The map never holds more than MAX_USED_CHALLENGES entries.
THEOREM UsedSafe == Spec => []UsedBounded
  <1>1. Init => UsedInv
    BY FS_EmptySet, LimitsAssumption DEF Init, UsedInv
  <1>2. UsedInv /\ [Next]_vars => UsedInv'
    <2> SUFFICES ASSUME UsedInv, [Next]_vars
                 PROVE  UsedInv'
      OBVIOUS
    <2>1. ASSUME NEW r \in Requests, Reserve(r)
          PROVE  UsedInv'
      <3>1. PICK kept : RoomIn(Retained, kept) /\ used' = kept \cup {loc[r]}
        BY <2>1 DEF Reserve
      <3>2. /\ IsFiniteSet(Retained) /\ Cardinality(Retained) <= MaxUsed
            /\ Cardinality(Retained) \in Nat /\ MaxUsed \in Nat
        BY FS_Subset, FS_CardinalityType, LimitsAssumption DEF UsedInv, Retained
      <3>3. IsFiniteSet(kept) /\ Cardinality(kept) <= MaxUsed - 1
        <4>1. CASE Cardinality(Retained) >= MaxUsed
          <5>1. PICK c \in Oldest(Retained) : kept = Retained \ {c}
            BY <3>1, <4>1 DEF RoomIn
          <5>2. c \in Retained
            BY DEF Oldest
          <5>3. IsFiniteSet(kept) /\ Cardinality(kept) = Cardinality(Retained) - 1
            BY <3>2, <5>1, <5>2, FS_RemoveElement
          <5> QED
            BY <3>2, <5>3
        <4>2. CASE ~(Cardinality(Retained) >= MaxUsed)
          BY <3>1, <3>2, <4>2 DEF RoomIn
        <4> QED
          BY <4>1, <4>2
      <3>4. /\ IsFiniteSet(used') /\ Cardinality(used') <= Cardinality(kept) + 1
            /\ Cardinality(used') \in Nat /\ Cardinality(kept) \in Nat
        BY <3>1, <3>3, FS_AddElement, FS_CardinalityType
      <3> QED
        BY <3>2, <3>3, <3>4 DEF UsedInv
    <2>2. ASSUME used' \subseteq used
          PROVE  UsedInv'
      <3>1. /\ IsFiniteSet(used') /\ Cardinality(used') <= Cardinality(used)
            /\ Cardinality(used') \in Nat /\ Cardinality(used) \in Nat
        BY <2>2, FS_Subset, FS_CardinalityType DEF UsedInv
      <3> QED
        BY <3>1, LimitsAssumption DEF UsedInv
    <2>3. (\E r \in Requests : Reserve(r)) \/ used' \subseteq used
      BY DEF Next, Step, GenerateRead, GenerateStamp, Submit, ReserveRefused,
             Accept, Refuse, Rollback, RolledBack, Abandon, Configure, Restart,
             Tick, vars
    <2> QED
      BY <2>1, <2>2, <2>3
  <1>3. UsedInv => UsedBounded
    BY DEF UsedInv, UsedBounded
  <1> QED
    BY <1>1, <1>2, <1>3, PTL DEF Spec

=============================================================================
