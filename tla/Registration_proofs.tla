------------------------ MODULE Registration_proofs ------------------------
(***************************************************************************)
(* Theorems about registration and invites, for every number of requests,  *)
(* names, codes and connections, whether or not the settings can be read.  *)
(***************************************************************************)
EXTENDS Registration, TLAPS, FiniteSetTheorems

\* Requests whose transaction holds a username, and those that hold an invite.
HoldsName == {r \in Requests : pc[r] \in {"redeem", "commit"}}
HoldsRow == {r \in Requests : pc[r] = "commit"}

\* The name held by an open transaction is nobody's yet and held by no other.
NamesHeld ==
    /\ \A r \in HoldsName : loc[r].via \in Codes /\ ~Taken(loc[r].name)
    /\ \A r, q \in HoldsName : loc[r].name = loc[q].name => r = q

\* The invite about to be counted is held by no other, not revoked, and has a
\* use left.
RowsHeld ==
    /\ \A r \in HoldsRow : /\ invites[loc[r].via].count < invites[loc[r].via].max
                           /\ ~invites[loc[r].via].revoked
    /\ \A r, q \in HoldsRow : loc[r].via = loc[q].via => r = q

RegistrationInv ==
    /\ NamesHeld /\ RowsHeld
    /\ IsFiniteSet(users) /\ OneAccountPerName /\ InviteAccounted

-----------------------------------------------------------------------------
(***************************************************************************)
(* Types.                                                                  *)
(***************************************************************************)

\* The locals of a request that has none are well typed.
LEMMA NoLocalsType == NoLocals \in Locals
  BY DEF NoLocals, Locals

\* Every step of a request keeps the types.
LEMMA TypeStep ==
    ASSUME TypeOK, NEW r \in Requests, ReadMode(r) \/ Serve(r) \/ Abandon(r)
    PROVE  TypeOK'
  <1> USE PolicyAssumption, NoLocalsType DEF Goto, Carry, Done, policy
  <1>1. CASE ReadMode(r)
    <2>1. PICK n \in Names, c \in Codes \cup {None},
               m \in {mode} \cup (IF DbMayFail THEN {"invite"} ELSE {}) :
              IF m = "closed"
              THEN Done(r)
              ELSE /\ Goto(r, "setting")
                   /\ Carry(r, [loc[r] EXCEPT !.name = n, !.via = c, !.mode = m])
      BY <1>1 DEF ReadMode
    <2>4. m \in {"open", "invite", "closed"}
      BY <2>1 DEF TypeOK
    <2>2. [loc[r] EXCEPT !.name = n, !.via = c, !.mode = m] \in Locals
      BY <2>4 DEF TypeOK, Locals
    <2>3. [loc[r] EXCEPT !.name = n, !.via = c, !.mode = m].name = n
      BY DEF TypeOK, Locals
    <2> HIDE DEF Locals, NoLocals
    <2> QED
      BY <1>1, <2>1, <2>2, <2>3 DEF ReadMode, TypeOK, Labels
  <1>2. CASE ReadSetting(r)
    <2>1. PICK c \in Codes \cup {None} :
              \/ Done(r)
              \/ Goto(r, "begin") /\ Carry(r, [loc[r] EXCEPT !.via = c])
      BY <1>2 DEF ReadSetting, TypeOK, Locals
    <2>2. /\ [loc[r] EXCEPT !.via = c] \in Locals
          /\ [loc[r] EXCEPT !.via = c].name = loc[r].name
      BY DEF TypeOK, Locals
    <2> QED
      BY <1>2, <2>1, <2>2 DEF ReadSetting, TypeOK, Labels
  <1>3. CASE Begin(r)
    <2>1. /\ [loc[r] EXCEPT !.at = now] \in Locals
          /\ [loc[r] EXCEPT !.at = now].name = loc[r].name
      BY DEF TypeOK, Locals
    <2> QED
      BY <1>3, <2>1 DEF Begin, TypeOK, Labels
  <1>4. CASE NameRefused(r) \/ InviteRefused(r) \/ Abandon(r)
    BY <1>4 DEF NameRefused, InviteRefused, Abandon, TypeOK, Labels
  <1>5. CASE InsertUser(r) \/ RedeemInvite(r)
    BY <1>5 DEF InsertUser, RedeemInvite, TypeOK, Labels
  <1>6. CASE CreateUser(r)
    BY <1>6 DEF CreateUser, TypeOK, Labels, User
  <1>7. CASE Commit(r)
    <2>1. [name |-> loc[r].name, via |-> loc[r].via] \in User
      BY <1>7 DEF Commit, TypeOK, Locals, User
    <2>2. [invites EXCEPT ![loc[r].via].count = @ + 1] \in [Codes -> Invite]
      <3> SUFFICES ASSUME NEW c \in Codes
                   PROVE  [invites EXCEPT ![loc[r].via].count = @ + 1][c] \in Invite
        BY DEF TypeOK
      <3>1. invites[c] \in Invite /\ invites[c].count + 1 \in Nat
        BY DEF TypeOK, Invite
      <3>2. [invites[c] EXCEPT !.count = @ + 1] \in Invite
        BY <3>1 DEF Invite
      <3> QED
        BY <3>1, <3>2 DEF TypeOK
    <2> QED
      BY <1>7, <2>1, <2>2 DEF Commit, TypeOK, Labels
  <1>8. CASE OpenSession(r)
    BY <1>8 DEF OpenSession, TypeOK, Labels
  <1> QED
    BY <1>1, <1>2, <1>3, <1>4, <1>5, <1>6, <1>7, <1>8 DEF Serve

\* Every reachable state of the registration is well typed.
THEOREM TypeCorrect == Spec => []TypeOK
  <1>1. Init => TypeOK
    <2> SUFFICES ASSUME Init
                 PROVE  TypeOK
      OBVIOUS
    <2>1. invites \in [Codes -> Invite]
      BY LimitsAssumption DEF Init, Invite, Never
    <2>2. loc \in [Requests -> Locals] /\ pc \in [Requests -> Labels]
      BY NoLocalsType DEF Init, Labels
    <2>3. \A r \in Requests : pc[r] = "new"
      BY DEF Init
    <2>4. now \in 0..MaxTime /\ users \in SUBSET User /\ sessioned \in SUBSET Names
      BY LimitsAssumption DEF Init
    <2>5. mode \in Modes /\ inviteOn \in Switches
      BY DEF Init
    <2> QED
      BY <2>1, <2>2, <2>3, <2>4, <2>5 DEF TypeOK
  <1>2. TypeOK /\ [Next]_vars => TypeOK'
    <2> SUFFICES ASSUME TypeOK, [Next]_vars
                 PROVE  TypeOK'
      OBVIOUS
    <2>1. CASE \E r \in Requests : ReadMode(r) \/ Serve(r) \/ Abandon(r)
      BY <2>1, TypeStep
    <2>2. CASE CreateInvite
      <3>1. PICK c \in Codes, m \in MaxUses, days \in 0..MaxTime :
                invites' = [invites EXCEPT ![c].max = m, ![c].expires = ExpiresAt(days)]
        BY <2>2 DEF CreateInvite
      <3>2. ExpiresAt(days) \in 1..Never
        BY LimitsAssumption DEF ExpiresAt, Never, TypeOK
      <3>3. invites' \in [Codes -> Invite]
        BY <3>1, <3>2 DEF TypeOK, Invite
      <3> QED
        BY <2>2, <3>3 DEF CreateInvite, TypeOK, policy
    <2>3. CASE RevokeInvite
      <3>1. invites' \in [Codes -> Invite]
        BY <2>3 DEF RevokeInvite, TypeOK, Invite
      <3> QED
        BY <2>3, <3>1 DEF RevokeInvite, TypeOK, policy
    <2>4. CASE SetMode \/ SetSwitch
      BY <2>4 DEF SetMode, SetSwitch, TypeOK
    <2>5. CASE Tick
      BY <2>5, LimitsAssumption DEF Tick, TypeOK, policy
    <2>6. CASE UNCHANGED vars
      BY <2>6 DEF vars, TypeOK
    <2> QED
      BY <2>1, <2>2, <2>3, <2>4, <2>5, <2>6 DEF Next, Administer
  <1> QED
    BY <1>1, <1>2, PTL DEF Spec

-----------------------------------------------------------------------------
(***************************************************************************)
(* Who holds what.                                                         *)
(***************************************************************************)

\* A request that takes no lock leaves the holders and the tables alone.
LEMMA ReleaseStep ==
    ASSUME TypeOK, RegistrationInv, NEW r \in Requests,
           UNCHANGED <<users, invites>>,
           pc' = [pc EXCEPT ![r] = pc'[r]], loc' = [loc EXCEPT ![r] = loc'[r]],
           pc'[r] \notin {"redeem", "commit"}
    PROVE  RegistrationInv'
  <1>1. /\ HoldsName' \subseteq HoldsName /\ HoldsRow' \subseteq HoldsRow
        /\ \A q \in HoldsName' : loc'[q] = loc[q] /\ q # r
        /\ HoldsRow' \subseteq HoldsName'
    BY DEF HoldsName, HoldsRow, TypeOK
  <1>2. NamesHeld'
    BY <1>1 DEF RegistrationInv, NamesHeld, Taken
  <1>3. RowsHeld'
    BY <1>1 DEF RegistrationInv, RowsHeld
  <1> QED
    BY <1>2, <1>3 DEF RegistrationInv, OneAccountPerName, InviteAccounted, Registered

\* The INSERT of a transaction takes the name.
LEMMA InsertStep ==
    ASSUME TypeOK, RegistrationInv, NEW r \in Requests, InsertUser(r)
    PROVE  RegistrationInv'
  <1>1. /\ HoldsName' = HoldsName \cup {r} /\ HoldsRow' = HoldsRow /\ loc' = loc
        /\ UNCHANGED <<users, invites>>
    BY DEF InsertUser, Goto, HoldsName, HoldsRow, TypeOK
  <1>2. /\ loc[r].via \in Codes /\ ~Taken(loc[r].name)
        /\ \A q \in HoldsName : loc[q].name # loc[r].name
    BY DEF InsertUser, NameHeld, HoldsName, TypeOK, Locals
  <1>3. NamesHeld'
    BY <1>1, <1>2 DEF RegistrationInv, NamesHeld, Taken
  <1>4. RowsHeld'
    BY <1>1 DEF RegistrationInv, RowsHeld
  <1> QED
    BY <1>1, <1>3, <1>4 DEF RegistrationInv, OneAccountPerName, InviteAccounted,
                            Registered

\* The UPDATE of a transaction takes the invite row.
LEMMA RedeemStep ==
    ASSUME TypeOK, RegistrationInv, NEW r \in Requests, RedeemInvite(r)
    PROVE  RegistrationInv'
  <1>1. /\ HoldsName' = HoldsName /\ HoldsRow' = HoldsRow \cup {r} /\ loc' = loc
        /\ UNCHANGED <<users, invites>>
    BY DEF RedeemInvite, Goto, HoldsName, HoldsRow, TypeOK
  <1>2. /\ invites[loc[r].via].count < invites[loc[r].via].max
        /\ ~invites[loc[r].via].revoked
        /\ \A q \in HoldsRow : loc[q].via # loc[r].via
    BY DEF RedeemInvite, Usable, RowHeld, HoldsRow
  <1>3. NamesHeld'
    BY <1>1 DEF RegistrationInv, NamesHeld, Taken
  <1>4. RowsHeld'
    BY <1>1, <1>2 DEF RegistrationInv, RowsHeld
  <1> QED
    BY <1>1, <1>3, <1>4 DEF RegistrationInv, OneAccountPerName, InviteAccounted,
                            Registered

\* An account inserted without an invite: it takes a free name.
LEMMA CreateStep ==
    ASSUME TypeOK, RegistrationInv, NEW r \in Requests, CreateUser(r)
    PROVE  RegistrationInv'
  <1> DEFINE u == [name |-> loc[r].name, via |-> None]
  <1>1. /\ HoldsName' = HoldsName /\ HoldsRow' = HoldsRow /\ loc' = loc
        /\ users' = users \cup {u} /\ invites' = invites
    BY DEF CreateUser, Goto, HoldsName, HoldsRow, TypeOK
  <1>2. /\ ~Taken(loc[r].name) /\ u.name = loc[r].name /\ u.via = None
        /\ \A q \in HoldsName : loc[q].name # loc[r].name
    BY DEF CreateUser, NameHeld, HoldsName
  <1> HIDE DEF u
  <1>3. NamesHeld'
    BY <1>1, <1>2 DEF RegistrationInv, NamesHeld, Taken
  <1>4. RowsHeld'
    BY <1>1 DEF RegistrationInv, RowsHeld
  <1>5. IsFiniteSet(users')
    BY <1>1, FS_AddElement DEF RegistrationInv
  <1>6. OneAccountPerName'
    BY <1>1, <1>2 DEF RegistrationInv, OneAccountPerName, Taken
  <1>7. \A c \in Codes : Registered(c)' = Registered(c)
    BY <1>1, <1>2, NoneAssumption DEF Registered
  <1>8. InviteAccounted'
    BY <1>1, <1>7 DEF RegistrationInv, InviteAccounted
  <1> QED
    BY <1>3, <1>4, <1>5, <1>6, <1>8 DEF RegistrationInv

\* The commit inserts the account and counts the use together.
LEMMA CommitStep ==
    ASSUME TypeOK, RegistrationInv, NEW r \in Requests, Commit(r)
    PROVE  RegistrationInv'
  <1> DEFINE u == [name |-> loc[r].name, via |-> loc[r].via]
             d == loc[r].via
  <1>1. /\ HoldsName' = HoldsName \ {r} /\ HoldsRow' = HoldsRow \ {r} /\ loc' = loc
        /\ r \in HoldsName /\ r \in HoldsRow /\ HoldsRow \subseteq HoldsName
        /\ users' = users \cup {u}
    BY DEF Commit, Goto, HoldsName, HoldsRow, TypeOK
  <1>2. /\ d \in Codes /\ ~Taken(loc[r].name)
        /\ u.name = loc[r].name /\ u.via = d
        /\ \A q \in HoldsName \ {r} : loc[q].name # loc[r].name
        /\ \A q \in HoldsRow \ {r} : loc[q].via # d
        /\ invites[d].count < invites[d].max
    BY <1>1 DEF RegistrationInv, NamesHeld, RowsHeld
  <1>3. /\ invites'[d].count = invites[d].count + 1
        /\ invites'[d].max = invites[d].max
        /\ invites[d].count \in Nat /\ invites[d].max \in Int
        /\ \A c \in Codes : c # d => invites'[c] = invites[c]
    BY <1>2, LimitsAssumption DEF Commit, TypeOK, Invite
  <1> HIDE DEF u, d
  <1>4. NamesHeld'
    BY <1>1, <1>2 DEF RegistrationInv, NamesHeld, Taken
  <1>5. RowsHeld'
    <2> SUFFICES ASSUME NEW q \in HoldsRow'
                 PROVE  /\ invites'[loc[q].via].count < invites'[loc[q].via].max
                        /\ ~invites'[loc[q].via].revoked
      BY <1>1 DEF RegistrationInv, RowsHeld
    <2>1. q \in HoldsRow \ {r} /\ loc[q].via \in Codes /\ loc[q].via # d
      BY <1>1, <1>2 DEF RegistrationInv, NamesHeld
    <2> QED
      BY <1>3, <2>1 DEF RegistrationInv, RowsHeld
  <1>6. IsFiniteSet(users') /\ u \notin users
    BY <1>1, <1>2, FS_AddElement DEF RegistrationInv, Taken
  <1>7. OneAccountPerName'
    BY <1>1, <1>2 DEF RegistrationInv, OneAccountPerName, Taken
  <1>8. InviteAccounted'
    <2> SUFFICES ASSUME NEW c \in Codes
                 PROVE  /\ invites'[c].count = Cardinality(Registered(c)')
                        /\ invites'[c].count <= invites'[c].max
      BY DEF InviteAccounted, Registered
    <2>1. /\ invites[c].count = Cardinality(Registered(c))
          /\ invites[c].count <= invites[c].max
      BY DEF RegistrationInv, InviteAccounted
    <2>2. CASE c = d
      <3>1. Registered(c)' = Registered(c) \cup {u} /\ u \notin Registered(c)
        BY <1>1, <1>2, <1>6, <2>2 DEF Registered
      <3>2. IsFiniteSet(Registered(c))
        BY FS_Subset DEF RegistrationInv, Registered
      <3>3. Cardinality(Registered(c)') = Cardinality(Registered(c)) + 1
        BY <3>1, <3>2, FS_AddElement
      <3> QED
        BY <1>2, <1>3, <2>1, <2>2, <3>3
    <2>3. CASE c # d
      <3>1. Registered(c)' = Registered(c)
        BY <1>1, <1>2, <2>3 DEF Registered
      <3> QED
        BY <1>3, <2>1, <2>3, <3>1
    <2> QED
      BY <2>2, <2>3
  <1> QED
    BY <1>4, <1>5, <1>6, <1>7, <1>8 DEF RegistrationInv

\* A new invite has uses where it had none; nobody can hold its row.
LEMMA CreateInviteStep ==
    ASSUME TypeOK, RegistrationInv, CreateInvite
    PROVE  RegistrationInv'
  <1>1. PICK c \in Codes, m \in MaxUses, days \in 0..MaxTime :
            /\ invites[c].max = 0
            /\ invites' = [invites EXCEPT ![c].max = m,
                                          ![c].expires = ExpiresAt(days)]
    BY DEF CreateInvite
  <1>2. UNCHANGED <<users, HoldsName, HoldsRow, loc>> /\ HoldsRow \subseteq HoldsName
    BY DEF CreateInvite, HoldsName, HoldsRow
  <1>3. /\ invites'[c].count = invites[c].count /\ invites[c].count \in Nat
        /\ invites'[c].max = m /\ m \in Nat
        /\ \A e \in Codes : e # c => invites'[e] = invites[e]
    BY <1>1, LimitsAssumption DEF TypeOK, Invite
  <1>4. \A q \in HoldsRow : loc[q].via \in Codes \ {c}
    BY <1>1, <1>2, <1>3 DEF RegistrationInv, NamesHeld, RowsHeld
  <1>5. NamesHeld'
    BY <1>2 DEF RegistrationInv, NamesHeld, Taken
  <1>6. RowsHeld'
    BY <1>2, <1>3, <1>4 DEF RegistrationInv, RowsHeld
  <1>7. \A e \in Codes : Registered(e)' = Registered(e)
    BY <1>2 DEF Registered
  <1>8. invites[c].count = 0
    BY <1>1, <1>3 DEF RegistrationInv, InviteAccounted
  <1>9. InviteAccounted'
    BY <1>3, <1>7, <1>8 DEF RegistrationInv, InviteAccounted
  <1> QED
    BY <1>2, <1>5, <1>6, <1>9 DEF RegistrationInv, OneAccountPerName

\* Revoking waits until nobody holds the row.
LEMMA RevokeStep ==
    ASSUME TypeOK, RegistrationInv, RevokeInvite
    PROVE  RegistrationInv'
  <1>1. PICK c \in Codes :
            /\ ~RowHeld(c)
            /\ invites' = [invites EXCEPT ![c].revoked = TRUE]
    BY DEF RevokeInvite
  <1>2. UNCHANGED <<users, HoldsName, HoldsRow, loc>> /\ HoldsRow \subseteq HoldsName
    BY DEF RevokeInvite, HoldsName, HoldsRow
  <1>3. /\ invites'[c].count = invites[c].count /\ invites'[c].max = invites[c].max
        /\ \A e \in Codes : e # c => invites'[e] = invites[e]
    BY <1>1 DEF TypeOK, Invite
  <1>4. \A q \in HoldsRow : loc[q].via \in Codes \ {c}
    BY <1>1, <1>2 DEF RegistrationInv, NamesHeld, RowHeld, HoldsRow
  <1>5. NamesHeld'
    BY <1>2 DEF RegistrationInv, NamesHeld, Taken
  <1>6. RowsHeld'
    BY <1>2, <1>3, <1>4 DEF RegistrationInv, RowsHeld
  <1>7. \A e \in Codes : Registered(e)' = Registered(e)
    BY <1>2 DEF Registered
  <1>8. InviteAccounted'
    BY <1>3, <1>7 DEF RegistrationInv, InviteAccounted
  <1> QED
    BY <1>2, <1>5, <1>6, <1>8 DEF RegistrationInv, OneAccountPerName

\* Every step keeps the invariant.
LEMMA InvStep ==
    ASSUME TypeOK, RegistrationInv, [Next]_vars
    PROVE  RegistrationInv'
  <1>1. ASSUME NEW r \in Requests, ReadMode(r)
        PROVE  RegistrationInv'
    <2>1. /\ UNCHANGED <<users, invites>>
          /\ pc' = [pc EXCEPT ![r] = pc'[r]] /\ loc' = [loc EXCEPT ![r] = loc'[r]]
          /\ pc'[r] \notin {"redeem", "commit"}
      BY <1>1 DEF ReadMode, Goto, Carry, Done, TypeOK
    <2> QED
      BY <2>1, ReleaseStep
  <1>2. ASSUME NEW r \in Requests, ReadSetting(r)
        PROVE  RegistrationInv'
    <2>1. /\ UNCHANGED <<users, invites>>
          /\ pc' = [pc EXCEPT ![r] = pc'[r]] /\ loc' = [loc EXCEPT ![r] = loc'[r]]
          /\ pc'[r] \notin {"redeem", "commit"}
      BY <1>2 DEF ReadSetting, Goto, Carry, Done, TypeOK
    <2> QED
      BY <2>1, ReleaseStep
  <1>3. ASSUME NEW r \in Requests,
               Begin(r) \/ NameRefused(r) \/ InviteRefused(r) \/ OpenSession(r)
               \/ Abandon(r)
        PROVE  RegistrationInv'
    <2>1. /\ UNCHANGED <<users, invites>>
          /\ pc' = [pc EXCEPT ![r] = pc'[r]] /\ loc' = [loc EXCEPT ![r] = loc'[r]]
          /\ pc'[r] \notin {"redeem", "commit"}
      BY <1>3 DEF Begin, NameRefused, InviteRefused, OpenSession, Abandon, Goto,
                  Carry, Done, TypeOK
    <2> QED
      BY <2>1, ReleaseStep
  <1>4. CASE SetMode \/ SetSwitch \/ Tick \/ UNCHANGED vars
    BY <1>4 DEF SetMode, SetSwitch, Tick, vars, RegistrationInv, NamesHeld, RowsHeld,
                HoldsName, HoldsRow, Taken, OneAccountPerName, InviteAccounted,
                Registered
  <1> QED
    BY <1>1, <1>2, <1>3, <1>4, InsertStep, RedeemStep, CreateStep, CommitStep,
       CreateInviteStep, RevokeStep DEF Next, Serve, Administer

\* The invariant holds in every reachable state.
LEMMA RegistrationInvariant == Spec => [](TypeOK /\ RegistrationInv)
  <1>1. Init => RegistrationInv
    <2> SUFFICES ASSUME Init
                 PROVE  RegistrationInv
      OBVIOUS
    <2>1. HoldsName = {} /\ HoldsRow = {} /\ users = {}
      BY DEF Init, HoldsName, HoldsRow
    <2>2. IsFiniteSet(users) /\ \A c \in Codes : Registered(c) = {}
      BY <2>1, FS_EmptySet DEF Registered
    <2>3. InviteAccounted
      BY <2>2, FS_EmptySet DEF Init, InviteAccounted
    <2> QED
      BY <2>1, <2>2, <2>3 DEF RegistrationInv, NamesHeld, RowsHeld, OneAccountPerName
  <1>2. TypeOK /\ RegistrationInv /\ [Next]_vars => RegistrationInv'
    BY InvStep
  <1> QED
    BY <1>1, <1>2, TypeCorrect, PTL DEF Spec

\* The uses of an invite are the accounts registered with it, never more than
\* it allows (register_with_invite).
THEOREM InviteSafe == Spec => []InviteAccounted
  <1>1. RegistrationInv => InviteAccounted
    BY DEF RegistrationInv
  <1> QED
    BY <1>1, RegistrationInvariant, PTL

\* However registrations race, a name goes to one of them.
THEOREM NameSafe == Spec => []OneAccountPerName
  <1>1. RegistrationInv => OneAccountPerName
    BY DEF RegistrationInv
  <1> QED
    BY <1>1, RegistrationInvariant, PTL

\* A revoked code is used no more, not even by a transaction that was open when
\* it was revoked (revoke_invite waits for its row).
THEOREM RevokedSafe == Spec => RevokedFrozen
  <1>1. TypeOK /\ RegistrationInv /\ [Next]_vars
        => [\A c \in Codes : invites[c].revoked
                => invites'[c].count = invites[c].count]_vars
    <2> SUFFICES ASSUME TypeOK, RegistrationInv, [Next]_vars, NEW c \in Codes,
                        invites[c].revoked
                 PROVE  invites'[c].count = invites[c].count
      OBVIOUS
    <2>1. ASSUME NEW r \in Requests, Commit(r)
          PROVE  invites'[c].count = invites[c].count
      <3>1. loc[r].via # c
        BY <2>1 DEF Commit, RegistrationInv, RowsHeld, HoldsRow
      <3> QED
        BY <2>1, <3>1 DEF Commit, TypeOK
    <2>2. CASE CreateInvite \/ RevokeInvite
      <3>1. CASE CreateInvite
        <4>1. PICK d \in Codes, m \in MaxUses, days \in 0..MaxTime :
                  invites' = [invites EXCEPT ![d].max = m,
                                             ![d].expires = ExpiresAt(days)]
          BY <3>1 DEF CreateInvite
        <4> QED
          BY <4>1 DEF TypeOK, Invite
      <3>2. CASE RevokeInvite
        BY <3>2 DEF RevokeInvite, TypeOK, Invite
      <3> QED
        BY <2>2, <3>1, <3>2
    <2>3. CASE UNCHANGED invites
      BY <2>3
    <2>4. (\E r \in Requests : Commit(r)) \/ CreateInvite \/ RevokeInvite
          \/ UNCHANGED invites
      BY DEF Next, ReadMode, Serve, ReadSetting, Begin, NameRefused, InsertUser,
             CreateUser, InviteRefused, RedeemInvite, OpenSession, Abandon,
             Administer, SetMode, SetSwitch, Tick, vars
    <2> QED
      BY <2>1, <2>2, <2>3, <2>4
  <1> QED
    BY <1>1, RegistrationInvariant, PTL DEF Spec, RevokedFrozen

-----------------------------------------------------------------------------
(***************************************************************************)
(* A registration is one step.                                             *)
(***************************************************************************)

\* The statements that neither commit nor write an invite are none of the steps
\* promised.
LEMMA HiddenStep ==
    ASSUME UNCHANGED <<users, invites>>
    PROVE  UNCHANGED Atomic!vars
  BY DEF Atomic!vars, Uses

\* An account made without an invite.
LEMMA RegisterStep ==
    ASSUME TypeOK, NEW r \in Requests, CreateUser(r)
    PROVE  Atomic!Next
  <1>1. /\ loc[r].name \in Names /\ ~Taken(loc[r].name)
        /\ users' = users \cup {[name |-> loc[r].name, via |-> None]}
        /\ Uses' = Uses
    BY DEF CreateUser, TypeOK, Uses
  <1>2. Atomic!Register(loc[r].name)
    BY <1>1 DEF Atomic!Register, Atomic!Free, Taken
  <1> QED
    BY <1>1, <1>2 DEF Atomic!Next

\* The commit of register_with_invite: the name it holds is still free, and the
\* invite it holds has a use left and was not revoked.
LEMMA RegisterInvitedStep ==
    ASSUME TypeOK, RegistrationInv, NEW r \in Requests, Commit(r)
    PROVE  Atomic!Next
  <1> DEFINE n == loc[r].name
             c == loc[r].via
  <1>1. r \in HoldsName /\ r \in HoldsRow
    BY DEF Commit, HoldsName, HoldsRow
  <1>2. /\ n \in Names /\ c \in Codes /\ ~Taken(n)
        /\ invites[c].count < invites[c].max /\ ~invites[c].revoked
    BY <1>1 DEF RegistrationInv, NamesHeld, RowsHeld, HoldsName, TypeOK
  <1>3. /\ users' = users \cup {[name |-> n, via |-> c]}
        /\ invites' = [invites EXCEPT ![c].count = @ + 1]
    BY DEF Commit
  <1>4. ASSUME NEW d \in Codes
        PROVE  Uses'[d] = IF d = c THEN [Uses[c] EXCEPT !.count = @ + 1] ELSE Uses[d]
    <2>1. /\ invites'[d].max = invites[d].max
          /\ invites'[d].revoked = invites[d].revoked
          /\ invites'[d].count = IF d = c THEN invites[c].count + 1
                                 ELSE invites[d].count
      BY <1>2, <1>3 DEF TypeOK, Invite
    <2> QED
      BY <1>2, <2>1 DEF Uses
  <1>5. Uses' = [Uses EXCEPT ![c].count = @ + 1]
    BY <1>2, <1>4 DEF Uses
  <1>6. Uses[c].count < Uses[c].max /\ ~Uses[c].revoked
    BY <1>2 DEF Uses
  <1> HIDE DEF n, c
  <1>7. Atomic!RegisterInvited(n, c)
    BY <1>2, <1>3, <1>5, <1>6 DEF Atomic!RegisterInvited, Atomic!Free, Taken
  <1> QED
    BY <1>2, <1>7 DEF Atomic!Next

\* Invites that are made and revoked.
LEMMA InviteStep ==
    ASSUME TypeOK, CreateInvite \/ RevokeInvite
    PROVE  Atomic!Next
  <1>1. CASE CreateInvite
    <2>1. PICK c \in Codes, m \in MaxUses, days \in 0..MaxTime :
              /\ invites[c].max = 0 /\ users' = users
              /\ invites' = [invites EXCEPT ![c].max = m,
                                            ![c].expires = ExpiresAt(days)]
      BY <1>1 DEF CreateInvite
    <2>2. ASSUME NEW d \in Codes
          PROVE  Uses'[d] = IF d = c THEN [Uses[c] EXCEPT !.max = m] ELSE Uses[d]
      <3>1. /\ invites'[d].max = IF d = c THEN m ELSE invites[d].max
            /\ invites'[d].revoked = invites[d].revoked
            /\ invites'[d].count = invites[d].count
        BY <2>1 DEF TypeOK, Invite
      <3> QED
        BY <3>1 DEF Uses
    <2>3. Uses' = [Uses EXCEPT ![c].max = m] /\ Uses[c].max = 0
      BY <2>1, <2>2 DEF Uses
    <2>4. Atomic!Invite(c, m)
      BY <2>1, <2>3 DEF Atomic!Invite
    <2> QED
      BY <2>4 DEF Atomic!Next
  <1>2. CASE RevokeInvite
    <2>1. PICK c \in Codes :
              /\ invites[c].max > 0 /\ ~invites[c].revoked /\ users' = users
              /\ invites' = [invites EXCEPT ![c].revoked = TRUE]
      BY <1>2 DEF RevokeInvite
    <2>2. ASSUME NEW d \in Codes
          PROVE  Uses'[d] = IF d = c THEN [Uses[c] EXCEPT !.revoked = TRUE] ELSE Uses[d]
      <3>1. /\ invites'[d].max = invites[d].max
            /\ invites'[d].revoked = IF d = c THEN TRUE ELSE invites[d].revoked
            /\ invites'[d].count = invites[d].count
        BY <2>1 DEF TypeOK, Invite
      <3> QED
        BY <3>1 DEF Uses
    <2>3. /\ Uses' = [Uses EXCEPT ![c].revoked = TRUE]
          /\ Uses[c].max > 0 /\ ~Uses[c].revoked
      BY <2>1, <2>2 DEF Uses
    <2>4. Atomic!Revoke(c)
      BY <2>1, <2>3 DEF Atomic!Revoke
    <2> QED
      BY <2>4 DEF Atomic!Next
  <1> QED
    BY <1>1, <1>2

\* Every behaviour of the statements is one in which a registration is one step,
\* under a free name and with an invite that may be used at that moment
\* (src/store.rs, register_with_invite and create_user).
THEOREM AtomicSafe == Spec => RegistersAtomically
  <1>1. Init => Atomic!Init
    BY DEF Init, Atomic!Init, Uses
  <1>2. TypeOK /\ RegistrationInv /\ [Next]_vars => [Atomic!Next]_(Atomic!vars)
    <2> SUFFICES ASSUME TypeOK, RegistrationInv, [Next]_vars
                 PROVE  [Atomic!Next]_(Atomic!vars)
      OBVIOUS
    <2>1. \/ \E r \in Requests : CreateUser(r) \/ Commit(r)
          \/ CreateInvite \/ RevokeInvite
          \/ UNCHANGED <<users, invites>>
      BY DEF Next, ReadMode, Serve, ReadSetting, Begin, NameRefused, InsertUser,
             InviteRefused, RedeemInvite, OpenSession, Abandon, Administer, SetMode,
             SetSwitch, Tick, vars
    <2> QED
      BY <2>1, HiddenStep, RegisterStep, RegisterInvitedStep, InviteStep
  <1> QED
    BY <1>1, <1>2, RegistrationInvariant, PTL
    DEF Spec, RegistersAtomically, Atomic!Spec

-----------------------------------------------------------------------------
(***************************************************************************)
(* Who waits for whom.                                                     *)
(***************************************************************************)
Begun == {r \in Requests : pc[r] \notin {"new", "done"}}

\* The next statement of a request has to wait: for a connection of the pool, for
\* the holder of its name, or for the holder of its invite row.
Waits(r) ==
    \/ ~Connected(r)
    \/ pc[r] = "insert" /\ NameHeld(loc[r].name)
    \/ pc[r] = "redeem" /\ Usable(loc[r].via, loc[r].at) /\ RowHeld(loc[r].via)

\* How far a registration has got.
Stage(label) ==
    CASE label = "new" -> 0
      [] label = "setting" -> 1
      [] label = "begin" -> 2
      [] label = "insert" -> 3
      [] label = "redeem" -> 4
      [] label = "commit" -> 5
      [] label = "session" -> 6
      [] OTHER -> 7

\* A request that is served did not wait, and gets on; nobody else moves.
LEMMA ServedStep ==
    ASSUME TypeOK, NEW r \in Requests, Serve(r)
    PROVE  /\ ~Waits(r) /\ r \in Begun
           /\ Stage(pc'[r]) > Stage(pc[r])
           /\ \A q \in Requests \ {r} : pc'[q] = pc[q]
  <1> USE DEF Goto, Done, TypeOK, Stage, Waits, Begun
  <1>1. CASE ReadSetting(r)
    <2>1. /\ pc[r] = "setting" /\ pc'[r] \in {"begin", "done"}
          /\ Connected(r) /\ \A q \in Requests \ {r} : pc'[q] = pc[q]
      BY <1>1 DEF ReadSetting
    <2> QED
      BY <2>1
  <1>2. CASE Begin(r)
    BY <1>2 DEF Begin
  <1>3. CASE NameRefused(r) \/ InsertUser(r) \/ CreateUser(r)
    BY <1>3 DEF NameRefused, InsertUser, CreateUser
  <1>4. CASE InviteRefused(r) \/ RedeemInvite(r)
    BY <1>4 DEF InviteRefused, RedeemInvite
  <1>5. CASE Commit(r) \/ OpenSession(r)
    BY <1>5 DEF Commit, OpenSession
  <1> QED
    BY <1>1, <1>2, <1>3, <1>4, <1>5 DEF Serve

\* Of the registrations under way, one does not wait: one at its commit waits for
\* nobody; if none is there, no row is held, and one that holds a name goes on;
\* if none does, one in a transaction goes on; and if there is none, every
\* connection is free.
LEMMA OneGoesOn ==
    ASSUME TypeOK, Begun # {}
    PROVE  \E r \in Begun : ~Waits(r)
  <1>1. CASE \E r \in Requests : pc[r] = "commit"
    BY <1>1 DEF Waits, Begun, Connected, InTx
  <1>2. CASE /\ ~\E r \in Requests : pc[r] = "commit"
             /\ \E r \in Requests : pc[r] = "redeem"
    BY <1>2 DEF Waits, Begun, Connected, InTx, RowHeld
  <1>3. CASE /\ ~\E r \in Requests : pc[r] \in {"redeem", "commit"}
             /\ \E r \in Requests : pc[r] = "insert"
    BY <1>3 DEF Waits, Begun, Connected, InTx, NameHeld
  <1>4. CASE ~\E r \in Requests : pc[r] \in {"insert", "redeem", "commit"}
    <2>1. Cardinality(InTx) = 0
      BY <1>4, FS_EmptySet DEF InTx
    <2>2. FreeConn
      BY <2>1, LimitsAssumption DEF FreeConn
    <2> QED
      BY <1>4, <2>2 DEF Waits, Begun, Connected
  <1> QED
    BY <1>1, <1>2, <1>3, <1>4

\* The waits for names, invite rows and connections never close a circle, for every
\* number of requests and even with a pool of one connection: some registration
\* under way can go on, and whoever is served gets on and sends nobody back
\* (src/store.rs, register_with_invite takes the name before the invite row).
THEOREM NoCircle ==
    Spec => [](Begun # {} => \E r \in Begun : ~Waits(r))
            /\ [][\A r \in Requests : Serve(r) =>
                     /\ ~Waits(r) /\ Stage(pc'[r]) > Stage(pc[r])
                     /\ \A q \in Requests \ {r} : pc'[q] = pc[q]]_vars
  <1>1. TypeOK => (Begun # {} => \E r \in Begun : ~Waits(r))
    BY OneGoesOn
  <1>2. TypeOK /\ [Next]_vars
        => [\A r \in Requests : Serve(r) =>
               /\ ~Waits(r) /\ Stage(pc'[r]) > Stage(pc[r])
               /\ \A q \in Requests \ {r} : pc'[q] = pc[q]]_vars
    BY ServedStep
  <1> QED
    BY <1>1, <1>2, TypeCorrect, PTL DEF Spec

=============================================================================
