--------------------------- MODULE Posting_proofs ---------------------------
(***************************************************************************)
(* Theorems about Posting, for every number of users, boards, threads,     *)
(* posts and requests.                                                     *)
(***************************************************************************)
EXTENDS Posting, FiniteSetTheorems, TLAPS

Creating == {"stampThread", "insertThread"}
PastBoard == {"parent", "stampPost", "insertPost"}
PastParent == {"stampPost", "insertPost"}

\* A stored thread has a board that exists, a stored post a stored thread.
RowsInv ==
    /\ \A t \in Threads : threads[t].state \in Stored =>
            threads[t].board \in Boards /\ Exists(threads[t].board)
    /\ \A p \in Posts : posts[p].state \in Stored =>
            /\ posts[p].thread \in Threads
            /\ threads[posts[p].thread].state \in Stored
            /\ posts[p].at <= now

\* What a request has read: its thread is stored on its board, or deleted.
Local(q) ==
    /\ pc[q] # "idle" => loc[q].user \in Users
    /\ pc[q] \in {"target"} \cup Creating => loc[q].parent = None
    /\ pc[q] \in Creating => loc[q].board \in Boards
    /\ pc[q] \in PastLock =>
        /\ loc[q].thread \in Threads /\ loc[q].board \in Boards
        /\ boards[loc[q].board] # "unused"
        /\ threads[loc[q].thread].state # "unused"
        /\ threads[loc[q].thread].state \in Stored =>
                threads[loc[q].thread].board = loc[q].board

\* The parent a request has validated stays until its thread is deleted.
Parent(q) ==
    /\ loc[q].at <= now
    /\ pc[q] \in PastParent /\ loc[q].parent # None
       /\ threads[loc[q].thread].state \in Stored =>
        /\ posts[loc[q].parent].state \in Stored
        /\ posts[loc[q].parent].thread = loc[q].thread
        /\ pc[q] = "insertPost" => posts[loc[q].parent].at <= loc[q].at

ReadInv == RowsInv /\ \A q \in Requests : Local(q) /\ Parent(q)

\* A closed thread's replies, with those under way, are within its ceiling.
ClosedInv ==
    \A t \in Threads : threads[t].state \in Stored /\ ~Open(threads[t]) =>
        threads[t].replies + Cardinality(Replying(t)) <= ceiling[t]

\* Requests that may still insert a named post of the user.
Naming(u) == {r \in Requests :
                pc[r] # "idle" /\ loc[r].user = u /\ ~loc[r].anonymous}
CooldownInv ==
    \A u \in Users \ Exempt :
        Cardinality(Recent(u)) + Cardinality(Naming(u)) <= Cardinality(Requests)

\* An anonymous request past the rule is on a board that once allowed it, or,
\* a reply, on one that is deleted.
AnonymousInv ==
    /\ \A b \in Boards : boards[b] = "open" => b \in everOpen
    /\ \A r \in Requests : loc[r].anonymous =>
        /\ pc[r] \in Creating => loc[r].board \in everOpen
        /\ pc[r] \in PastBoard =>
            loc[r].board \in everOpen \/ boards[loc[r].board] = "gone"


\* Every step keeps the types.
LEMMA TypeStep ==
    ASSUME TypeOK, [Next]_vars
    PROVE  TypeOK'
  <1> USE FormsAssumption, ExemptAssumption, NoneAssumption, TimeAssumption
      DEF Goto, Done, Labels, Locals, Nothing, Asking
  <1>1. ASSUME NEW r \in Requests, Post(r)
        PROVE  TypeOK'
    <2>1. ASSUME NEW u \in Users, Begin(r, u)
          PROVE  pc' \in [Requests -> Labels] /\ loc' \in [Requests -> Locals]
      <3>1. \A a \in BOOLEAN : Asking(u, a) \in Locals
        BY DEF Asking
      <3>2. Anonymity \subseteq BOOLEAN
        BY FormsAssumption
      <3> QED
        BY <2>1, <3>1, <3>2 DEF Begin, TypeOK
    <2>2. CASE \E u \in Users : CheckCooldown(r, u) \/ SkipCooldown(r, u)
      BY <2>1, <2>2 DEF CheckCooldown, SkipCooldown, TypeOK
    <2>3. CASE ReadBoard(r)
      BY <2>3 DEF ReadBoard, TypeOK
    <2>4. CASE ReadThread(r)
      <3>1. \A t \in Threads : threads[t].board \in Boards \cup {None}
        BY DEF TypeOK, ThreadRows
      <3>2. loc[r] \in Locals
        BY DEF TypeOK
      <3>3. \A t \in Threads, b \in Boards \cup {None} :
                [loc[r] EXCEPT !.thread = t, !.board = b] \in Locals
        BY <3>2
      <3>4. PICK t \in Threads :
                loc' = [loc EXCEPT ![r].thread = t, ![r].board = threads[t].board]
        BY <2>4 DEF ReadThread
      <3>5. loc' = [loc EXCEPT ![r] = [loc[r] EXCEPT !.thread = t, !.board = threads[t].board]]
        BY <3>4, <3>2 DEF TypeOK
      <3>6. loc' \in [Requests -> Locals]
        BY <3>1, <3>3, <3>5 DEF TypeOK
      <3> QED
        BY <2>4, <3>6 DEF ReadThread, TypeOK
    <2>5. CASE ReadReplyBoard(r)
      BY <2>5 DEF ReadReplyBoard, TypeOK
    <2>6. CASE ReadParent(r)
      <3>1. \A t : ValidParents(t) \subseteq Posts
        BY DEF ValidParents
      <3> QED
        BY <2>6, <3>1 DEF ReadParent, TypeOK
    <2>7. CASE Stamp(r)
      BY <2>7 DEF Stamp, Clock, TypeOK
    <2>8. \A t \in Threads : NewPost(r, t) \in PostRows /\ NewThread(r) \in ThreadRows
      BY DEF TypeOK, NewPost, NewThread, Author, PostRows, ThreadRows, RowStates
    <2>9. CASE InsertThread(r)
      BY <2>8, <2>9 DEF InsertThread, Unused, TypeOK
    <2>10. CASE InsertPost(r)
      <3>1. NewPost(r, loc[r].thread) \in PostRows
        BY DEF TypeOK, NewPost, Author, PostRows, RowStates
      <3>2. \A row \in ThreadRows : [row EXCEPT !.replies = @ + 1] \in ThreadRows
        BY DEF ThreadRows
      <3>3. threads' \in [Threads -> ThreadRows]
        BY <2>10, <3>2 DEF InsertPost, TypeOK
      <3> QED
        BY <2>10, <3>1, <3>3 DEF InsertPost, Unused, TypeOK
    <2>11. CASE Abandon(r)
      BY <2>11 DEF Abandon, TypeOK
    <2> QED
      BY <1>1, <2>2, <2>3, <2>4, <2>5, <2>6, <2>7, <2>9, <2>10, <2>11 DEF Post
  <1>2. ASSUME NEW t \in Threads, NEW row \in ThreadRows, Update(t, row),
               toggle' \in [Moderators -> Toggles \cup {None}]
        PROVE  TypeOK'
    <2>1. Cardinality(Replying(t)) \in Nat
      BY FiniteAssumption, FS_Subset, FS_CardinalityType DEF Replying
    <2>2. Ceiling(t, row) \in Nat
      BY <2>1 DEF Ceiling, TypeOK, ThreadRows
    <2> QED
      BY <1>2, <2>2 DEF Update, TypeOK
  <1>3. ASSUME NEW m \in Moderators, ReadToggle(m) \/ WriteToggle(m) \/ DropToggle(m)
        PROVE  TypeOK'
    <2>1. CASE ReadToggle(m)
      BY <1>3, <2>1 DEF ReadToggle, TypeOK, Toggles
    <2>2. CASE DropToggle(m)
      BY <1>3, <2>2 DEF DropToggle, TypeOK
    <2>3. CASE WriteToggle(m)
      <3>1. toggle[m] \in Toggles
        BY <2>3 DEF WriteToggle, TypeOK
      <3> DEFINE w == toggle[m]
                 row == [threads[w.thread] EXCEPT
                           !.flags = IF w.on THEN @ \cup {w.flag} ELSE @ \ {w.flag}]
      <3>2. w.thread \in Threads /\ row \in ThreadRows
        BY <3>1 DEF TypeOK, ThreadRows, Toggles
      <3>3. toggle' \in [Moderators -> Toggles \cup {None}]
        BY <2>3 DEF WriteToggle, TypeOK
      <3> QED
        BY <1>2, <2>3, <3>2, <3>3 DEF WriteToggle
    <2> QED
      BY <1>3, <2>1, <2>2, <2>3
  <1>4. ASSUME NEW t \in Threads, TrashThread(t) \/ RestoreThread(t)
        PROVE  TypeOK'
    <2>1. /\ [threads[t] EXCEPT !.state = "trash"] \in ThreadRows
          /\ [threads[t] EXCEPT !.state = "live"] \in ThreadRows
      BY DEF TypeOK, ThreadRows, RowStates
    <2>2. toggle' \in [Moderators -> Toggles \cup {None}]
      BY <1>4 DEF TrashThread, RestoreThread, TypeOK
    <2> QED
      BY <1>2, <1>4, <2>1, <2>2 DEF TrashThread, RestoreThread
  <1>5. ASSUME NEW p \in Posts, TrashPost(p) \/ RestorePost(p)
        PROVE  TypeOK'
    <2>1. \A s \in RowStates : [posts[p] EXCEPT !.state = s] \in PostRows
      BY DEF TypeOK, PostRows
    <2>2. posts' \in [Posts -> PostRows]
      BY <1>5, <2>1 DEF TrashPost, RestorePost, TypeOK, RowStates
    <2> QED
      BY <1>5, <2>2 DEF TrashPost, RestorePost, CounterKept, TypeOK
  <1>6. ASSUME NEW b \in Boards, SaveBoard(b) \/ DeleteBoard(b)
        PROVE  TypeOK'
    <2>1. CASE SaveBoard(b)
      BY <2>1 DEF SaveBoard, TypeOK, BoardStates
    <2>2. CASE DeleteBoard(b)
      <3>1. /\ [NoThread EXCEPT !.state = "gone"] \in ThreadRows
            /\ [NoPost EXCEPT !.state = "gone"] \in PostRows
        BY DEF NoThread, NoPost, ThreadRows, PostRows, RowStates
      <3> QED
        BY <2>2, <3>1 DEF DeleteBoard, TypeOK, BoardStates
    <2> QED
      BY <1>6, <2>1, <2>2
  <1>7. CASE Tick
    BY <1>7 DEF Tick, TypeOK, PostRows
  <1>8. CASE UNCHANGED vars
    BY <1>8 DEF vars, TypeOK
  <1> QED
    BY <1>1, <1>3, <1>4, <1>5, <1>6, <1>7, <1>8 DEF Next, Moderate

\* TypeOK: the tables, the requests and the histories have their types.
THEOREM TypeCorrect == Spec => []TypeOK
  <1>1. Init => TypeOK
    BY TimeAssumption DEF Init, TypeOK, NoThread, NoPost, Nothing, Asking, ThreadRows, PostRows,
       RowStates, Locals, Labels, BoardStates
  <1> QED
    BY <1>1, TypeStep, PTL DEF Spec

ReadOnly(r) ==
    \/ \E u \in Users : CheckCooldown(r, u) \/ SkipCooldown(r, u)
    \/ ReadBoard(r) \/ ReadThread(r) \/ ReadReplyBoard(r) \/ ReadParent(r)
    \/ Stamp(r) \/ Abandon(r)

\* A step of a request leaves the others alone; up to the insert it leaves the
\* tables alone.
LEMMA RequestFrame ==
    ASSUME TypeOK, NEW r \in Requests, Post(r)
    PROVE  /\ \A q \in Requests \ {r} : pc'[q] = pc[q] /\ loc'[q] = loc[q]
           /\ UNCHANGED <<boards, now, toggle, ceiling, everOpen>>
           /\ ReadOnly(r) => UNCHANGED <<threads, posts>>
           /\ ReadOnly(r) \/ InsertThread(r) \/ InsertPost(r)
  <1> USE DEF Goto, Done, TypeOK
  <1>1. CASE ReadOnly(r)
    BY <1>1 DEF ReadOnly, CheckCooldown, SkipCooldown, Begin, ReadBoard, ReadThread,
                ReadReplyBoard, ReadParent, Stamp, Abandon
  <1>2. CASE InsertThread(r)
    BY <1>2 DEF InsertThread, ReadOnly, CheckCooldown, SkipCooldown, Begin, ReadBoard,
                ReadThread, ReadReplyBoard, ReadParent, Stamp, Abandon
  <1>3. CASE InsertPost(r)
    BY <1>3 DEF InsertPost, ReadOnly, CheckCooldown, SkipCooldown, Begin, ReadBoard,
                ReadThread, ReadReplyBoard, ReadParent, Stamp, Abandon
  <1> QED
    BY <1>1, <1>2, <1>3 DEF Post, ReadOnly

\* What a request that reads holds afterwards is so.
LEMMA ReadStep ==
    ASSUME TypeOK, ReadInv, NEW r \in Requests, Post(r), ReadOnly(r)
    PROVE  ReadInv'
  <1>1. /\ \A q \in Requests \ {r} : pc'[q] = pc[q] /\ loc'[q] = loc[q]
        /\ UNCHANGED <<boards, threads, posts, now>>
    BY RequestFrame
  <1>2. RowsInv'
    BY <1>1 DEF ReadInv, RowsInv, Exists
  <1>3. Local(r) /\ Parent(r) => Local(r)' /\ Parent(r)'
    <2> SUFFICES ASSUME Local(r), Parent(r)
                 PROVE  Local(r)' /\ Parent(r)'
      OBVIOUS
    <2> USE <1>1, TimeAssumption, NoneAssumption
        DEF Goto, Done, Nothing, Asking, Creating, PastLock, PastParent, Local, Parent
    <2>1. loc[r] \in Locals /\ loc[r].at \in Nat /\ now \in Nat
      BY DEF TypeOK, Locals
    <2>2. CASE \E u \in Users : Begin(r, u)
      BY <2>1, <2>2 DEF Begin, TypeOK
    <2>3. CASE ReadBoard(r)
      BY <2>1, <2>3 DEF ReadBoard, TypeOK, Locals
    <2>4. CASE ReadThread(r)
      BY <2>1, <2>4 DEF ReadThread, TypeOK, Locals, ReadInv, RowsInv, TakesReplies, Open,
                        Stored, Exists
    <2>5. CASE ReadReplyBoard(r)
      BY <2>1, <2>5 DEF ReadReplyBoard, TypeOK
    <2>6. CASE ReadParent(r)
      BY <2>1, <2>6 DEF ReadParent, ValidParents, TypeOK, Locals, Stored
    <2>7. CASE Stamp(r)
      BY <2>1, <2>7 DEF Stamp, Clock, TypeOK, Locals, ReadInv, RowsInv
    <2>8. CASE Abandon(r)
      BY <2>1, <2>8 DEF Abandon, TypeOK
    <2> QED
      BY <2>2, <2>3, <2>4, <2>5, <2>6, <2>7, <2>8
         DEF ReadOnly, CheckCooldown, SkipCooldown
  <1>4. \A q \in Requests : Local(q) /\ Parent(q)
    BY DEF ReadInv
  <1>5. \A q \in Requests \ {r} : Local(q)' /\ Parent(q)'
    BY <1>1, <1>4 DEF Local, Parent
  <1> QED
    BY <1>2, <1>3, <1>4, <1>5 DEF ReadInv

\* The opening post goes with its thread; nothing read before was of their ids.
LEMMA InsertThreadStep ==
    ASSUME TypeOK, ReadInv, ParentInThread, NEW r \in Requests, InsertThread(r)
    PROVE  ReadInv' /\ ParentInThread'
  <1> USE DEF Stored
  <1>1. PICK t \in Unused(threads), p \in Unused(posts) :
            /\ threads' = [threads EXCEPT ![t] = NewThread(r)]
            /\ posts' = [posts EXCEPT ![p] = NewPost(r, t)]
    BY DEF InsertThread
  <1>2. /\ t \in Threads /\ threads[t].state = "unused"
        /\ p \in Posts /\ posts[p].state = "unused"
    BY DEF Unused, TypeOK
  <1>3. /\ threads'[t].state = "live" /\ threads'[t].board = loc[r].board
        /\ \A i \in Threads \ {t} : threads'[i] = threads[i]
    BY <1>1, <1>2 DEF TypeOK, NewThread
  <1>4. /\ posts'[p].state = "live" /\ posts'[p].thread = t
        /\ posts'[p].parent = loc[r].parent /\ posts'[p].at = loc[r].at
        /\ \A i \in Posts \ {p} : posts'[i] = posts[i]
    BY <1>1, <1>2 DEF TypeOK, NewPost
  <1>5. /\ \A q \in Requests \ {r} : pc'[q] = pc[q] /\ loc'[q] = loc[q]
        /\ UNCHANGED <<boards, now>>
        /\ pc'[r] = "idle" /\ loc'[r] = Nothing /\ pc[r] = "insertThread"
        /\ Exists(loc[r].board)
    BY DEF InsertThread, Goto, Done, TypeOK
  <1>6. Local(r) /\ Parent(r)
    BY DEF ReadInv
  <1>7. loc[r].board \in Boards /\ loc[r].parent = None /\ loc[r].at <= now
    BY <1>5, <1>6 DEF Local, Parent, Creating
  <1>8. RowsInv'
    BY <1>2, <1>3, <1>4, <1>5, <1>7 DEF ReadInv, RowsInv, Exists
  <1>9. ASSUME NEW q \in Requests
        PROVE  Local(q)' /\ Parent(q)'
    <2>1. CASE q = r
      BY <1>5, <2>1 DEF Local, Parent, Nothing, Asking, Creating, PastLock, PastParent,
                        TypeOK
    <2>2. CASE q # r
      <3>1. Local(q) /\ Parent(q)
        BY DEF ReadInv
      <3>2. pc[q] \in PastLock => loc[q].thread \in Threads \ {t}
        BY <1>2, <3>1 DEF Local
      <3>3. Local(q)'
        BY <1>3, <1>5, <2>2, <3>1, <3>2 DEF Local
      <3>4. pc[q] \in PastParent => pc[q] \in PastLock
        BY DEF PastParent, PastLock
      <3>5. loc[q].parent \in Posts \cup {None}
        BY DEF TypeOK, Locals
      <3>6. Parent(q)'
        BY <1>2, <1>3, <1>4, <1>5, <2>2, <3>1, <3>2, <3>4, <3>5 DEF Parent
      <3> QED
        BY <3>3, <3>6
    <2> QED
      BY <2>1, <2>2
  <1>10. ParentInThread'
    <2>1. \A i \in Posts : posts[i].parent \in Posts \cup {None}
      BY DEF TypeOK, PostRows
    <2> QED
      BY <1>2, <1>4, <1>7, <2>1 DEF ParentInThread
  <1> QED
    BY <1>8, <1>9, <1>10 DEF ReadInv

\* A reply goes to the thread and under the parent that were read, unless the
\* thread is gone.
LEMMA InsertPostStep ==
    ASSUME TypeOK, ReadInv, ParentInThread, NEW r \in Requests, InsertPost(r)
    PROVE  ReadInv' /\ ParentInThread'
  <1> USE DEF Stored
  <1> DEFINE t == loc[r].thread
  <1>1. PICK p \in Unused(posts) : posts' = [posts EXCEPT ![p] = NewPost(r, t)]
    BY DEF InsertPost
  <1>2. p \in Posts /\ posts[p].state = "unused"
    BY <1>1 DEF Unused, TypeOK
  <1>3. /\ \A q \in Requests \ {r} : pc'[q] = pc[q] /\ loc'[q] = loc[q]
        /\ UNCHANGED <<boards, now>>
        /\ pc'[r] = "idle" /\ loc'[r] = Nothing /\ pc[r] = "insertPost"
        /\ threads[t].state \in Stored
    BY DEF InsertPost, Goto, Done, TypeOK
  <1>4. Local(r) /\ Parent(r)
    BY DEF ReadInv
  <1>5. /\ t \in Threads /\ loc[r].at <= now
        /\ loc[r].parent # None =>
            /\ posts[loc[r].parent].state \in Stored
            /\ posts[loc[r].parent].thread = t
            /\ posts[loc[r].parent].at <= loc[r].at
    BY <1>3, <1>4 DEF Local, Parent, PastLock, PastParent
  <1>6. \A i \in Threads : threads'[i].state = threads[i].state
                           /\ threads'[i].board = threads[i].board
    BY <1>5 DEF InsertPost, TypeOK, ThreadRows
  <1>7. /\ posts'[p].state = "live" /\ posts'[p].thread = t
        /\ posts'[p].parent = loc[r].parent /\ posts'[p].at = loc[r].at
        /\ \A i \in Posts \ {p} : posts'[i] = posts[i]
    BY <1>1, <1>2 DEF TypeOK, NewPost
  <1>8. RowsInv'
    BY <1>2, <1>3, <1>5, <1>6, <1>7 DEF ReadInv, RowsInv, Exists
  <1>9. ASSUME NEW q \in Requests
        PROVE  Local(q)' /\ Parent(q)'
    <2>1. CASE q = r
      BY <1>3, <2>1 DEF Local, Parent, Nothing, Asking, Creating, PastLock, PastParent,
                        TypeOK
    <2>2. CASE q # r
      <3>1. Local(q) /\ Parent(q)
        BY DEF ReadInv
      <3>2. Local(q)'
        BY <1>3, <1>6, <2>2, <3>1 DEF Local
      <3>3. pc[q] \in PastParent => loc[q].thread \in Threads
        BY <3>1 DEF Local, PastLock, PastParent
      <3>4. loc[q].parent \in Posts \cup {None}
        BY DEF TypeOK, Locals
      <3>5. Parent(q)'
        BY <1>2, <1>3, <1>6, <1>7, <2>2, <3>1, <3>3, <3>4 DEF Parent
      <3> QED
        BY <3>2, <3>5
    <2> QED
      BY <2>1, <2>2
  <1>10. ParentInThread'
    <2>1. \A i \in Posts : posts[i].parent \in Posts \cup {None}
      BY DEF TypeOK, PostRows
    <2>2. loc[r].parent \in Posts \cup {None}
      BY DEF TypeOK, Locals
    <2> QED
      BY <1>2, <1>5, <1>7, <2>1, <2>2 DEF ParentInThread
  <1> QED
    BY <1>8, <1>9, <1>10 DEF ReadInv

\* A step of a moderator keeps rows stored, or deletes a board with everything
\* on it.
LEMMA ModerateFrame ==
    ASSUME TypeOK, Moderate
    PROVE  /\ UNCHANGED <<now, pc, loc>>
           /\ \/ /\ \A t \in Threads : /\ threads'[t].board = threads[t].board
                                       /\ threads'[t].replies = threads[t].replies
                                       /\ threads'[t].state = threads[t].state
                                          \/ {threads[t].state, threads'[t].state} \subseteq Stored
                 /\ \A p \in Posts : /\ posts'[p].thread = posts[p].thread
                                     /\ posts'[p].author = posts[p].author
                                     /\ posts'[p].parent = posts[p].parent
                                     /\ posts'[p].at = posts[p].at
                                     /\ posts'[p].state = posts[p].state
                                        \/ {posts[p].state, posts'[p].state} \subseteq Stored
                 /\ \/ UNCHANGED <<boards, everOpen>>
                    \/ \E b \in Boards : SaveBoard(b)
              \/ \E b \in Boards : DeleteBoard(b)
  <1> USE DEF TypeOK, ThreadRows, PostRows, Stored
  <1>1. ASSUME NEW m \in Moderators, ReadToggle(m) \/ DropToggle(m)
        PROVE  UNCHANGED <<boards, threads, posts, now, pc, loc, everOpen>>
    BY <1>1 DEF ReadToggle, DropToggle
  <1>2. ASSUME NEW m \in Moderators, WriteToggle(m)
        PROVE  /\ UNCHANGED <<boards, posts, now, pc, loc, everOpen>>
               /\ \A t \in Threads : /\ threads'[t].board = threads[t].board
                                     /\ threads'[t].replies = threads[t].replies
                                     /\ threads'[t].state = threads[t].state
    BY <1>2 DEF WriteToggle, Update, Toggles
  <1>3. ASSUME NEW u \in Threads, TrashThread(u) \/ RestoreThread(u)
        PROVE  /\ UNCHANGED <<boards, posts, now, pc, loc, everOpen>>
               /\ \A t \in Threads : /\ threads'[t].board = threads[t].board
                                     /\ threads'[t].replies = threads[t].replies
                                     /\ threads'[t].state = threads[t].state
                                          \/ {threads[t].state, threads'[t].state} \subseteq Stored
    BY <1>3 DEF TrashThread, RestoreThread, Update
  <1>4. ASSUME NEW q \in Posts, TrashPost(q) \/ RestorePost(q)
        PROVE  /\ UNCHANGED <<boards, threads, now, pc, loc, everOpen>>
               /\ \A p \in Posts : /\ posts'[p].thread = posts[p].thread
                                   /\ posts'[p].author = posts[p].author
                                   /\ posts'[p].parent = posts[p].parent
                                   /\ posts'[p].at = posts[p].at
                                   /\ posts'[p].state = posts[p].state
                                        \/ {posts[p].state, posts'[p].state} \subseteq Stored
    BY <1>4 DEF TrashPost, RestorePost, CounterKept
  <1>5. ASSUME NEW b \in Boards, SaveBoard(b)
        PROVE  UNCHANGED <<threads, posts, now, pc, loc>>
    BY <1>5 DEF SaveBoard
  <1>6. ASSUME NEW b \in Boards, DeleteBoard(b)
        PROVE  UNCHANGED <<now, pc, loc>>
    BY <1>6 DEF DeleteBoard
  <1> HIDE DEF TypeOK, ThreadRows, PostRows
  <1> QED
    BY <1>1, <1>2, <1>3, <1>4, <1>5, <1>6 DEF Moderate

\* Deleting a board takes exactly its threads and their posts.
LEMMA DeleteBoardEffect ==
    ASSUME TypeOK, ReadInv, NEW b \in Boards, DeleteBoard(b)
    PROVE  /\ boards' = [boards EXCEPT ![b] = "gone"] /\ boards[b] # "gone"
           /\ UNCHANGED <<now, pc, loc, everOpen>>
           /\ \A t \in Threads :
                IF threads[t].state \in Stored /\ threads[t].board = b
                THEN threads'[t].state = "gone"
                ELSE threads'[t] = threads[t]
           /\ \A p \in Posts :
                IF posts[p].state \in Stored /\ threads[posts[p].thread].board = b
                THEN posts'[p].state = "gone" /\ posts'[p].parent = None
                ELSE posts'[p] = posts[p]
  <1> DEFINE lost == {t \in Threads : threads[t].state \in Stored /\ threads[t].board = b}
  <1>1. /\ threads' = [t \in Threads |->
            IF t \in lost THEN [NoThread EXCEPT !.state = "gone"] ELSE threads[t]]
        /\ posts' = [p \in Posts |->
            IF posts[p].state \in Stored /\ posts[p].thread \in lost
            THEN [NoPost EXCEPT !.state = "gone"] ELSE posts[p]]
    BY DEF DeleteBoard
  <1>2. \A p \in Posts : posts[p].state \in Stored =>
            (posts[p].thread \in lost <=> threads[posts[p].thread].board = b)
    BY DEF ReadInv, RowsInv
  <1>3. /\ [NoThread EXCEPT !.state = "gone"].state = "gone"
        /\ [NoPost EXCEPT !.state = "gone"].state = "gone"
        /\ [NoPost EXCEPT !.state = "gone"].parent = None
    BY DEF NoThread, NoPost
  <1>4. /\ boards' = [boards EXCEPT ![b] = "gone"] /\ boards[b] # "gone"
        /\ UNCHANGED <<now, pc, loc, everOpen>>
    BY DEF DeleteBoard, Exists
  <1> QED
    BY <1>1, <1>2, <1>3, <1>4

\* Moderation and time leave what a request has read true, or its thread gone.
LEMMA ModerateStep ==
    ASSUME TypeOK, ReadInv, ParentInThread, Moderate \/ Tick \/ UNCHANGED vars
    PROVE  ReadInv' /\ ParentInThread'
  <1> USE DEF Stored
  <1>1. CASE \E b \in Boards : DeleteBoard(b)
    <2>1. PICK b \in Boards : DeleteBoard(b)
      BY <1>1
    <2>2. /\ boards' = [boards EXCEPT ![b] = "gone"]
          /\ UNCHANGED <<now, pc, loc>>
          /\ \A t \in Threads :
                IF threads[t].state \in Stored /\ threads[t].board = b
                THEN threads'[t].state = "gone"
                ELSE threads'[t] = threads[t]
          /\ \A p \in Posts :
                IF posts[p].state \in Stored /\ threads[posts[p].thread].board = b
                THEN posts'[p].state = "gone" /\ posts'[p].parent = None
                ELSE posts'[p] = posts[p]
      BY <2>1, DeleteBoardEffect
    <2>3. RowsInv'
      BY <2>2 DEF ReadInv, RowsInv, Exists, TypeOK
    <2>4. ASSUME NEW q \in Requests
          PROVE  Local(q)' /\ Parent(q)'
      <3>1. Local(q) /\ Parent(q) /\ (pc[q] \in PastParent => pc[q] \in PastLock)
        BY DEF ReadInv, PastParent, PastLock
      <3>2. loc[q].parent \in Posts \cup {None}
        BY DEF TypeOK, Locals
      <3>3. Local(q)'
        BY <2>2, <3>1 DEF Local, TypeOK
      <3>4. Parent(q)'
        BY <2>2, <3>1, <3>2 DEF Local, Parent
      <3> QED
        BY <3>3, <3>4
    <2>5. \A p \in Posts : posts[p].parent \in Posts \cup {None}
      BY DEF TypeOK, PostRows
    <2>6. ParentInThread'
      BY <2>2, <2>5 DEF ParentInThread
    <2> QED
      BY <2>3, <2>4, <2>6 DEF ReadInv
  <1>2. CASE Moderate /\ ~\E b \in Boards : DeleteBoard(b)
    <2>1. /\ UNCHANGED <<now, pc, loc>>
          /\ \A t \in Threads : /\ threads'[t].board = threads[t].board
                                /\ threads'[t].state = threads[t].state
                                   \/ {threads[t].state, threads'[t].state} \subseteq Stored
          /\ \A p \in Posts : /\ posts'[p].thread = posts[p].thread
                              /\ posts'[p].parent = posts[p].parent
                              /\ posts'[p].at = posts[p].at
                              /\ posts'[p].state = posts[p].state
                                 \/ {posts[p].state, posts'[p].state} \subseteq Stored
          /\ UNCHANGED boards \/ \E b \in Boards : SaveBoard(b)
      BY <1>2, ModerateFrame
    <2>2. \A b \in Boards : /\ Exists(b) => Exists(b)'
                            /\ boards[b] # "unused" => boards'[b] # "unused"
      BY <2>1, FormsAssumption DEF SaveBoard, Exists, TypeOK
    <2>3. RowsInv'
      BY <2>1, <2>2 DEF ReadInv, RowsInv
    <2>4. ASSUME NEW q \in Requests
          PROVE  Local(q)' /\ Parent(q)'
      <3>1. Local(q) /\ Parent(q) /\ (pc[q] \in PastParent => pc[q] \in PastLock)
        BY DEF ReadInv, PastParent, PastLock
      <3>2. loc[q].parent \in Posts \cup {None}
        BY DEF TypeOK, Locals
      <3>3. Local(q)'
        BY <2>1, <2>2, <3>1 DEF Local
      <3>4. Parent(q)'
        BY <2>1, <3>1, <3>2 DEF Local, Parent
      <3> QED
        BY <3>3, <3>4
    <2>5. \A p \in Posts : posts[p].parent \in Posts \cup {None}
      BY DEF TypeOK, PostRows
    <2>6. ParentInThread'
      BY <2>1, <2>5 DEF ParentInThread
    <2> QED
      BY <2>3, <2>4, <2>6 DEF ReadInv
  <1>3. CASE Tick \/ UNCHANGED vars
    <2>1. /\ UNCHANGED <<boards, threads, posts, pc, loc>>
          /\ now \in Nat /\ now' \in Nat /\ now' >= now
      BY <1>3, TimeAssumption DEF Tick, vars, TypeOK
    <2>2. /\ \A p \in Posts : posts[p].at \in Nat
          /\ \A q \in Requests : loc[q].at \in Nat
      BY DEF TypeOK, PostRows, Locals
    <2>3. RowsInv'
      BY <2>1, <2>2 DEF ReadInv, RowsInv, Exists
    <2>4. \A q \in Requests : Local(q)' /\ Parent(q)'
      BY <2>1, <2>2 DEF ReadInv, Local, Parent
    <2>5. ParentInThread'
      BY <2>1 DEF ParentInThread
    <2> QED
      BY <2>3, <2>4, <2>5 DEF ReadInv
  <1> QED
    BY <1>1, <1>2, <1>3

LEMMA ReadInvStep ==
    ASSUME TypeOK, ReadInv, ParentInThread, [Next]_vars
    PROVE  ReadInv' /\ ParentInThread'
  <1>1. ASSUME NEW r \in Requests, Post(r)
        PROVE  ReadInv' /\ ParentInThread'
    <2>1. CASE ReadOnly(r)
      <3>1. UNCHANGED posts
        BY <1>1, <2>1, RequestFrame
      <3>2. ParentInThread'
        BY <3>1 DEF ParentInThread
      <3> QED
        BY <1>1, <2>1, <3>2, ReadStep
    <2> QED
      BY <1>1, <2>1, RequestFrame, InsertThreadStep, InsertPostStep
  <1> QED
    BY <1>1, ModerateStep DEF Next

LEMMA InitRead == Init => TypeOK /\ ReadInv /\ ParentInThread
  <1> SUFFICES ASSUME Init
               PROVE  TypeOK /\ ReadInv /\ ParentInThread
    OBVIOUS
  <1>1. TypeOK
    BY TimeAssumption DEF Init, TypeOK, NoThread, NoPost, Nothing, Asking, ThreadRows,
       PostRows, RowStates, Locals, Labels, BoardStates
  <1>2. RowsInv
    BY DEF Init, RowsInv, NoThread, NoPost, Stored
  <1>3. \A q \in Requests : Local(q) /\ Parent(q)
    BY DEF Init, Local, Parent, Nothing, Asking, Creating, PastLock, PastParent
  <1>4. ParentInThread
    BY DEF Init, ParentInThread, NoPost, Stored
  <1> QED
    BY <1>1, <1>2, <1>3, <1>4 DEF ReadInv

\* ParentInThread: a stored reply answers a stored post of its own thread that is
\* not younger, whatever was deleted or restored while it was under way.
THEOREM ParentSafe == Spec => []ParentInThread
  BY InitRead, TypeStep, ReadInvStep, PTL DEF Spec

-----------------------------------------------------------------------------
(***************************************************************************)
(* The reply counter.                                                      *)
(***************************************************************************)

LEMMA CountStep ==
    ASSUME TypeOK, ReadInv, CountMatches, [Next]_vars
    PROVE  CountMatches'
  <1> USE DEF Stored
  <1>1. \A t \in Threads : IsFiniteSet(StoredIn(t)) /\ Cardinality(StoredIn(t)) \in Nat
    BY FiniteAssumption, FS_Subset, FS_CardinalityType DEF StoredIn
  <1>2. ASSUME \A t \in Threads : threads'[t].state \in Stored =>
                  /\ threads[t].state \in Stored
                  /\ threads'[t].replies = threads[t].replies
                  /\ StoredIn(t)' = StoredIn(t)
        PROVE  CountMatches'
    BY <1>2 DEF CountMatches
  <1>3. ASSUME NEW r \in Requests, Post(r)
        PROVE  CountMatches'
    <2>1. CASE ReadOnly(r)
      <3>1. UNCHANGED <<threads, posts>>
        BY <1>3, <2>1, RequestFrame
      <3> QED
        BY <1>2, <3>1 DEF StoredIn
    <2>2. CASE InsertThread(r)
      <3>1. PICK t \in Unused(threads), p \in Unused(posts) :
                /\ threads' = [threads EXCEPT ![t] = NewThread(r)]
                /\ posts' = [posts EXCEPT ![p] = NewPost(r, t)]
        BY <2>2 DEF InsertThread
      <3>2. /\ t \in Threads /\ threads[t].state = "unused"
            /\ p \in Posts /\ posts[p].state = "unused"
        BY DEF Unused, TypeOK
      <3>3. /\ threads'[t].replies = 0
            /\ \A i \in Threads \ {t} : threads'[i] = threads[i]
        BY <3>1, <3>2 DEF TypeOK, NewThread
      <3>4. /\ posts'[p].state = "live" /\ posts'[p].thread = t
            /\ \A i \in Posts \ {p} : posts'[i] = posts[i]
        BY <3>1, <3>2 DEF TypeOK, NewPost
      <3>5. \A i \in Posts : posts[i].state \in Stored => posts[i].thread # t
        BY <3>2 DEF ReadInv, RowsInv
      <3>6. StoredIn(t)' = {p}
        <4>1. p \in StoredIn(t)'
          BY <3>2, <3>4 DEF StoredIn
        <4>2. ASSUME NEW i \in Posts \ {p}
              PROVE  i \notin StoredIn(t)'
          BY <3>4, <3>5 DEF StoredIn
        <4>3. StoredIn(t)' \subseteq Posts
          BY DEF StoredIn
        <4> QED
          BY <4>1, <4>2, <4>3
      <3>8. Cardinality({p}) = 1
        BY FS_Singleton
      <3>7. \A i \in Threads \ {t} : StoredIn(i)' = StoredIn(i)
        BY <3>2, <3>4 DEF StoredIn
      <3> QED
        BY <3>3, <3>6, <3>7, <3>8 DEF CountMatches
    <2>3. CASE InsertPost(r)
      <3>0. PICK t \in Threads : t = loc[r].thread
        BY <2>3 DEF InsertPost, ReadInv, Local, PastLock
      <3>1. PICK p \in Unused(posts) : posts' = [posts EXCEPT ![p] = NewPost(r, t)]
        BY <2>3, <3>0 DEF InsertPost
      <3>2. p \in Posts /\ posts[p].state = "unused"
        BY DEF Unused, TypeOK
      <3>3. threads[t].state \in Stored
        BY <2>3, <3>0 DEF InsertPost
      <3>4. /\ threads'[t].replies = threads[t].replies + 1
            /\ \A i \in Threads \ {t} : threads'[i] = threads[i]
        BY <2>3, <3>0 DEF InsertPost, TypeOK, ThreadRows
      <3>5. /\ posts'[p].state = "live" /\ posts'[p].thread = t
            /\ \A i \in Posts \ {p} : posts'[i] = posts[i]
        BY <3>1, <3>2 DEF TypeOK, NewPost
      <3>6. p \notin StoredIn(t) /\ StoredIn(t)' = StoredIn(t) \cup {p}
        <4>1. p \in StoredIn(t)' /\ p \notin StoredIn(t)
          BY <3>2, <3>5 DEF StoredIn
        <4>2. ASSUME NEW i \in Posts \ {p}
              PROVE  i \in StoredIn(t)' <=> i \in StoredIn(t)
          BY <3>5 DEF StoredIn
        <4>3. StoredIn(t) \subseteq Posts /\ StoredIn(t)' \subseteq Posts
          BY DEF StoredIn
        <4> QED
          BY <4>1, <4>2, <4>3
      <3>7. Cardinality(StoredIn(t)') = Cardinality(StoredIn(t)) + 1
        BY <1>1, <3>6, FS_AddElement
      <3>8. \A i \in Threads \ {t} : StoredIn(i)' = StoredIn(i)
        BY <3>2, <3>5 DEF StoredIn
      <3>9. threads[t].replies \in Nat
        BY <3>3 DEF TypeOK, ThreadRows
      <3>10. threads'[t].replies + 1 = Cardinality(StoredIn(t)')
        BY <1>1, <3>3, <3>4, <3>7, <3>9 DEF CountMatches
      <3> QED
        <4> SUFFICES ASSUME NEW i \in Threads, threads'[i].state \in Stored
                     PROVE  threads'[i].replies + 1 = Cardinality(StoredIn(i)')
          BY DEF CountMatches
        <4>1. CASE i = t
          BY <3>10, <4>1
        <4>2. CASE i # t
          BY <3>4, <3>8, <4>2 DEF CountMatches
        <4> QED
          BY <4>1, <4>2
    <2> QED
      BY <1>3, <2>1, <2>2, <2>3, RequestFrame
  <1>4. CASE \E b \in Boards : DeleteBoard(b)
    <2>1. PICK b \in Boards : DeleteBoard(b)
      BY <1>4
    <2>2. /\ \A t \in Threads :
                IF threads[t].state \in Stored /\ threads[t].board = b
                THEN threads'[t].state = "gone"
                ELSE threads'[t] = threads[t]
          /\ \A p \in Posts :
                IF posts[p].state \in Stored /\ threads[posts[p].thread].board = b
                THEN posts'[p].state = "gone"
                ELSE posts'[p] = posts[p]
      BY <2>1, DeleteBoardEffect
    <2>3. ASSUME NEW t \in Threads, threads'[t].state \in Stored
          PROVE  threads'[t] = threads[t] /\ StoredIn(t)' = StoredIn(t)
      <3>1. threads'[t] = threads[t] /\ threads[t].board # b
        BY <2>2, <2>3
      <3> QED
        BY <2>2, <3>1 DEF StoredIn
    <2> QED
      BY <1>2, <2>3
  <1>5. CASE Moderate /\ ~\E b \in Boards : DeleteBoard(b)
    <2>1. /\ \A t \in Threads : /\ threads'[t].replies = threads[t].replies
                                /\ threads'[t].state = threads[t].state
                                   \/ {threads[t].state, threads'[t].state} \subseteq Stored
          /\ \A p \in Posts : /\ posts'[p].thread = posts[p].thread
                              /\ posts'[p].state = posts[p].state
                                 \/ {posts[p].state, posts'[p].state} \subseteq Stored
      BY <1>5, ModerateFrame
    <2>2. \A t \in Threads : StoredIn(t)' = StoredIn(t)
      BY <2>1 DEF StoredIn
    <2> QED
      BY <1>2, <2>1, <2>2
  <1>6. CASE Tick \/ UNCHANGED vars
    <2>1. UNCHANGED <<threads, posts>>
      BY <1>6 DEF Tick, vars
    <2> QED
      BY <1>2, <2>1 DEF StoredIn
  <1> QED
    BY <1>3, <1>4, <1>5, <1>6 DEF Next

\* CountMatches: whatever replies overlap and whatever is deleted and restored,
\* reply_count is the number of stored posts besides the opening one.
THEOREM CountSafe == Spec => []CountMatches
  <1>1. Init => CountMatches
    BY DEF Init, CountMatches, NoThread, Stored
  <1> QED
    BY <1>1, InitRead, TypeStep, ReadInvStep, CountStep, PTL DEF Spec

-----------------------------------------------------------------------------
(***************************************************************************)
(* Closed threads.                                                         *)
(***************************************************************************)

LEMMA ReplyingFinite ==
    ASSUME NEW t
    PROVE  IsFiniteSet(Replying(t)) /\ Cardinality(Replying(t)) \in Nat
  BY FiniteAssumption, FS_Subset, FS_CardinalityType DEF Replying

\* No request begins to reply to a thread that does not take replies; one that
\* inserts stops replying.
LEMMA ReplyingStep ==
    ASSUME TypeOK, NEW r \in Requests, Post(r), NEW t \in Threads
    PROVE  /\ ~Open(threads[t]) => Replying(t)' \subseteq Replying(t)
           /\ InsertPost(r) /\ loc[r].thread = t =>
                r \in Replying(t) /\ Replying(t)' \subseteq Replying(t) \ {r}
  <1>1. \A q \in Requests \ {r} : pc'[q] = pc[q] /\ loc'[q] = loc[q]
    BY RequestFrame
  <1>2. ASSUME ~Open(threads[t]), pc'[r] \in PastLock, loc'[r].thread = t
        PROVE  pc[r] \in PastLock /\ loc[r].thread = t
    <2> USE DEF PastLock, Goto, Done, TypeOK, Locals
    <2>1. CASE ReadThread(r)
      BY <1>2, <2>1 DEF ReadThread, TakesReplies
    <2>2. CASE ReadReplyBoard(r) \/ ReadParent(r) \/ Stamp(r)
      BY <1>2, <2>2 DEF ReadReplyBoard, ReadParent, Stamp
    <2>3. CASE \/ \E u \in Users : CheckCooldown(r, u) \/ SkipCooldown(r, u)
               \/ ReadBoard(r) \/ InsertThread(r) \/ InsertPost(r) \/ Abandon(r)
      BY <1>2, <2>3 DEF CheckCooldown, SkipCooldown, Begin, ReadBoard, InsertThread,
                        InsertPost, Abandon
    <2> QED
      BY <2>1, <2>2, <2>3 DEF Post
  <1>3. InsertPost(r) => pc[r] \in PastLock /\ pc'[r] \notin PastLock
    BY DEF InsertPost, Done, Goto, PastLock, TypeOK
  <1> QED
    BY <1>1, <1>2, <1>3 DEF Replying

LEMMA ClosedStep ==
    ASSUME TypeOK, TypeOK', ReadInv, ClosedInv, [Next]_vars
    PROVE  ClosedInv'
  <1> USE DEF Stored
  <1>1. \A t \in Threads : /\ threads[t].replies \in Nat /\ threads'[t].replies \in Nat
                           /\ ceiling[t] \in Nat /\ ceiling'[t] \in Nat
    BY DEF TypeOK, ThreadRows
  <1>2. \A t \in Threads : /\ IsFiniteSet(Replying(t)) /\ Cardinality(Replying(t)) \in Nat
                           /\ IsFiniteSet(Replying(t)') /\ Cardinality(Replying(t)') \in Nat
    BY ReplyingFinite, FiniteAssumption, FS_Subset, FS_CardinalityType DEF Replying
  <1>3. ASSUME NEW t \in Threads, threads'[t] = threads[t], ceiling'[t] = ceiling[t],
               ~Open(threads[t]) => Replying(t)' \subseteq Replying(t),
               threads'[t].state \in Stored, ~Open(threads'[t])
        PROVE  threads'[t].replies + Cardinality(Replying(t)') <= ceiling'[t]
    <2>1. Cardinality(Replying(t)') <= Cardinality(Replying(t))
      BY <1>2, <1>3, FS_Subset
    <2>2. threads[t].replies + Cardinality(Replying(t)) <= ceiling[t]
      BY <1>3 DEF ClosedInv
    <2> QED
      BY <1>1, <1>2, <1>3, <2>1, <2>2
  <1>4. ASSUME NEW r \in Requests, Post(r)
        PROVE  ClosedInv'
    <2> SUFFICES ASSUME NEW t \in Threads, threads'[t].state \in Stored,
                        ~Open(threads'[t])
                 PROVE  threads'[t].replies + Cardinality(Replying(t)') <= ceiling'[t]
      BY DEF ClosedInv, Open
    <2>1. ceiling' = ceiling
      BY <1>4, RequestFrame
    <2>2. CASE threads'[t] = threads[t]
      BY <1>3, <1>4, <2>1, <2>2, ReplyingStep
    <2>3. CASE InsertThread(r) /\ threads'[t] # threads[t]
      <3>1. threads'[t] = NewThread(r)
        BY <2>3 DEF InsertThread, TypeOK, Unused
      <3> QED
        BY <3>1 DEF NewThread, Open
    <2>4. CASE InsertPost(r) /\ threads'[t] # threads[t]
      <3>1. t = loc[r].thread
        BY <2>4 DEF InsertPost, TypeOK
      <3>2. /\ threads'[t].replies = threads[t].replies + 1
            /\ threads'[t].state = threads[t].state /\ threads'[t].flags = threads[t].flags
        BY <2>4, <3>1 DEF InsertPost, TypeOK, ThreadRows
      <3>3. threads[t].replies + Cardinality(Replying(t)) <= ceiling[t]
        BY <3>2 DEF ClosedInv, Open
      <3>4. r \in Replying(t) /\ Replying(t)' \subseteq Replying(t) \ {r}
        BY <1>4, <2>4, <3>1, ReplyingStep
      <3>5. /\ Cardinality(Replying(t) \ {r}) = Cardinality(Replying(t)) - 1
            /\ IsFiniteSet(Replying(t) \ {r})
        BY <1>2, <3>4, FS_RemoveElement
      <3>6. Cardinality(Replying(t)') <= Cardinality(Replying(t) \ {r})
        BY <3>4, <3>5, FS_Subset
      <3> QED
        BY <1>1, <1>2, <2>1, <3>2, <3>3, <3>5, <3>6
    <2>5. CASE ReadOnly(r)
      BY <1>4, <2>2, <2>5, RequestFrame
    <2> QED
      BY <1>4, <2>2, <2>3, <2>4, <2>5, RequestFrame
  <1>5. ASSUME NEW u \in Threads, NEW row \in ThreadRows, Update(u, row),
               row.replies = threads[u].replies,
               row.state \in Stored => threads[u].state \in Stored
        PROVE  ClosedInv'
    <2> SUFFICES ASSUME NEW t \in Threads, threads'[t].state \in Stored,
                        ~Open(threads'[t])
                 PROVE  threads'[t].replies + Cardinality(Replying(t)') <= ceiling'[t]
      BY DEF ClosedInv, Open
    <2>1. Replying(t)' = Replying(t)
      BY <1>5 DEF Update, Replying
    <2>2. CASE t # u
      <3>1. threads'[t] = threads[t] /\ ceiling'[t] = ceiling[t]
        BY <1>5, <2>2 DEF Update, TypeOK
      <3> QED
        BY <1>3, <2>1, <3>1
    <2>3. CASE t = u
      <3>1. threads'[t] = row /\ ceiling'[t] = Ceiling(t, row)
        BY <1>5, <2>3 DEF Update, TypeOK
      <3>2. CASE Open(threads[t])
        BY <1>1, <1>2, <1>5, <2>1, <2>3, <3>1, <3>2 DEF Ceiling
      <3>3. CASE ~Open(threads[t])
        <4>1. threads[t].replies + Cardinality(Replying(t)) <= ceiling[t]
          BY <1>5, <2>3, <3>1, <3>3 DEF ClosedInv
        <4> QED
          BY <1>5, <2>1, <2>3, <3>1, <3>3, <4>1 DEF Ceiling
      <3> QED
        BY <3>2, <3>3
    <2> QED
      BY <2>2, <2>3
  <1>6. ASSUME NEW m \in Moderators, WriteToggle(m)
        PROVE  ClosedInv'
    <2> DEFINE w == toggle[m]
               row == [threads[w.thread] EXCEPT
                           !.flags = IF w.on THEN @ \cup {w.flag} ELSE @ \ {w.flag}]
    <2>1. w \in Toggles
      BY <1>6 DEF WriteToggle, TypeOK
    <2>2. w.thread \in Threads
      BY <2>1 DEF Toggles
    <2>3. row \in ThreadRows
      <3>1. \A x \in ThreadRows, f \in SUBSET Flags : [x EXCEPT !.flags = f] \in ThreadRows
        BY DEF ThreadRows
      <3>2. threads[w.thread].flags \in SUBSET Flags /\ w.flag \in Flags
        BY <2>1, <2>2 DEF TypeOK, ThreadRows, Toggles
      <3>3. threads[w.thread] \in ThreadRows
        BY <2>2 DEF TypeOK
      <3> QED
        BY <3>1, <3>2, <3>3
    <2>4. /\ row.replies = threads[w.thread].replies
          /\ row.state = threads[w.thread].state
      BY <2>2 DEF TypeOK, ThreadRows
    <2> QED
      BY <1>5, <1>6, <2>2, <2>3, <2>4 DEF WriteToggle
  <1>7. ASSUME NEW t \in Threads, TrashThread(t) \/ RestoreThread(t)
        PROVE  ClosedInv'
    <2>1. \A s \in Stored : /\ [threads[t] EXCEPT !.state = s] \in ThreadRows
                            /\ [threads[t] EXCEPT !.state = s].replies = threads[t].replies
      BY DEF TypeOK, ThreadRows, RowStates
    <2> QED
      BY <1>5, <1>7, <2>1 DEF TrashThread, RestoreThread
  <1>8. CASE \E b \in Boards : DeleteBoard(b)
    <2>1. PICK b \in Boards : DeleteBoard(b)
      BY <1>8
    <2>2. \A t \in Threads : threads'[t].state \in Stored =>
                threads'[t] = threads[t] /\ ~(threads[t].board = b)
      BY <2>1, DeleteBoardEffect
    <2>3. \A t \in Threads : Replying(t)' = Replying(t)
      BY <2>1 DEF DeleteBoard, Replying
    <2>4. \A t \in Threads : threads'[t].state \in Stored => ceiling'[t] = ceiling[t]
      BY <2>1, <2>2 DEF DeleteBoard
    <2> QED
      BY <1>3, <2>2, <2>3, <2>4 DEF ClosedInv, Open
  <1>9. CASE \/ \E m \in Moderators : ReadToggle(m) \/ DropToggle(m)
             \/ \E p \in Posts : TrashPost(p) \/ RestorePost(p)
             \/ \E b \in Boards : SaveBoard(b)
             \/ Tick \/ UNCHANGED vars
    <2>1. UNCHANGED <<threads, pc, loc, ceiling>>
      BY <1>9 DEF ReadToggle, DropToggle, TrashPost, RestorePost, CounterKept, SaveBoard,
                  Tick, vars
    <2> QED
      BY <2>1 DEF ClosedInv, Open, Replying
  <1> QED
    BY <1>4, <1>6, <1>7, <1>8, <1>9 DEF Next, Moderate

\* ClosedBounded: a locked or deleted thread takes only the replies that had read
\* it before, for every number of requests and any toggles of moderators.
THEOREM ClosedSafe == Spec => []ClosedBounded
  <1>1. Init => ClosedInv
    BY DEF Init, ClosedInv, NoThread, Stored
  <1>2. TypeOK /\ ClosedInv => ClosedBounded
    <2> SUFFICES ASSUME TypeOK, ClosedInv, NEW t \in Threads,
                        threads[t].state \in Stored, ~Open(threads[t])
                 PROVE  threads[t].replies <= ceiling[t]
      BY DEF ClosedBounded
    <2>1. threads[t].replies \in Nat /\ ceiling[t] \in Nat /\ Cardinality(Replying(t)) \in Nat
      BY ReplyingFinite DEF TypeOK, ThreadRows
    <2>2. threads[t].replies + Cardinality(Replying(t)) <= ceiling[t]
      BY DEF ClosedInv
    <2> QED
      BY <2>1, <2>2
  <1> QED
    BY <1>1, <1>2, InitRead, TypeStep, ReadInvStep, ClosedStep, PTL DEF Spec

-----------------------------------------------------------------------------
(***************************************************************************)
(* The cooldown.                                                           *)
(***************************************************************************)

LEMMA CooldownSets ==
    ASSUME NEW u
    PROVE  /\ IsFiniteSet(Recent(u)) /\ Cardinality(Recent(u)) \in Nat
           /\ IsFiniteSet(Naming(u)) /\ Cardinality(Naming(u)) \in Nat
           /\ Cardinality(Naming(u)) <= Cardinality(Requests)
           /\ Cardinality(Requests) \in Nat
  <1>1. Recent(u) \subseteq Posts /\ Naming(u) \subseteq Requests
    BY DEF Recent, PostsBy, Naming
  <1> QED
    BY <1>1, FiniteAssumption, FS_Subset, FS_CardinalityType

LEMMA CooldownSetsNext ==
    ASSUME NEW u \in Users
    PROVE  /\ IsFiniteSet(Recent(u)') /\ Cardinality(Recent(u)') \in Nat
           /\ IsFiniteSet(Naming(u)') /\ Cardinality(Naming(u)') \in Nat
           /\ Cardinality(Naming(u)') <= Cardinality(Requests)
  <1>1. Recent(u)' \subseteq Posts /\ Naming(u)' \subseteq Requests
    BY DEF Recent, PostsBy, Naming
  <1> QED
    BY <1>1, FiniteAssumption, FS_Subset, FS_CardinalityType

\* Only a request that begins joins those that may post under a name.
LEMMA NamingStep ==
    ASSUME TypeOK, NEW r \in Requests, Post(r), NEW u \in Users
    PROVE  \/ Naming(u)' \subseteq Naming(u)
           \/ CheckCooldown(r, u)
           \/ u \in Exempt
  <1>1. \A q \in Requests \ {r} : pc'[q] = pc[q] /\ loc'[q] = loc[q]
    BY RequestFrame
  <1> USE DEF Goto, Done, TypeOK, Locals
  <1>2. ASSUME NEW v \in Users, CheckCooldown(r, v) \/ SkipCooldown(r, v)
        PROVE  \/ r \notin Naming(u)' \/ CheckCooldown(r, u) \/ u \in Exempt
    BY <1>2 DEF CheckCooldown, SkipCooldown, Begin, Asking, Naming
  <1>3. ASSUME ReadBoard(r) \/ ReadThread(r) \/ ReadReplyBoard(r) \/ ReadParent(r) \/ Stamp(r)
        PROVE  r \in Naming(u)' => r \in Naming(u)
    <2>1. /\ pc[r] # "idle"
          /\ loc'[r].user = loc[r].user /\ loc'[r].anonymous = loc[r].anonymous
      <3>1. CASE ReadBoard(r)
        BY <3>1 DEF ReadBoard
      <3>2. CASE ReadThread(r)
        BY <3>2 DEF ReadThread
      <3>3. CASE ReadReplyBoard(r) \/ ReadParent(r) \/ Stamp(r)
        BY <3>3 DEF ReadReplyBoard, ReadParent, Stamp
      <3> QED
        BY <1>3, <3>1, <3>2, <3>3
    <2> QED
      BY <2>1 DEF Naming
  <1>4. ASSUME InsertThread(r) \/ InsertPost(r) \/ Abandon(r)
        PROVE  r \notin Naming(u)'
    BY <1>4 DEF InsertThread, InsertPost, Abandon, Naming
  <1>5. \A q \in Requests \ {r} : q \in Naming(u)' <=> q \in Naming(u)
    BY <1>1 DEF Naming
  <1>6. Naming(u) \subseteq Requests /\ Naming(u)' \subseteq Requests
    BY DEF Naming
  <1> QED
    BY <1>2, <1>3, <1>4, <1>5, <1>6 DEF Post

\* An insert adds to the recent posts of its own user alone, and ends.
LEMMA RecentInsert ==
    ASSUME TypeOK, ReadInv, NEW r \in Requests, InsertThread(r) \/ InsertPost(r),
           NEW u \in Users
    PROVE  \/ Recent(u)' \subseteq Recent(u)
           \/ /\ r \in Naming(u) /\ r \notin Naming(u)'
              /\ \E p \in Posts : Recent(u)' \subseteq Recent(u) \cup {p}
  <1>1. PICK p \in Unused(posts) : \E t : posts' = [posts EXCEPT ![p] = NewPost(r, t)]
    BY DEF InsertThread, InsertPost
  <1>2. p \in Posts
    BY <1>1 DEF Unused, TypeOK
  <1>3. /\ posts'[p].author = Author(r)
        /\ \A i \in Posts \ {p} : posts'[i] = posts[i]
    BY <1>1, <1>2 DEF TypeOK, NewPost
  <1>4. now' = now /\ pc[r] # "idle" /\ pc'[r] = "idle"
    BY DEF InsertThread, InsertPost, Done, Goto, TypeOK
  <1>5. \A i \in Posts \ {p} : i \in Recent(u)' => i \in Recent(u)
    BY <1>3, <1>4 DEF Recent, PostsBy
  <1>6. Recent(u)' \subseteq Posts
    BY DEF Recent, PostsBy
  <1>7. CASE Author(r) = u
    <2>1. r \in Naming(u)
      BY <1>4, <1>7, NoneAssumption DEF Author, Naming
    <2>2. r \notin Naming(u)'
      BY <1>4 DEF Naming
    <2>3. Recent(u)' \subseteq Recent(u) \cup {p}
      BY <1>5, <1>6
    <2> QED
      BY <1>2, <2>1, <2>2, <2>3
  <1>8. CASE Author(r) # u
    <2>1. p \notin Recent(u)'
      BY <1>3, <1>8 DEF Recent, PostsBy
    <2> QED
      BY <1>5, <1>6, <2>1
  <1> QED
    BY <1>7, <1>8

LEMMA CooldownStep ==
    ASSUME TypeOK, ReadInv, CooldownInv, [Next]_vars
    PROVE  CooldownInv'
  <1> SUFFICES ASSUME NEW u \in Users \ Exempt
               PROVE  Cardinality(Recent(u)') + Cardinality(Naming(u)')
                          <= Cardinality(Requests)
    BY DEF CooldownInv
  <1>1. /\ IsFiniteSet(Recent(u)) /\ Cardinality(Recent(u)) \in Nat
        /\ IsFiniteSet(Naming(u)) /\ Cardinality(Naming(u)) \in Nat
        /\ Cardinality(Requests) \in Nat
        /\ Cardinality(Recent(u)) + Cardinality(Naming(u)) <= Cardinality(Requests)
    BY CooldownSets DEF CooldownInv
  <1>2. /\ IsFiniteSet(Recent(u)') /\ Cardinality(Recent(u)') \in Nat
        /\ IsFiniteSet(Naming(u)') /\ Cardinality(Naming(u)') \in Nat
        /\ Cardinality(Naming(u)') <= Cardinality(Requests)
    BY CooldownSetsNext
  <1>3. CASE Recent(u)' \subseteq Recent(u) /\ Naming(u)' \subseteq Naming(u)
    <2>1. /\ Cardinality(Recent(u)') <= Cardinality(Recent(u))
          /\ Cardinality(Naming(u)') <= Cardinality(Naming(u))
      BY <1>1, <1>3, FS_Subset
    <2> QED
      BY <1>1, <1>2, <2>1
  <1>4. ASSUME NEW r \in Requests, Post(r)
        PROVE  Cardinality(Recent(u)') + Cardinality(Naming(u)') <= Cardinality(Requests)
    <2>1. CASE ReadOnly(r)
      <3>1. Recent(u)' = Recent(u)
        BY <1>4, <2>1, RequestFrame DEF Recent, PostsBy
      <3>2. CASE CheckCooldown(r, u)
        <4>1. Recent(u)' = {}
          BY <3>1, <3>2 DEF CheckCooldown, CoolingDown
        <4>2. Cardinality(Recent(u)') = 0
          BY <4>1, FS_EmptySet
        <4> QED
          BY <1>1, <1>2, <4>2
      <3> QED
        BY <1>3, <1>4, <3>1, <3>2, NamingStep
    <2>2. CASE InsertThread(r) \/ InsertPost(r)
      <3>1. Naming(u)' \subseteq Naming(u)
        <4>1. pc[r] # "idle"
          BY <2>2 DEF InsertThread, InsertPost
        <4> QED
          BY <1>4, <4>1, NamingStep DEF CheckCooldown, Begin
      <3>2. CASE ~(Recent(u)' \subseteq Recent(u))
        <4>1. PICK p \in Posts : Recent(u)' \subseteq Recent(u) \cup {p}
          BY <2>2, <3>2, RecentInsert
        <4>2. r \in Naming(u) /\ Naming(u)' \subseteq Naming(u) \ {r}
          BY <2>2, <3>1, <3>2, RecentInsert
        <4>3. /\ IsFiniteSet(Recent(u) \cup {p})
              /\ Cardinality(Recent(u) \cup {p}) <= Cardinality(Recent(u)) + 1
              /\ Cardinality(Recent(u) \cup {p}) \in Nat
          <5>1. CASE p \in Recent(u)
            <6>1. Recent(u) \cup {p} = Recent(u)
              BY <5>1
            <6>2. /\ Cardinality(Recent(u) \cup {p}) = Cardinality(Recent(u))
                  /\ IsFiniteSet(Recent(u) \cup {p})
              BY <1>1, <6>1, Zenon
            <6> QED
              BY <1>1, <6>2
          <5>2. CASE p \notin Recent(u)
            BY <1>1, <5>2, FS_AddElement
          <5> QED
            BY <5>1, <5>2
        <4>4. Cardinality(Recent(u)') <= Cardinality(Recent(u) \cup {p})
          BY <4>1, <4>3, FS_Subset
        <4>5. /\ IsFiniteSet(Naming(u) \ {r})
              /\ Cardinality(Naming(u) \ {r}) = Cardinality(Naming(u)) - 1
          BY <1>1, <4>2, FS_RemoveElement
        <4>6. Cardinality(Naming(u)') <= Cardinality(Naming(u) \ {r})
          BY <4>2, <4>5, FS_Subset
        <4> QED
          BY <1>1, <1>2, <4>3, <4>4, <4>5, <4>6
      <3> QED
        BY <1>3, <3>1, <3>2
    <2> QED
      BY <1>4, <2>1, <2>2, RequestFrame
  <1>5. CASE \E b \in Boards : DeleteBoard(b)
    <2>1. /\ UNCHANGED <<now, pc, loc>>
          /\ \A p \in Posts : posts'[p].state \in Stored => posts'[p] = posts[p]
      BY <1>5, DeleteBoardEffect DEF Stored
    <2> QED
      BY <1>3, <2>1 DEF Recent, PostsBy, Naming
  <1>6. CASE Moderate /\ ~\E b \in Boards : DeleteBoard(b)
    <2>1. /\ UNCHANGED <<now, pc, loc>>
          /\ \A p \in Posts : /\ posts'[p].author = posts[p].author
                              /\ posts'[p].at = posts[p].at
                              /\ posts'[p].state = posts[p].state
                                 \/ {posts[p].state, posts'[p].state} \subseteq Stored
      BY <1>6, ModerateFrame
    <2> QED
      BY <1>3, <2>1 DEF Recent, PostsBy, Naming
  <1>7. CASE Tick \/ UNCHANGED vars
    <2>1. /\ UNCHANGED <<posts, pc, loc>>
          /\ now \in Nat /\ now' \in Nat /\ now' >= now
      BY <1>7, TimeAssumption DEF Tick, vars, TypeOK
    <2>2. \A p \in Posts : posts[p].at \in Nat
      BY DEF TypeOK, PostRows
    <2>3. Recent(u)' \subseteq Recent(u)
      BY <2>1, <2>2, TimeAssumption DEF Recent, PostsBy
    <2> QED
      BY <1>3, <2>1, <2>3 DEF Naming
  <1> QED
    BY <1>4, <1>5, <1>6, <1>7 DEF Next

\* CooldownBounded: requests of one user that overlap may each get past the
\* cooldown once, and no more, whatever is deleted in between.
THEOREM CooldownSafe == Spec => []CooldownBounded
  <1>1. Init => CooldownInv
    <2> SUFFICES ASSUME Init, NEW u \in Users
                 PROVE  Cardinality(Recent(u)) + Cardinality(Naming(u))
                            <= Cardinality(Requests)
      BY DEF CooldownInv
    <2>1. Recent(u) = {} /\ Naming(u) = {}
      BY DEF Init, Recent, PostsBy, Naming, NoPost, Stored
    <2> QED
      BY <2>1, CooldownSets, FS_EmptySet
  <1>2. CooldownInv => CooldownBounded
    <2> SUFFICES ASSUME CooldownInv, NEW u \in Users \ Exempt
                 PROVE  Cardinality(Recent(u)) <= Cardinality(Requests)
      BY DEF CooldownBounded
    <2> QED
      BY CooldownSets DEF CooldownInv
  <1> QED
    BY <1>1, <1>2, InitRead, TypeStep, ReadInvStep, CooldownStep, PTL DEF Spec

-----------------------------------------------------------------------------
(***************************************************************************)
(* Anonymous posts.                                                        *)
(***************************************************************************)

LEMMA AnonymousPostStep ==
    ASSUME TypeOK, ReadInv, AnonymousInv, AnonymousAllowed, NEW r \in Requests, Post(r)
    PROVE  AnonymousInv' /\ AnonymousAllowed'
  <1>1. /\ \A q \in Requests \ {r} : pc'[q] = pc[q] /\ loc'[q] = loc[q]
        /\ UNCHANGED <<boards, everOpen>>
    BY RequestFrame
  <1>2. Local(r)
    BY DEF ReadInv
  <1> USE DEF Goto, Done, Nothing, Asking, Creating, PastBoard, Stored
  <1>3. loc'[r].anonymous => /\ pc'[r] \in Creating => loc'[r].board \in everOpen
                             /\ pc'[r] \in PastBoard =>
                                    loc'[r].board \in everOpen \/ boards[loc'[r].board] = "gone"
    <2> USE DEF TypeOK, Locals
    <2>1. CASE \E u \in Users : Begin(r, u)
      BY <2>1 DEF Begin
    <2>2. CASE ReadBoard(r)
      BY <2>2 DEF ReadBoard, Allows, AnonymousInv
    <2>3. CASE ReadThread(r)
      BY <2>3 DEF ReadThread
    <2>4. CASE ReadReplyBoard(r)
      BY <1>2, <2>4 DEF ReadReplyBoard, AllowsReply, AnonymousInv, Local, PastLock, BoardStates
    <2>5. CASE ReadParent(r) \/ Stamp(r)
      BY <2>5 DEF ReadParent, Stamp, AnonymousInv
    <2>6. CASE InsertThread(r) \/ InsertPost(r) \/ Abandon(r)
      BY <2>6 DEF InsertThread, InsertPost, Abandon
    <2> QED
      BY <2>1, <2>2, <2>3, <2>4, <2>5, <2>6 DEF Post, CheckCooldown, SkipCooldown
  <1>4. AnonymousInv'
    BY <1>1, <1>3 DEF AnonymousInv
  <1>5. \A p \in Posts : posts[p].state \in Stored => posts[p].thread \in Threads
                                                      /\ threads[posts[p].thread].state \in Stored
    BY DEF ReadInv, RowsInv
  <1>6. Author(r) = None /\ pc[r] # "idle" => loc[r].anonymous
    BY <1>2, NoneAssumption DEF Author, Local, TypeOK, Locals
  <1>7. CASE ReadOnly(r)
    <2>1. UNCHANGED <<threads, posts>>
      BY <1>7, RequestFrame
    <2> QED
      BY <1>1, <1>4, <2>1 DEF AnonymousAllowed
  <1>8. CASE InsertThread(r)
    <2>1. PICK t \in Unused(threads), p \in Unused(posts) :
              /\ threads' = [threads EXCEPT ![t] = NewThread(r)]
              /\ posts' = [posts EXCEPT ![p] = NewPost(r, t)]
      BY <1>8 DEF InsertThread
    <2>2. /\ t \in Threads /\ threads[t].state = "unused" /\ p \in Posts
          /\ pc[r] = "insertThread"
      BY <1>8 DEF Unused, TypeOK, InsertThread
    <2>3. /\ threads'[t].board = loc[r].board
          /\ \A i \in Threads \ {t} : threads'[i] = threads[i]
          /\ posts'[p].thread = t /\ posts'[p].author = Author(r)
          /\ \A i \in Posts \ {p} : posts'[i] = posts[i]
      BY <2>1, <2>2 DEF TypeOK, NewThread, NewPost
    <2>4. Author(r) = None => loc[r].board \in everOpen
      BY <1>6, <2>2 DEF AnonymousInv
    <2>5. AnonymousAllowed'
      BY <1>1, <1>5, <2>2, <2>3, <2>4 DEF AnonymousAllowed
    <2> QED
      BY <1>4, <2>5
  <1>9. CASE InsertPost(r)
    <2>1. PICK p \in Unused(posts) : posts' = [posts EXCEPT ![p] = NewPost(r, loc[r].thread)]
      BY <1>9 DEF InsertPost
    <2>2. /\ p \in Posts /\ pc[r] = "insertPost" /\ threads[loc[r].thread].state \in Stored
      BY <1>9 DEF Unused, TypeOK, InsertPost
    <2>3. /\ loc[r].thread \in Threads /\ threads[loc[r].thread].board = loc[r].board
      BY <1>2, <2>2 DEF Local, PastLock
    <2>4. \A i \in Threads : threads'[i].board = threads[i].board
      BY <1>9, <2>3 DEF InsertPost, TypeOK, ThreadRows
    <2>5. /\ posts'[p].thread = loc[r].thread /\ posts'[p].author = Author(r)
          /\ \A i \in Posts \ {p} : posts'[i] = posts[i]
      BY <2>1, <2>2 DEF TypeOK, NewPost
    <2>6. boards[loc[r].board] # "gone"
      BY <2>2, <2>3 DEF ReadInv, RowsInv, Exists
    <2>7. Author(r) = None => loc[r].board \in everOpen
      BY <1>6, <2>2, <2>6 DEF AnonymousInv
    <2>8. AnonymousAllowed'
      BY <1>1, <1>5, <2>2, <2>3, <2>4, <2>5, <2>7 DEF AnonymousAllowed
    <2> QED
      BY <1>4, <2>8
  <1> QED
    BY <1>7, <1>8, <1>9, RequestFrame

LEMMA AnonymousStep ==
    ASSUME TypeOK, ReadInv, AnonymousInv, AnonymousAllowed, [Next]_vars
    PROVE  AnonymousInv' /\ AnonymousAllowed'
  <1> USE DEF Stored
  <1>1. CASE \E r \in Requests : Post(r)
    BY <1>1, AnonymousPostStep
  <1>2. \A p \in Posts : posts[p].state \in Stored => posts[p].thread \in Threads
    BY DEF ReadInv, RowsInv
  <1>3. CASE \E b \in Boards : DeleteBoard(b)
    <2>1. PICK b \in Boards : DeleteBoard(b)
      BY <1>3
    <2>2. /\ boards' = [boards EXCEPT ![b] = "gone"]
          /\ UNCHANGED <<pc, loc, everOpen>>
          /\ \A t \in Threads :
                IF threads[t].state \in Stored /\ threads[t].board = b
                THEN threads'[t].state = "gone"
                ELSE threads'[t] = threads[t]
          /\ \A p \in Posts :
                IF posts[p].state \in Stored /\ threads[posts[p].thread].board = b
                THEN posts'[p].state = "gone"
                ELSE posts'[p] = posts[p]
      BY <2>1, DeleteBoardEffect
    <2>3. AnonymousInv'
      BY <2>2 DEF AnonymousInv, TypeOK, Locals
    <2>4. AnonymousAllowed'
      BY <1>2, <2>2 DEF AnonymousAllowed
    <2> QED
      BY <2>3, <2>4
  <1>4. CASE Moderate /\ ~\E b \in Boards : DeleteBoard(b)
    <2>1. /\ UNCHANGED <<pc, loc>>
          /\ \A t \in Threads : threads'[t].board = threads[t].board
          /\ \A p \in Posts : /\ posts'[p].thread = posts[p].thread
                              /\ posts'[p].author = posts[p].author
                              /\ posts'[p].state = posts[p].state
                                 \/ {posts[p].state, posts'[p].state} \subseteq Stored
          /\ \/ UNCHANGED <<boards, everOpen>>
             \/ \E b \in Boards : SaveBoard(b)
      BY <1>4, ModerateFrame
    <2>2. /\ everOpen \subseteq everOpen'
          /\ \A b \in Boards : boards[b] = "gone" => boards'[b] = "gone"
          /\ \A b \in Boards : boards'[b] = "open" => b \in everOpen' \/ boards[b] = "open"
      <3>1. CASE UNCHANGED <<boards, everOpen>>
        BY <3>1
      <3>2. CASE \E b \in Boards : SaveBoard(b)
        BY <3>2 DEF SaveBoard, TypeOK
      <3> QED
        BY <2>1, <3>1, <3>2
    <2>3. \A q \in Requests : pc[q] \in PastBoard => loc[q].board \in Boards
      BY DEF ReadInv, Local, PastBoard, PastLock
    <2>5. AnonymousInv'
      BY <2>1, <2>2, <2>3 DEF AnonymousInv
    <2>4. AnonymousAllowed'
      BY <1>2, <2>1, <2>2 DEF AnonymousAllowed
    <2> QED
      BY <2>4, <2>5
  <1>5. CASE Tick \/ UNCHANGED vars
    <2>1. UNCHANGED <<boards, threads, posts, pc, loc, everOpen>>
      BY <1>5 DEF Tick, vars
    <2> QED
      BY <2>1 DEF AnonymousInv, AnonymousAllowed
  <1> QED
    BY <1>1, <1>3, <1>4, <1>5 DEF Next

\* AnonymousAllowed: no anonymous post is stored on a board that never allowed
\* one, although reply does not refuse when it finds no board.
THEOREM AnonymousSafe == Spec => []AnonymousAllowed
  <1>1. Init => AnonymousInv /\ AnonymousAllowed
    BY DEF Init, AnonymousInv, AnonymousAllowed, Nothing, Asking, NoPost, Stored
  <1> QED
    BY <1>1, InitRead, TypeStep, ReadInvStep, AnonymousStep, PTL DEF Spec

=============================================================================
