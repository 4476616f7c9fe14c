------------------------------ MODULE Posting ------------------------------
(***************************************************************************)
(* Threads, replies and the trash: new_thread, reply, pin, lock, delete,   *)
(* restore and the board forms of src/handler/mod.rs, over the tables      *)
(* boards, threads and posts of src/store.rs.                              *)
(*                                                                         *)
(* A post is written several statements after the checks that allowed it:  *)
(* the cooldown, the lock, the board's rule on anonymous posts and the     *)
(* parent are read, each by a statement of its own, then the clock, and    *)
(* one transaction inserts.  Meanwhile moderators lock and delete.  That   *)
(* the session is valid and the moderator allowed is decided before, and   *)
(* is not modelled here.                                                   *)
(***************************************************************************)
EXTENDS Integers, FiniteSets

CONSTANTS
    Users,          \* accounts that post
    Exempt,         \* users whom nothing holds to the cooldown
    Boards,         \* board ids, each given once
    Threads,        \* thread ids, each given once
    Posts,          \* post ids, each given once
    Requests,       \* posting requests running at a time
    Moderators,     \* pin and lock requests running at a time
    Flags,          \* what moderators toggle: {"pinned", "locked"}
    Rules,          \* what board forms set: {"open", "named"}
    Anonymity,      \* what posting forms ask for: BOOLEAN
    Cooldown,       \* post_cooldown_seconds, while it is not 0
    MaxTime,        \* bound of the clock
    None

ASSUME FiniteAssumption == IsFiniteSet(Posts) /\ IsFiniteSet(Requests)
ASSUME ExemptAssumption == Exempt \subseteq Users
ASSUME FormsAssumption ==
    /\ Flags \subseteq {"pinned", "locked"}
    /\ Rules \subseteq {"open", "named"}
    /\ Anonymity \subseteq BOOLEAN
ASSUME TimeAssumption == Cooldown \in Nat \ {0} /\ MaxTime \in Nat
ASSUME NoneAssumption ==
    None \notin Users \cup Boards \cup Threads \cup Posts

VARIABLES
    boards,     \* [Boards -> BoardStates]
    threads,    \* [Threads -> ThreadRows]
    posts,      \* [Posts -> PostRows]
    now,
    pc,         \* [Requests -> Labels]
    loc,        \* [Requests -> Locals]
    toggle,     \* [Moderators -> Toggles \cup {None}]: the write a pin or lock
                \* request has decided on
    ceiling,    \* history: the replies a closed thread may still reach
    everOpen    \* history: boards that at some time took anonymous posts

vars == <<boards, threads, posts, now, pc, loc, toggle, ceiling, everOpen>>

\* allow_anonymous is "open" or "named"; a deleted row is "gone" for good.
BoardStates == {"unused", "open", "named", "gone"}
\* deleted_at IS NULL is "live", otherwise "trash".
RowStates == {"unused", "live", "trash", "gone"}
Stored == {"live", "trash"}

ThreadRows == [state : RowStates, board : Boards \cup {None},
               flags : SUBSET Flags, replies : Nat]
PostRows == [state : RowStates, thread : Threads \cup {None},
             author : Users \cup {None}, parent : Posts \cup {None}, at : 0..MaxTime]

\* What the handler holds: the user, the checkbox "anonymous", then what it read.
Locals == [user : Users \cup {None}, anonymous : BOOLEAN,
           board : Boards \cup {None}, thread : Threads \cup {None},
           parent : Posts \cup {None}, at : 0..MaxTime]
Asking(u, a) == [user |-> u, anonymous |-> a, board |-> None,
                 thread |-> None, parent |-> None, at |-> 0]
Nothing == Asking(None, FALSE)

Toggles == [thread : Threads, flag : Flags, on : BOOLEAN]

\* The statement a request executes next.
Labels == {"idle", "target", "stampThread", "insertThread",
           "board", "parent", "stampPost", "insertPost"}
PastLock == {"board", "parent", "stampPost", "insertPost"}

NoThread == [state |-> "unused", board |-> None, flags |-> {}, replies |-> 0]
NoPost == [state |-> "unused", thread |-> None, author |-> None, parent |-> None,
           at |-> 0]

TypeOK ==
    /\ boards \in [Boards -> BoardStates]
    /\ threads \in [Threads -> ThreadRows]
    /\ posts \in [Posts -> PostRows]
    /\ now \in 0..MaxTime
    /\ pc \in [Requests -> Labels]
    /\ loc \in [Requests -> Locals]
    /\ toggle \in [Moderators -> Toggles \cup {None}]
    /\ ceiling \in [Threads -> Nat]
    /\ everOpen \in SUBSET Boards

Init ==
    /\ boards = [b \in Boards |-> "unused"]
    /\ threads = [t \in Threads |-> NoThread]
    /\ posts = [p \in Posts |-> NoPost]
    /\ now = 0
    /\ pc = [r \in Requests |-> "idle"]
    /\ loc = [r \in Requests |-> Nothing]
    /\ toggle = [m \in Moderators |-> None]
    /\ ceiling = [t \in Threads |-> 0]
    /\ everOpen = {}

Goto(r, label) == pc' = [pc EXCEPT ![r] = label]
Done(r) == Goto(r, "idle") /\ loc' = [loc EXCEPT ![r] = Nothing]

Exists(b) == boards[b] \in {"open", "named"}
Open(row) == row.state = "live" /\ "locked" \notin row.flags

-----------------------------------------------------------------------------
(***************************************************************************)
(* new_thread and reply.                                                   *)
(***************************************************************************)

\* last_post_at: posts in the trash count, anonymous ones have no author.
PostsBy(u) == {p \in Posts : posts[p].state \in Stored /\ posts[p].author = u}
VisibleBy(u) == {p \in Posts : posts[p].state = "live" /\ posts[p].author = u}

\* elapsed < seconds, for the newest post of the user.
Recent(u) == {p \in PostsBy(u) : now - posts[p].at < Cooldown}
RecentVisible(u) == {p \in VisibleBy(u) : now - posts[p].at < Cooldown}
CoolingDownVisible(u) == RecentVisible(u) # {}
CoolingDown(u) == Recent(u) # {}

Begin(r, u) ==
    /\ pc[r] = "idle"
    /\ \E a \in Anonymity :
        loc' = [loc EXCEPT ![r] = Asking(u, a)]
    /\ Goto(r, "target")

\* post_cooldown_response finds that the user may post.
CheckCooldown(r, u) ==
    /\ ~CoolingDown(u)
    /\ Begin(r, u)
    /\ UNCHANGED <<boards, threads, posts, now, toggle, ceiling, everOpen>>

\* post_cooldown_response does not hold the user to it: an administrator; any
\* user while the setting is 0 or cannot be read, or the last post cannot.
SkipCooldown(r, u) ==
    /\ u \in Exempt
    /\ Begin(r, u)
    /\ UNCHANGED <<boards, threads, posts, now, toggle, ceiling, everOpen>>

\* new_thread reads the board, and refuses what it does not allow.
Allows(b, anonymous) == boards[b] = "open" \/ (boards[b] = "named" /\ ~anonymous)

ReadBoard(r) ==
    /\ pc[r] = "target"
    /\ \E b \in Boards :
        /\ Allows(b, loc[r].anonymous)
        /\ loc' = [loc EXCEPT ![r].board = b]
    /\ Goto(r, "stampThread")
    /\ UNCHANGED <<boards, threads, posts, now, toggle, ceiling, everOpen>>

\* reply reads the thread: not in the trash, not locked.
TakesRepliesInTrash(t) ==
    threads[t].state \in Stored /\ "locked" \notin threads[t].flags
TakesReplies(t) == Open(threads[t])

ReadThread(r) ==
    /\ pc[r] = "target"
    /\ \E t \in Threads :
        /\ TakesReplies(t)
        /\ loc' = [loc EXCEPT ![r].thread = t, ![r].board = threads[t].board]
    /\ Goto(r, "board")
    /\ UNCHANGED <<boards, threads, posts, now, toggle, ceiling, everOpen>>

\* reply reads the board: it refuses an anonymous reply on a board that is there
\* and does not allow it; a board that is gone refuses nothing.
AllowsAnyReply(b, anonymous) == TRUE
AllowsReply(b, anonymous) == ~(anonymous /\ boards[b] = "named")

ReadReplyBoard(r) ==
    /\ pc[r] = "board"
    /\ AllowsReply(loc[r].board, loc[r].anonymous)
    /\ Goto(r, "parent")
    /\ UNCHANGED <<boards, threads, posts, now, loc, toggle, ceiling, everOpen>>

\* get_post: a parent in the trash, of another thread, or one that cannot be
\* read counts as none.
AnyLive(t) == {p \in Posts : posts[p].state = "live"}
ValidParents(t) == {p \in Posts : posts[p].state = "live" /\ posts[p].thread = t}

ReadParent(r) ==
    /\ pc[r] = "parent"
    /\ \E p \in ValidParents(loc[r].thread) \cup {None} :
        loc' = [loc EXCEPT ![r].parent = p]
    /\ Goto(r, "stampPost")
    /\ UNCHANGED <<boards, threads, posts, now, toggle, ceiling, everOpen>>

\* create_thread and create_post_with_parent take the time, then a connection.
Clock == now

Stamp(r) ==
    /\ \/ pc[r] = "stampThread" /\ Goto(r, "insertThread")
       \/ pc[r] = "stampPost" /\ Goto(r, "insertPost")
    /\ loc' = [loc EXCEPT ![r].at = Clock]
    /\ UNCHANGED <<boards, threads, posts, now, toggle, ceiling, everOpen>>

Author(r) == IF loc[r].anonymous THEN None ELSE loc[r].user

NewPost(r, t) ==
    [state |-> "live", thread |-> t, author |-> Author(r),
     parent |-> loc[r].parent, at |-> loc[r].at]
NewThread(r) ==
    [state |-> "live", board |-> loc[r].board, flags |-> {}, replies |-> 0]

Unused(table) == {i \in DOMAIN table : table[i].state = "unused"}

\* create_thread: thread and opening post in one transaction; the foreign key
\* refuses a board that is gone.
InsertThread(r) ==
    /\ pc[r] = "insertThread"
    /\ Exists(loc[r].board)
    /\ \E t \in Unused(threads), p \in Unused(posts) :
        /\ threads' = [threads EXCEPT ![t] = NewThread(r)]
        /\ posts' = [posts EXCEPT ![p] = NewPost(r, t)]
    /\ Done(r)
    /\ UNCHANGED <<boards, now, toggle, ceiling, everOpen>>

\* create_post_with_parent: the post and the counter in one transaction; the
\* foreign key refuses a thread that is gone, not one that is in the trash.
InsertPost(r) ==
    /\ pc[r] = "insertPost"
    /\ threads[loc[r].thread].state \in Stored
    /\ \E p \in Unused(posts) :
        posts' = [posts EXCEPT ![p] = NewPost(r, loc[r].thread)]
    /\ threads' = [threads EXCEPT ![loc[r].thread].replies = @ + 1]
    /\ Done(r)
    /\ UNCHANGED <<boards, now, toggle, ceiling, everOpen>>

\* Refused by a check, by the captcha, the proof of work, the rate limit or the
\* form; a failed statement; a client that hangs up: nothing was written.
Abandon(r) ==
    /\ pc[r] # "idle"
    /\ Done(r)
    /\ UNCHANGED <<boards, threads, posts, now, toggle, ceiling, everOpen>>

-----------------------------------------------------------------------------
(***************************************************************************)
(* pin, lock, delete and restore.                                          *)
(***************************************************************************)

\* The replies that are past the check of the lock.
Replying(t) == {r \in Requests : pc[r] \in PastLock /\ loc[r].thread = t}

\* History: a thread that closes may still take the replies under way.
Ceiling(t, row) ==
    IF Open(row) THEN 0
    ELSE IF Open(threads[t]) THEN threads[t].replies + Cardinality(Replying(t))
    ELSE ceiling[t]

Update(t, row) ==
    /\ threads' = [threads EXCEPT ![t] = row]
    /\ ceiling' = [ceiling EXCEPT ![t] = Ceiling(t, row)]
    /\ UNCHANGED <<boards, posts, now, pc, loc, everOpen>>

\* pin and lock read the thread and decide to write the opposite of its flag.
ReadToggle(m) ==
    /\ toggle[m] = None
    /\ \E t \in Threads, f \in Flags :
        /\ threads[t].state = "live"
        /\ toggle' = [toggle EXCEPT ![m] = [thread |-> t, flag |-> f,
                                            on |-> f \notin threads[t].flags]]
    /\ UNCHANGED <<boards, threads, posts, now, pc, loc, ceiling, everOpen>>

\* set_thread_pinned, set_thread_locked: no condition on the row.
WriteToggle(m) ==
    LET w == toggle[m] IN
    /\ w # None
    /\ threads[w.thread].state \in Stored
    /\ Update(w.thread, [threads[w.thread] EXCEPT
            !.flags = IF w.on THEN @ \cup {w.flag} ELSE @ \ {w.flag}])
    /\ toggle' = [toggle EXCEPT ![m] = None]

\* The moderator hangs up, the statement fails, or the thread is gone.
DropToggle(m) ==
    /\ toggle[m] # None
    /\ toggle' = [toggle EXCEPT ![m] = None]
    /\ UNCHANGED <<boards, threads, posts, now, pc, loc, ceiling, everOpen>>

\* soft_delete_thread and restore_thread: one conditional statement.
TrashThread(t) ==
    /\ threads[t].state = "live"
    /\ Update(t, [threads[t] EXCEPT !.state = "trash"])
    /\ UNCHANGED toggle

RestoreThread(t) ==
    /\ threads[t].state = "trash"
    /\ Update(t, [threads[t] EXCEPT !.state = "live"])
    /\ UNCHANGED toggle

\* soft_delete_post: the counter of the thread stays as it is.
CounterBelowZero(t) == [threads EXCEPT ![t].replies = @ - 1]
CounterLowered(t) ==
    [threads EXCEPT ![t].replies = IF @ = 0 THEN 0 ELSE @ - 1]
CounterKept(t) == threads

TrashPost(p) ==
    /\ posts[p].state = "live"
    /\ posts' = [posts EXCEPT ![p].state = "trash"]
    /\ threads' = CounterKept(posts[p].thread)
    /\ UNCHANGED <<boards, now, pc, loc, toggle, ceiling, everOpen>>

RestorePost(p) ==
    /\ posts[p].state = "trash"
    /\ posts' = [posts EXCEPT ![p].state = "live"]
    /\ UNCHANGED <<boards, threads, now, pc, loc, toggle, ceiling, everOpen>>

-----------------------------------------------------------------------------
(***************************************************************************)
(* The board forms.                                                        *)
(***************************************************************************)

\* board_create and board_update write the rule on anonymous posts.
SaveBoard(b) ==
    /\ boards[b] # "gone"
    /\ \E rule \in Rules :
        /\ boards' = [boards EXCEPT ![b] = rule]
        /\ everOpen' = IF rule = "open" THEN everOpen \cup {b} ELSE everOpen
    /\ UNCHANGED <<threads, posts, now, pc, loc, toggle, ceiling>>

\* board_delete, when PostgreSQL accepts it: ON DELETE CASCADE takes the threads
\* and their posts.
DeleteBoard(b) ==
    LET lost == {t \in Threads : threads[t].state \in Stored /\ threads[t].board = b} IN
    /\ Exists(b)
    /\ boards' = [boards EXCEPT ![b] = "gone"]
    /\ threads' = [t \in Threads |->
            IF t \in lost THEN [NoThread EXCEPT !.state = "gone"] ELSE threads[t]]
    /\ posts' = [p \in Posts |->
            IF posts[p].state \in Stored /\ posts[p].thread \in lost
            THEN [NoPost EXCEPT !.state = "gone"] ELSE posts[p]]
    /\ ceiling' = [t \in Threads |-> IF t \in lost THEN 0 ELSE ceiling[t]]
    /\ UNCHANGED <<now, pc, loc, toggle, everOpen>>

Tick ==
    /\ now < MaxTime
    /\ now' = now + 1
    /\ UNCHANGED <<boards, threads, posts, pc, loc, toggle, ceiling, everOpen>>

Post(r) ==
    \/ \E u \in Users : CheckCooldown(r, u) \/ SkipCooldown(r, u)
    \/ ReadBoard(r) \/ ReadThread(r) \/ ReadReplyBoard(r) \/ ReadParent(r)
    \/ Stamp(r) \/ InsertThread(r) \/ InsertPost(r) \/ Abandon(r)

Moderate ==
    \/ \E m \in Moderators : ReadToggle(m) \/ WriteToggle(m) \/ DropToggle(m)
    \/ \E t \in Threads : TrashThread(t) \/ RestoreThread(t)
    \/ \E p \in Posts : TrashPost(p) \/ RestorePost(p)
    \/ \E b \in Boards : SaveBoard(b) \/ DeleteBoard(b)

Next == (\E r \in Requests : Post(r)) \/ Moderate \/ Tick

Spec == Init /\ [][Next]_vars

-----------------------------------------------------------------------------
(***************************************************************************)
(* Properties.                                                             *)
(***************************************************************************)

StoredIn(t) == {p \in Posts : posts[p].state \in Stored /\ posts[p].thread = t}

\* reply_count is the number of posts of the thread besides the opening one, in
\* the trash or not: deleting and restoring leave it as it was ("the expected
\* reply_count historical counter", tests/forum_lifecycle_e2e.rs), and replies
\* that overlap are all counted.
CountMatches ==
    \A t \in Threads : threads[t].state \in Stored =>
        threads[t].replies + 1 = Cardinality(StoredIn(t))

\* A thread that is locked or in the trash takes no reply but those that were
\* past the check of reply when it closed, however often flags are toggled by
\* requests that hold an old value.
ClosedBounded ==
    \A t \in Threads : threads[t].state \in Stored /\ ~Open(threads[t]) =>
        threads[t].replies <= ceiling[t]

\* Within one cooldown a user who is held to it has at most one named post for
\* each request that can run at a time: the check does not stop requests that
\* overlap, but deleting a post does not reset it.
CooldownBounded ==
    \A u \in Users \ Exempt : Cardinality(Recent(u)) <= Cardinality(Requests)

\* A reply answers a post of its own thread, written no later than itself, even
\* if that post was deleted while the reply was under way.
ParentInThread ==
    \A p \in Posts : posts[p].state \in Stored /\ posts[p].parent # None =>
        LET q == posts[p].parent IN
        /\ posts[q].state \in Stored
        /\ posts[q].thread = posts[p].thread
        /\ posts[q].at <= posts[p].at

\* A board that never allowed anonymous posts has none, although reply lets a
\* board that it does not find refuse nothing.
AnonymousAllowed ==
    \A p \in Posts : posts[p].state \in Stored /\ posts[p].author = None =>
        threads[posts[p].thread].board \in everOpen

=============================================================================
