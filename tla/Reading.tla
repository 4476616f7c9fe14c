------------------------------ MODULE Reading ------------------------------
(***************************************************************************)
(* What a page shows: home, board, thread and search of                    *)
(* src/handler/mod.rs, with the navigation and the sidebar around each     *)
(* (sidebar_data, layout_html), over the tables of src/store.rs.           *)
(*                                                                         *)
(* A page is put together from several statements, in no transaction:      *)
(* whether the board is public, who asks, the rows, the boards and the     *)
(* latest threads of the sidebar.  Between any two of them a board may be  *)
(* closed to guests or deleted, and a thread or a post put in the trash.   *)
(* A statement that fails is answered with an error, with an empty list,   *)
(* or with "not signed in".                                                *)
(*                                                                         *)
(* Which rows fall on one page of a list, match a search or are the latest *)
(* is left out: a statement returns all the rows it may return, so that a  *)
(* page shows the most it can.                                             *)
(***************************************************************************)
CONSTANTS
    Boards,         \* board ids
    Threads,        \* thread ids, each given once
    Posts,          \* post ids, each given once
    BoardOf,        \* the board of a thread
    ThreadOf,       \* the thread of a post
    ParentOf,       \* the post that a post answers, or None
    Existing,       \* the posts that are there at first
    Requests,       \* page requests running at a time
    Pages,          \* the pages asked for: {"home", "board", "thread", "search"}
    None

ASSUME RowsAssumption ==
    /\ BoardOf \in [Threads -> Boards]
    /\ ThreadOf \in [Posts -> Threads]
    /\ ParentOf \in [Posts -> Posts \cup {None}]
    /\ Existing \subseteq Posts
ASSUME PagesAssumption == Pages \subseteq {"home", "board", "thread", "search"}
ASSUME NoneAssumption == None \notin Boards \cup Threads \cup Posts

VARIABLES
    boards,     \* [Boards -> BoardStates]
    threads,    \* [Threads -> RowStates]
    posts,      \* [Posts -> RowStates]
    pc,         \* [Requests -> Labels]
    loc,        \* [Requests -> Locals]: what the handler holds
    shown,      \* [Requests -> Contents]: what is on the page so far
    seen        \* history: [Requests -> Sights]: what was so at some moment
                \* since the request began

vars == <<boards, threads, posts, pc, loc, shown, seen>>

\* guest_readable is "public" or "private"; a deleted row is "gone" for good.
BoardStates == {"public", "private", "gone"}
\* deleted_at IS NULL is "live", otherwise "trash".
RowStates == {"unused", "live", "trash", "gone"}
Stored == {"live", "trash"}

\* The statement a request executes next.
Labels == {"idle", "user", "board", "thread", "rows", "boards", "recent",
           "hint", "matches", "titles", "sent"}

\* board and thread are those of the address; nav holds the public boards of the
\* sidebar's snapshot, matches the posts whose thread search has yet to name.
Locals == [page : Pages \cup {None}, board : Boards \cup {None},
           thread : Threads \cup {None}, open : BOOLEAN, member : BOOLEAN,
           nav : SUBSET Boards, matches : SUBSET Posts]
NoLocals == [page |-> None, board |-> None, thread |-> None, open |-> FALSE,
             member |-> FALSE, nav |-> {}, matches |-> {}]

\* heading is the thread whose page it is, titles those of its lists.
Contents == [boards : SUBSET Boards, heading : SUBSET Threads,
             titles : SUBSET Threads, texts : SUBSET Posts]
Blank == [boards |-> {}, heading |-> {}, titles |-> {}, texts |-> {}]

\* open are the boards that were open to the reader.
Sights == [open : SUBSET Boards, threads : SUBSET Threads, posts : SUBSET Posts]
NoSights == [open |-> {}, threads |-> {}, posts |-> {}]

TypeOK ==
    /\ boards \in [Boards -> BoardStates]
    /\ threads \in [Threads -> RowStates]
    /\ posts \in [Posts -> RowStates]
    /\ pc \in [Requests -> Labels]
    /\ loc \in [Requests -> Locals]
    /\ shown \in [Requests -> Contents]
    /\ seen \in [Requests -> Sights]

Public == {b \in Boards : boards[b] = "public"}
LiveThreads == {t \in Threads : threads[t] = "live"}
LivePosts == {p \in Posts : posts[p] = "live"}

Init ==
    /\ boards \in [Boards -> {"public", "private"}]
    /\ threads = [t \in Threads |->
            IF \E p \in Existing : ThreadOf[p] = t THEN "live" ELSE "unused"]
    /\ posts = [p \in Posts |-> IF p \in Existing THEN "live" ELSE "unused"]
    /\ pc = [r \in Requests |-> "idle"]
    /\ loc = [r \in Requests |-> NoLocals]
    /\ shown = [r \in Requests |-> Blank]
    /\ seen = [r \in Requests |-> NoSights]

Goto(r, label) == pc' = [pc EXCEPT ![r] = label]

\* The posts that may be on the page.
Concerned(r) ==
    CASE loc[r].page = "thread" -> {p \in Posts : ThreadOf[p] = loc[r].thread}
      [] loc[r].page = "search" -> Posts
      [] OTHER -> {}

\* What is open to the reader of r, and live, now.
Sight(r) == [open |-> IF loc[r].member THEN Boards ELSE Public,
             threads |-> LiveThreads, posts |-> LivePosts \cap Concerned(r)]
Add(s, t) == [open |-> s.open \cup t.open, threads |-> s.threads \cup t.threads,
              posts |-> s.posts \cup t.posts]

\* History: every step of anybody adds what is so after it, until the page is sent.
Watch == seen' = [r \in Requests |->
    CASE pc'[r] = "idle" -> NoSights
      [] pc[r] = "sent" -> seen[r]
      [] OTHER -> Add(seen[r], Sight(r)')]

-----------------------------------------------------------------------------
(***************************************************************************)
(* The pages.                                                              *)
(***************************************************************************)

\* A request for a page; the statement its handler starts with.
Begin(r) ==
    /\ pc[r] = "idle"
    /\ \/ \E page \in Pages \cap {"home", "search"} :
            /\ loc' = [loc EXCEPT ![r].page = page]
            /\ Goto(r, "user")
       \/ \E b \in Boards :
            /\ "board" \in Pages
            /\ loc' = [loc EXCEPT ![r].page = "board", ![r].board = b]
            /\ Goto(r, "board")
       \/ \E t \in Threads :
            /\ "thread" \in Pages
            /\ loc' = [loc EXCEPT ![r].page = "thread", ![r].thread = t]
            /\ Goto(r, "thread")
    /\ UNCHANGED <<boards, threads, posts, shown>>

\* get_thread: not in the trash.
ReadThread(r) ==
    /\ pc[r] = "thread"
    /\ threads[loc[r].thread] = "live"
    /\ loc' = [loc EXCEPT ![r].board = BoardOf[loc[r].thread]]
    /\ Goto(r, "board")
    /\ UNCHANGED <<boards, threads, posts, shown>>

\* get_board_by_slug and get_board_by_id.  board answers 404 when there is none;
\* thread takes a board that is gone for one that closes nothing.
NeverAsksLogin(b) == FALSE
AsksLogin(b) == boards[b] = "private"
ReadBoard(r) ==
    /\ pc[r] = "board"
    /\ loc[r].page = "board" => boards[loc[r].board] # "gone"
    /\ loc' = [loc EXCEPT ![r].open = ~AsksLogin(loc[r].board)]
    /\ Goto(r, "user")
    /\ UNCHANGED <<boards, threads, posts, shown>>

\* current_user: the request has a session or has none; one that cannot be read
\* counts as none.  board and thread send a guest to the login page when the
\* board they have read is private.
NextAfterUser(page) == IF page \in {"board", "thread"} THEN "rows" ELSE "boards"
ReadUser(r) ==
    /\ pc[r] = "user"
    /\ \E m \in BOOLEAN :
        /\ loc[r].page \in {"board", "thread"} => loc[r].open \/ m
        /\ loc' = [loc EXCEPT ![r].member = m]
    /\ Goto(r, NextAfterUser(loc[r].page))
    /\ UNCHANGED <<boards, threads, posts, shown>>

\* list_threads: the threads of the board.
ListThreads(r) ==
    /\ pc[r] = "rows" /\ loc[r].page = "board"
    /\ shown' = [shown EXCEPT
            ![r].titles = {t \in LiveThreads : BoardOf[t] = loc[r].board}]
    /\ Goto(r, "boards")
    /\ UNCHANGED <<boards, threads, posts, loc>>

\* The quotes above the posts of a page: a parent is quoted if it is among them.
QuotesWithNone(rows) == {ParentOf[p] : p \in rows}
QuotesFromAnywhere(rows) == {ParentOf[p] : p \in rows} \ {None}
Quotes(rows) == {ParentOf[p] : p \in rows} \cap rows

\* list_posts: the posts of the thread, with the texts they quote.
ListPosts(r) ==
    /\ pc[r] = "rows" /\ loc[r].page = "thread"
    /\ LET rows == {p \in LivePosts : ThreadOf[p] = loc[r].thread} IN
        shown' = [shown EXCEPT ![r].texts = rows \cup Quotes(rows),
                               ![r].heading = {loc[r].thread}]
    /\ Goto(r, "boards")
    /\ UNCHANGED <<boards, threads, posts, loc>>

\* sidebar_data reads the boards, none when that fails.  home and layout_html
\* show a guest those that are public.
ReadBoards(r) ==
    /\ pc[r] = "boards"
    /\ \E read \in {Boards, {}} :
        /\ loc' = [loc EXCEPT ![r].nav = read \cap Public]
        /\ shown' = [shown EXCEPT ![r].boards =
                {b \in read : boards[b] # "gone" /\ (loc[r].member \/ boards[b] = "public")}]
    /\ Goto(r, "recent")
    /\ UNCHANGED <<boards, threads, posts>>

\* layout_html: a guest sees the latest threads that are in a public board of
\* the snapshot; if it has no board, none.
ListedRecent(r, rows) == {t \in rows : loc[r].member \/ BoardOf[t] \in loc[r].nav}

AfterRecent(r) ==
    CASE loc[r].page = "search" -> "matches"
      [] loc[r].page = "thread" /\ loc[r].member -> "hint"
      [] OTHER -> "sent"

\* sidebar_data reads the latest threads whatever their board.
ReadRecent(r) ==
    /\ pc[r] = "recent"
    /\ shown' = [shown EXCEPT ![r].titles = @ \cup ListedRecent(r, LiveThreads)]
    /\ Goto(r, AfterRecent(r))
    /\ UNCHANGED <<boards, threads, posts, loc>>

\* The post a member is about to answer: get_post, if it is of this thread.
HintOf(r) == {p \in LivePosts : ThreadOf[p] = loc[r].thread}
ReadHint(r) ==
    /\ pc[r] = "hint"
    /\ shown' = [shown EXCEPT ![r].texts = @ \cup HintOf(r)]
    /\ Goto(r, "sent")
    /\ UNCHANGED <<boards, threads, posts, loc>>

\* search_posts: SEARCH_MATCHES, and the same condition for a common term.
Searchable(r) ==
    {p \in LivePosts :
        /\ threads[ThreadOf[p]] = "live"
        /\ loc[r].member \/ boards[BoardOf[ThreadOf[p]]] = "public"}
Search(r) ==
    /\ pc[r] = "matches"
    /\ loc' = [loc EXCEPT ![r].matches = Searchable(r)]
    /\ shown' = [shown EXCEPT ![r].texts = Searchable(r)]
    /\ Goto(r, "titles")
    /\ UNCHANGED <<boards, threads, posts>>

\* search asks for the thread of each match; one that is gone by now, or cannot
\* be read, is shown under the words of the search.
ReadTitle(r) ==
    /\ pc[r] = "titles"
    /\ \E p \in loc[r].matches :
        /\ loc' = [loc EXCEPT ![r].matches = @ \ {p}]
        /\ shown' = [shown EXCEPT ![r].titles = @ \cup ({ThreadOf[p]} \cap LiveThreads)]
    /\ UNCHANGED <<boards, threads, posts, pc>>

SendResults(r) ==
    /\ pc[r] = "titles" /\ loc[r].matches = {}
    /\ Goto(r, "sent")
    /\ UNCHANGED <<boards, threads, posts, loc, shown>>

\* The page is read and closed; or the answer is an error, 404 or the login page;
\* or the reader hangs up.
Close(r) ==
    /\ pc[r] # "idle"
    /\ Goto(r, "idle")
    /\ loc' = [loc EXCEPT ![r] = NoLocals]
    /\ shown' = [shown EXCEPT ![r] = Blank]
    /\ UNCHANGED <<boards, threads, posts>>

-----------------------------------------------------------------------------
(***************************************************************************)
(* What others change meanwhile, each in one transaction.                  *)
(***************************************************************************)

\* create_thread: the thread and its first post; create_post: one more post.
Write(p) ==
    /\ posts[p] = "unused"
    /\ boards[BoardOf[ThreadOf[p]]] # "gone"
    /\ threads[ThreadOf[p]] # "gone"
    /\ posts' = [posts EXCEPT ![p] = "live"]
    /\ threads' = [threads EXCEPT ![ThreadOf[p]] = IF @ = "unused" THEN "live" ELSE @]
    /\ UNCHANGED <<boards, pc, loc, shown>>

\* soft_delete_thread, restore_thread, soft_delete_post, restore_post.
Flip(state) == IF state = "live" THEN "trash" ELSE "live"
TrashOrRestoreThread(t) ==
    /\ threads[t] \in Stored
    /\ threads' = [threads EXCEPT ![t] = Flip(@)]
    /\ UNCHANGED <<boards, posts, pc, loc, shown>>

TrashOrRestorePost(p) ==
    /\ posts[p] \in Stored
    /\ posts' = [posts EXCEPT ![p] = Flip(@)]
    /\ UNCHANGED <<boards, threads, pc, loc, shown>>

\* update_board opens a board to guests or closes it.
SetReadable(b) ==
    /\ boards[b] # "gone"
    /\ \E state \in {"public", "private"} : boards' = [boards EXCEPT ![b] = state]
    /\ UNCHANGED <<threads, posts, pc, loc, shown>>

\* delete_board: ON DELETE CASCADE takes the threads and their posts.
Lost(b, row, of) == row \in Stored /\ of = b
DeleteBoard(b) ==
    /\ boards[b] # "gone"
    /\ boards' = [boards EXCEPT ![b] = "gone"]
    /\ threads' = [t \in Threads |->
            IF Lost(b, threads[t], BoardOf[t]) THEN "gone" ELSE threads[t]]
    /\ posts' = [p \in Posts |->
            IF Lost(b, posts[p], BoardOf[ThreadOf[p]]) THEN "gone" ELSE posts[p]]
    /\ UNCHANGED <<pc, loc, shown>>

Read(r) ==
    \/ Begin(r) \/ ReadThread(r) \/ ReadBoard(r) \/ ReadUser(r)
    \/ ListThreads(r) \/ ListPosts(r) \/ ReadBoards(r) \/ ReadRecent(r)
    \/ ReadHint(r) \/ Search(r) \/ ReadTitle(r) \/ SendResults(r) \/ Close(r)

Change ==
    \/ \E p \in Posts : Write(p) \/ TrashOrRestorePost(p)
    \/ \E t \in Threads : TrashOrRestoreThread(t)
    \/ \E b \in Boards : SetReadable(b) \/ DeleteBoard(b)

Next == ((\E r \in Requests : Read(r)) \/ Change) /\ Watch

Spec == Init /\ [][Next]_vars

-----------------------------------------------------------------------------
(***************************************************************************)
(* Properties.                                                             *)
(***************************************************************************)

\* The reader was signed in, or the board public, at some moment of the request.
Allowed(r, b) == b \in seen[r].open

\* Whatever is on a page was, at some moment since the request began, open to
\* its reader, although each of its statements ran at another moment and some
\* may have failed: the boards and threads of its lists, the posts, and the
\* thread whose page it is, unless the board of that thread was deleted between
\* the two statements that read them ("search_hides_non_guest_readable_boards_
\* from_visitors", src/store.rs, is the case of one statement).
ShownWasAllowed ==
    \A r \in Requests :
        /\ \A b \in shown[r].boards : Allowed(r, b)
        /\ \A t \in shown[r].titles : Allowed(r, BoardOf[t])
        /\ \A p \in shown[r].texts : Allowed(r, BoardOf[ThreadOf[p]])
        /\ \A t \in shown[r].heading :
            Allowed(r, BoardOf[t]) \/ boards[BoardOf[t]] = "gone"

\* Nothing is on a page that was in the trash, or in a thread in the trash, all
\* the while the page was put together: not in a quote, not as the post to be
\* answered, not in the sidebar and not in a search result.
ShownWasLive ==
    \A r \in Requests :
        /\ shown[r].titles \cup shown[r].heading \subseteq seen[r].threads
        /\ \A p \in shown[r].texts :
            p \in seen[r].posts /\ ThreadOf[p] \in seen[r].threads

=============================================================================
