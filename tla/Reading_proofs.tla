--------------------------- MODULE Reading_proofs ---------------------------
(***************************************************************************)
(* Theorems about Reading.                                                 *)
(***************************************************************************)
EXTENDS Reading, TLAPS

USE RowsAssumption, PagesAssumption, NoneAssumption

-----------------------------------------------------------------------------
(***************************************************************************)
(* Type correctness: the types, and what a request holds by the statement  *)
(* it executes next.                                                       *)
(***************************************************************************)

Bound(r) ==
    /\ loc[r].page = "thread" => loc[r].thread \in Threads
    /\ loc[r].page = "thread" /\ pc[r] # "thread" => loc[r].board = BoardOf[loc[r].thread]
    /\ loc[r].page = "board" => loc[r].board \in Boards
    /\ pc[r] = "thread" => loc[r].page = "thread"
    /\ pc[r] \in {"board", "rows"} => loc[r].page \in {"board", "thread"}
    /\ pc[r] = "hint" => loc[r].page = "thread" /\ loc[r].member
    /\ pc[r] \in {"matches", "titles"} => loc[r].page = "search"

Holds(r) ==
    IF pc[r] = "idle" THEN loc[r] = NoLocals /\ shown[r] = Blank ELSE Bound(r)

TypeInv == TypeOK /\ \A r \in Requests : Holds(r)

\* What a step of one request does, part by part: r alone moves.
Frame(r) ==
    /\ UNCHANGED <<boards, threads, posts>>
    /\ pc' \in [Requests -> Labels]
    /\ loc' \in [Requests -> Locals]
    /\ shown' \in [Requests -> Contents]
    /\ \A q \in Requests \ {r} : pc'[q] = pc[q] /\ loc'[q] = loc[q] /\ shown'[q] = shown[q]

\* The fields of what a request holds, and of its page, one by one.
LEMMA LocalSet ==
    ASSUME NEW l \in Locals
    PROVE  /\ \A page \in Pages : [l EXCEPT !.page = page] \in Locals
           /\ \A page \in Pages, b \in Boards : [l EXCEPT !.page = page, !.board = b] \in Locals
           /\ \A page \in Pages, t \in Threads : [l EXCEPT !.page = page, !.thread = t] \in Locals
           /\ \A b \in Boards : [l EXCEPT !.board = b] \in Locals
           /\ \A open \in BOOLEAN : [l EXCEPT !.open = open] \in Locals
           /\ \A m \in BOOLEAN : [l EXCEPT !.member = m] \in Locals
           /\ \A nav \in SUBSET Boards : [l EXCEPT !.nav = nav] \in Locals
           /\ \A ps \in SUBSET Posts : [l EXCEPT !.matches = ps] \in Locals
BY DEF Locals

LEMMA ContentSet ==
    ASSUME NEW c \in Contents
    PROVE  /\ \A bs \in SUBSET Boards : [c EXCEPT !.boards = bs] \in Contents
           /\ \A ts \in SUBSET Threads : [c EXCEPT !.titles = ts] \in Contents
           /\ \A ps \in SUBSET Posts : [c EXCEPT !.texts = ps] \in Contents
           /\ \A ts \in SUBSET Threads, ps \in SUBSET Posts :
                [c EXCEPT !.texts = ps, !.heading = ts] \in Contents
BY DEF Contents

LEMMA HeldType ==
    ASSUME TypeOK, NEW r \in Requests
    PROVE  loc[r] \in Locals /\ shown[r] \in Contents
BY DEF TypeOK

LEMMA BeginMoves ==
    ASSUME TypeOK, NEW r \in Requests, Holds(r), Begin(r)
    PROVE  /\ Frame(r) /\ pc[r] = "idle" /\ shown'[r] = Blank
           /\ pc'[r] \in {"user", "board", "thread"}
           /\ loc'[r].nav = {} /\ loc'[r].matches = {} /\ ~loc'[r].member /\ ~loc'[r].open
           /\ pc'[r] = "user" => loc'[r].page \in {"home", "search"}
           /\ pc'[r] = "board" => loc'[r].page = "board" /\ loc'[r].board \in Boards
           /\ pc'[r] = "thread" => loc'[r].page = "thread" /\ loc'[r].thread \in Threads
<1>. USE DEF TypeOK, Goto
<1>0. pc[r] = "idle" /\ loc[r] = NoLocals /\ shown[r] = Blank /\ UNCHANGED <<boards, threads, posts, shown>>
    BY DEF Begin, Holds
<1>1. CASE \E page \in Pages \cap {"home", "search"} :
            loc' = [loc EXCEPT ![r].page = page] /\ Goto(r, "user")
    <2>1. PICK page \in Pages \cap {"home", "search"} :
            loc' = [loc EXCEPT ![r].page = page] /\ pc' = [pc EXCEPT ![r] = "user"]
        BY <1>1
    <2>2. loc' = [loc EXCEPT ![r] = [loc[r] EXCEPT !.page = page]]
        BY <2>1
    <2>3. [loc[r] EXCEPT !.page = page] \in Locals
        BY <2>1, HeldType, LocalSet
    <2>4. loc'[r] = [NoLocals EXCEPT !.page = page]
        BY <1>0, <2>2
    <2>. QED  BY <1>0, <2>1, <2>2, <2>3, <2>4 DEF Frame, Labels, NoLocals
<1>2. CASE \E b \in Boards :
            "board" \in Pages /\ loc' = [loc EXCEPT ![r].page = "board", ![r].board = b] /\ Goto(r, "board")
    <2>1. PICK b \in Boards :
            "board" \in Pages /\ loc' = [loc EXCEPT ![r].page = "board", ![r].board = b] /\ pc' = [pc EXCEPT ![r] = "board"]
        BY <1>2
    <2>2. loc' = [loc EXCEPT ![r] = [loc[r] EXCEPT !.page = "board", !.board = b]]
        BY <2>1
    <2>3. [loc[r] EXCEPT !.page = "board", !.board = b] \in Locals
        BY <2>1, HeldType, LocalSet
    <2>4. loc'[r] = [NoLocals EXCEPT !.page = "board", !.board = b]
        BY <1>0, <2>2
    <2>. QED  BY <1>0, <2>1, <2>2, <2>3, <2>4 DEF Frame, Labels, NoLocals
<1>3. CASE \E t \in Threads :
            "thread" \in Pages /\ loc' = [loc EXCEPT ![r].page = "thread", ![r].thread = t] /\ Goto(r, "thread")
    <2>1. PICK t \in Threads :
            "thread" \in Pages /\ loc' = [loc EXCEPT ![r].page = "thread", ![r].thread = t] /\ pc' = [pc EXCEPT ![r] = "thread"]
        BY <1>3
    <2>2. loc' = [loc EXCEPT ![r] = [loc[r] EXCEPT !.page = "thread", !.thread = t]]
        BY <2>1
    <2>3. [loc[r] EXCEPT !.page = "thread", !.thread = t] \in Locals
        BY <2>1, HeldType, LocalSet
    <2>4. loc'[r] = [NoLocals EXCEPT !.page = "thread", !.thread = t]
        BY <1>0, <2>2
    <2>. QED  BY <1>0, <2>1, <2>2, <2>3, <2>4 DEF Frame, Labels, NoLocals
<1>. QED  BY <1>1, <1>2, <1>3 DEF Begin

LEMMA ReadThreadMoves ==
    ASSUME TypeOK, NEW r \in Requests, Holds(r), ReadThread(r)
    PROVE  /\ Frame(r) /\ pc[r] = "thread" /\ pc'[r] = "board" /\ shown'[r] = shown[r]
           /\ loc[r].page = "thread" /\ loc[r].thread \in LiveThreads
           /\ loc'[r] = [loc[r] EXCEPT !.board = BoardOf[loc[r].thread]]
<1>1. pc[r] = "thread" /\ loc[r].page = "thread" /\ loc[r].thread \in Threads
    BY DEF ReadThread, Holds, Bound
<1>2. [loc[r] EXCEPT !.board = BoardOf[loc[r].thread]] \in Locals
    BY <1>1, HeldType, LocalSet
<1>. QED  BY <1>1, <1>2 DEF ReadThread, Frame, LiveThreads, TypeOK, Goto, Labels

LEMMA ReadBoardMoves ==
    ASSUME TypeOK, NEW r \in Requests, Holds(r), ReadBoard(r)
    PROVE  /\ Frame(r) /\ pc[r] = "board" /\ pc'[r] = "user" /\ shown'[r] = shown[r]
           /\ loc'[r] = [loc[r] EXCEPT !.open = ~AsksLogin(loc[r].board)]
<1>1. [loc[r] EXCEPT !.open = ~AsksLogin(loc[r].board)] \in Locals
    BY HeldType, LocalSet DEF AsksLogin
<1>. QED  BY <1>1 DEF ReadBoard, Frame, TypeOK, Goto, Labels

LEMMA ReadUserMoves ==
    ASSUME TypeOK, NEW r \in Requests, Holds(r), ReadUser(r)
    PROVE  /\ Frame(r) /\ pc[r] = "user" /\ pc'[r] = NextAfterUser(loc[r].page) /\ shown'[r] = shown[r]
           /\ \E m \in BOOLEAN :
                /\ loc[r].page \in {"board", "thread"} => loc[r].open \/ m
                /\ loc'[r] = [loc[r] EXCEPT !.member = m]
<1>1. PICK m \in BOOLEAN :
        /\ loc[r].page \in {"board", "thread"} => loc[r].open \/ m
        /\ loc' = [loc EXCEPT ![r].member = m]
    BY DEF ReadUser
<1>2. [loc[r] EXCEPT !.member = m] \in Locals
    BY HeldType, LocalSet
<1>3. NextAfterUser(loc[r].page) \in Labels
    BY DEF NextAfterUser, Labels
<1>4. loc' = [loc EXCEPT ![r] = [loc[r] EXCEPT !.member = m]]
    BY <1>1
<1>. QED  BY <1>1, <1>2, <1>3, <1>4 DEF ReadUser, Frame, TypeOK, Goto

LEMMA ListThreadsMoves ==
    ASSUME TypeOK, NEW r \in Requests, ListThreads(r)
    PROVE  /\ Frame(r) /\ pc[r] = "rows" /\ pc'[r] = "boards" /\ loc'[r] = loc[r]
           /\ loc[r].page = "board"
           /\ shown'[r] = [shown[r] EXCEPT
                !.titles = {t \in LiveThreads : BoardOf[t] = loc[r].board}]
<1>1. {t \in LiveThreads : BoardOf[t] = loc[r].board} \in SUBSET Threads
    BY DEF LiveThreads
<1>2. [shown[r] EXCEPT !.titles = {t \in LiveThreads : BoardOf[t] = loc[r].board}] \in Contents
    BY <1>1, HeldType, ContentSet
<1>. QED  BY <1>2 DEF ListThreads, Frame, TypeOK, Goto, Labels

LEMMA ListPostsMoves ==
    ASSUME TypeOK, NEW r \in Requests, Holds(r), ListPosts(r)
    PROVE  /\ Frame(r) /\ pc[r] = "rows" /\ pc'[r] = "boards" /\ loc'[r] = loc[r]
           /\ loc[r].page = "thread"
           /\ shown'[r] = [shown[r] EXCEPT
                !.texts = {p \in LivePosts : ThreadOf[p] = loc[r].thread},
                !.heading = {loc[r].thread}]
<1>. DEFINE rows == {p \in LivePosts : ThreadOf[p] = loc[r].thread}
<1>1. rows \cup Quotes(rows) = rows /\ rows \in SUBSET Posts
    BY DEF Quotes, LivePosts
<1>2. {loc[r].thread} \in SUBSET Threads
    BY DEF ListPosts, Holds, Bound
<1>3. [shown[r] EXCEPT !.texts = rows, !.heading = {loc[r].thread}] \in Contents
    BY <1>1, <1>2, HeldType, ContentSet
<1>4. shown' = [shown EXCEPT ![r] = [shown[r] EXCEPT !.texts = rows, !.heading = {loc[r].thread}]]
    BY <1>1 DEF ListPosts, TypeOK
<1>5. shown' \in [Requests -> Contents] /\ (\A q \in Requests \ {r} : shown'[q] = shown[q])
    BY <1>3, <1>4 DEF TypeOK
<1>6. shown'[r] = [shown[r] EXCEPT !.texts = rows, !.heading = {loc[r].thread}]
    BY <1>4 DEF TypeOK
<1>7. /\ UNCHANGED <<boards, threads, posts, loc>> /\ loc[r].page = "thread"
      /\ pc[r] = "rows" /\ pc' = [pc EXCEPT ![r] = "boards"]
    BY DEF ListPosts, Goto
<1>8. Frame(r)
    BY <1>5, <1>7 DEF Frame, TypeOK, Labels
<1>. QED  BY <1>6, <1>7, <1>8 DEF TypeOK

LEMMA ReadBoardsMoves ==
    ASSUME TypeOK, NEW r \in Requests, ReadBoards(r)
    PROVE  /\ Frame(r) /\ pc[r] = "boards" /\ pc'[r] = "recent"
           /\ \E read \in {Boards, {}} :
                /\ loc'[r] = [loc[r] EXCEPT !.nav = read \cap Public]
                /\ shown'[r] = [shown[r] EXCEPT !.boards =
                    {b \in read : boards[b] # "gone" /\ (loc[r].member \/ boards[b] = "public")}]
<1>1. PICK read \in {Boards, {}} :
        /\ loc' = [loc EXCEPT ![r].nav = read \cap Public]
        /\ shown' = [shown EXCEPT ![r].boards =
                {b \in read : boards[b] # "gone" /\ (loc[r].member \/ boards[b] = "public")}]
    BY DEF ReadBoards
<1>. DEFINE bs == {b \in read : boards[b] # "gone" /\ (loc[r].member \/ boards[b] = "public")}
<1>2. bs \in SUBSET Boards /\ read \cap Public \in SUBSET Boards
    BY DEF Public
<1>3. [shown[r] EXCEPT !.boards = bs] \in Contents /\ [loc[r] EXCEPT !.nav = read \cap Public] \in Locals
    BY <1>2, HeldType, ContentSet, LocalSet
<1>4. loc' = [loc EXCEPT ![r] = [loc[r] EXCEPT !.nav = read \cap Public]]
    BY <1>1
<1>5. shown' = [shown EXCEPT ![r] = [shown[r] EXCEPT !.boards = bs]]
    BY <1>1
<1>6. loc'[r] = [loc[r] EXCEPT !.nav = read \cap Public] /\ shown'[r] = [shown[r] EXCEPT !.boards = bs]
    BY <1>4, <1>5 DEF TypeOK
<1>7. Frame(r) /\ pc[r] = "boards" /\ pc'[r] = "recent"
    BY <1>3, <1>4, <1>5 DEF ReadBoards, Frame, TypeOK, Goto, Labels
<1>. QED  BY <1>6, <1>7

LEMMA ReadRecentMoves ==
    ASSUME TypeOK, NEW r \in Requests, ReadRecent(r)
    PROVE  /\ Frame(r) /\ pc[r] = "recent" /\ pc'[r] = AfterRecent(r) /\ loc'[r] = loc[r]
           /\ shown'[r] = [shown[r] EXCEPT
                !.titles = shown[r].titles \cup ListedRecent(r, LiveThreads)]
<1>1. shown[r].titles \cup ListedRecent(r, LiveThreads) \in SUBSET Threads
    BY HeldType DEF Contents, ListedRecent, LiveThreads
<1>2. [shown[r] EXCEPT !.titles = shown[r].titles \cup ListedRecent(r, LiveThreads)] \in Contents
    BY <1>1, HeldType, ContentSet
<1>3. shown' = [shown EXCEPT ![r] =
            [shown[r] EXCEPT !.titles = shown[r].titles \cup ListedRecent(r, LiveThreads)]]
    BY DEF ReadRecent
<1>4. AfterRecent(r) \in Labels
    BY DEF AfterRecent, Labels
<1>. QED  BY <1>2, <1>3, <1>4 DEF ReadRecent, Frame, TypeOK, Goto

LEMMA ReadHintMoves ==
    ASSUME TypeOK, NEW r \in Requests, ReadHint(r)
    PROVE  /\ Frame(r) /\ pc[r] = "hint" /\ pc'[r] = "sent" /\ loc'[r] = loc[r]
           /\ shown'[r] = [shown[r] EXCEPT !.texts = shown[r].texts \cup HintOf(r)]
<1>1. shown[r].texts \cup HintOf(r) \in SUBSET Posts
    BY HeldType DEF Contents, HintOf, LivePosts
<1>2. [shown[r] EXCEPT !.texts = shown[r].texts \cup HintOf(r)] \in Contents
    BY <1>1, HeldType, ContentSet
<1>3. shown' = [shown EXCEPT ![r] = [shown[r] EXCEPT !.texts = shown[r].texts \cup HintOf(r)]]
    BY DEF ReadHint
<1>. QED  BY <1>2, <1>3 DEF ReadHint, Frame, TypeOK, Goto, Labels

LEMMA SearchMoves ==
    ASSUME TypeOK, NEW r \in Requests, Search(r)
    PROVE  /\ Frame(r) /\ pc[r] = "matches" /\ pc'[r] = "titles"
           /\ loc'[r] = [loc[r] EXCEPT !.matches = Searchable(r)]
           /\ shown'[r] = [shown[r] EXCEPT !.texts = Searchable(r)]
<1>1. Searchable(r) \in SUBSET Posts
    BY DEF Searchable, LivePosts
<1>2. /\ [shown[r] EXCEPT !.texts = Searchable(r)] \in Contents
      /\ [loc[r] EXCEPT !.matches = Searchable(r)] \in Locals
    BY <1>1, HeldType, ContentSet, LocalSet
<1>. QED  BY <1>2 DEF Search, Frame, TypeOK, Goto, Labels

LEMMA ReadTitleMoves ==
    ASSUME TypeOK, NEW r \in Requests, ReadTitle(r)
    PROVE  /\ Frame(r) /\ pc[r] = "titles" /\ pc'[r] = pc[r]
           /\ \E p \in loc[r].matches :
                /\ loc'[r] = [loc[r] EXCEPT !.matches = loc[r].matches \ {p}]
                /\ shown'[r] = [shown[r] EXCEPT
                    !.titles = shown[r].titles \cup ({ThreadOf[p]} \cap LiveThreads)]
<1>1. PICK p \in loc[r].matches :
        /\ loc' = [loc EXCEPT ![r].matches = @ \ {p}]
        /\ shown' = [shown EXCEPT ![r].titles = @ \cup ({ThreadOf[p]} \cap LiveThreads)]
    BY DEF ReadTitle
<1>. DEFINE ms == loc[r].matches \ {p}
            ts == shown[r].titles \cup ({ThreadOf[p]} \cap LiveThreads)
<1>2. ms \in SUBSET Posts /\ ts \in SUBSET Threads
    BY HeldType DEF Locals, Contents, LiveThreads
<1>3. [shown[r] EXCEPT !.titles = ts] \in Contents /\ [loc[r] EXCEPT !.matches = ms] \in Locals
    BY <1>2, HeldType, ContentSet, LocalSet
<1>4. loc' = [loc EXCEPT ![r] = [loc[r] EXCEPT !.matches = ms]]
    BY <1>1
<1>5. shown' = [shown EXCEPT ![r] = [shown[r] EXCEPT !.titles = ts]]
    BY <1>1
<1>6. loc'[r] = [loc[r] EXCEPT !.matches = ms] /\ shown'[r] = [shown[r] EXCEPT !.titles = ts]
    BY <1>4, <1>5 DEF TypeOK
<1>7. Frame(r) /\ pc[r] = "titles" /\ pc'[r] = pc[r]
    BY <1>3, <1>4, <1>5 DEF ReadTitle, Frame, TypeOK
<1>. QED  BY <1>6, <1>7

LEMMA SendResultsMoves ==
    ASSUME TypeOK, NEW r \in Requests, SendResults(r)
    PROVE  /\ Frame(r) /\ pc[r] = "titles" /\ pc'[r] = "sent"
           /\ loc'[r] = loc[r] /\ shown'[r] = shown[r]
BY DEF SendResults, Frame, TypeOK, Goto, Labels

LEMMA CloseMoves ==
    ASSUME TypeOK, NEW r \in Requests, Close(r)
    PROVE  Frame(r) /\ pc'[r] = "idle" /\ loc'[r] = NoLocals /\ shown'[r] = Blank
<1>1. NoLocals \in Locals /\ Blank \in Contents
    BY DEF NoLocals, Locals, Blank, Contents
<1>. QED  BY <1>1 DEF Close, Frame, TypeOK, Goto, Labels

\* What others change is rows.
LEMMA ChangeType ==
    ASSUME TypeOK, Change
    PROVE  /\ UNCHANGED <<pc, loc, shown>>
           /\ boards' \in [Boards -> BoardStates]
           /\ threads' \in [Threads -> RowStates]
           /\ posts' \in [Posts -> RowStates]
<1>. USE DEF TypeOK, RowStates, BoardStates
<1>1. ASSUME NEW p \in Posts, Write(p) \/ TrashOrRestorePost(p)
      PROVE  /\ UNCHANGED <<pc, loc, shown, boards>>
             /\ threads' \in [Threads -> RowStates] /\ posts' \in [Posts -> RowStates]
    BY <1>1 DEF Write, TrashOrRestorePost, Flip
<1>2. ASSUME NEW t \in Threads, TrashOrRestoreThread(t)
      PROVE  /\ UNCHANGED <<pc, loc, shown, boards, posts>>
             /\ threads' \in [Threads -> RowStates]
    BY <1>2 DEF TrashOrRestoreThread, Flip
<1>3. ASSUME NEW b \in Boards, SetReadable(b)
      PROVE  /\ UNCHANGED <<pc, loc, shown, threads, posts>>
             /\ boards' \in [Boards -> BoardStates]
    BY <1>3 DEF SetReadable
<1>4. ASSUME NEW b \in Boards, DeleteBoard(b)
      PROVE  /\ UNCHANGED <<pc, loc, shown>>
             /\ boards' \in [Boards -> BoardStates]
             /\ threads' \in [Threads -> RowStates]
             /\ posts' \in [Posts -> RowStates]
    BY <1>4 DEF DeleteBoard
<1>. QED
    BY <1>1, <1>2, <1>3, <1>4 DEF Change

LEMMA WatchType ==
    ASSUME TypeOK, Watch, boards' \in [Boards -> BoardStates]
    PROVE  seen' \in [Requests -> Sights]
<1>1. ASSUME NEW r \in Requests
      PROVE  (CASE pc'[r] = "idle" -> NoSights
                [] pc[r] = "sent" -> seen[r]
                [] OTHER -> Add(seen[r], Sight(r)')) \in Sights
    <2>1. NoSights \in Sights
        BY DEF NoSights, Sights
    <2>2. seen[r] \in Sights
        BY DEF TypeOK
    <2>3. Add(seen[r], Sight(r)') \in Sights
        <3>1. /\ Sight(r)'.open \subseteq Boards /\ Sight(r)'.threads \subseteq Threads
              /\ Sight(r)'.posts \subseteq Posts
            BY DEF Sight, Public, LiveThreads, LivePosts
        <3>2. /\ seen[r].open \subseteq Boards /\ seen[r].threads \subseteq Threads
              /\ seen[r].posts \subseteq Posts
            BY <2>2 DEF Sights
        <3>. QED  BY <3>1, <3>2 DEF Add, Sights
    <2>. QED  BY <2>1, <2>2, <2>3
<1>. QED  BY <1>1 DEF Watch

\* A step that leaves the address alone, and does not lead where more is asked.
LEMMA StaysBound ==
    ASSUME NEW r \in Requests, Bound(r), pc'[r] # "idle", pc[r] # "thread",
           loc'[r].page = loc[r].page, loc'[r].thread = loc[r].thread,
           loc'[r].board = loc[r].board, pc'[r] # "thread",
           pc'[r] \in {"board", "rows"} => loc[r].page \in {"board", "thread"},
           pc'[r] = "hint" => loc[r].page = "thread" /\ loc'[r].member,
           pc'[r] \in {"matches", "titles"} => loc[r].page = "search"
    PROVE  Holds(r)'
BY DEF Holds, Bound

LEMMA ReadType ==
    ASSUME TypeOK, NEW r \in Requests, Holds(r), Read(r)
    PROVE  Frame(r) /\ Holds(r)'
<1>1. CASE Begin(r)
    BY <1>1, BeginMoves DEF Holds, Bound
<1>2. CASE ReadThread(r)
    <2>1. Frame(r) /\ pc'[r] = "board" /\ loc[r].page = "thread" /\ loc[r].thread \in Threads
        BY <1>2, ReadThreadMoves DEF LiveThreads
    <2>a. loc'[r] = [loc[r] EXCEPT !.board = BoardOf[loc[r].thread]]
        BY <1>2, ReadThreadMoves
    <2>b. loc[r] \in Locals
        BY HeldType
    <2>2. /\ loc'[r].page = loc[r].page /\ loc'[r].thread = loc[r].thread
          /\ loc'[r].board = BoardOf[loc[r].thread]
        BY <2>a, <2>b DEF Locals
    <2>. QED  BY <2>1, <2>2 DEF Holds, Bound
<1>3. CASE ReadBoard(r)
    <2>1. Frame(r) /\ pc[r] = "board" /\ pc'[r] = "user"
        BY <1>3, ReadBoardMoves
    <2>a. loc'[r] = [loc[r] EXCEPT !.open = ~AsksLogin(loc[r].board)]
        BY <1>3, ReadBoardMoves
    <2>b. loc[r] \in Locals
        BY HeldType
    <2>2. loc'[r].page = loc[r].page /\ loc'[r].thread = loc[r].thread /\ loc'[r].board = loc[r].board
        BY <2>a, <2>b DEF Locals
    <2>. QED  BY <2>1, <2>2, StaysBound DEF Holds
<1>4. CASE ReadUser(r)
    <2>1. Frame(r) /\ pc[r] = "user" /\ pc'[r] = NextAfterUser(loc[r].page)
        BY <1>4, ReadUserMoves
    <2>a. \E m \in BOOLEAN : loc'[r] = [loc[r] EXCEPT !.member = m]
        BY <1>4, ReadUserMoves
    <2>b. loc[r] \in Locals
        BY HeldType
    <2>2. loc'[r].page = loc[r].page /\ loc'[r].thread = loc[r].thread /\ loc'[r].board = loc[r].board
        BY <2>a, <2>b DEF Locals
    <2>. QED  BY <2>1, <2>2, StaysBound DEF Holds, NextAfterUser
<1>5. CASE ListThreads(r)
    BY <1>5, ListThreadsMoves, StaysBound DEF Holds
<1>6. CASE ListPosts(r)
    BY <1>6, ListPostsMoves, StaysBound DEF Holds
<1>7. CASE ReadBoards(r)
    <2>1. Frame(r) /\ pc[r] = "boards" /\ pc'[r] = "recent"
        BY <1>7, ReadBoardsMoves
    <2>a. \E read \in {Boards, {}} : loc'[r] = [loc[r] EXCEPT !.nav = read \cap Public]
        BY <1>7, ReadBoardsMoves
    <2>b. loc[r] \in Locals
        BY HeldType
    <2>2. loc'[r].page = loc[r].page /\ loc'[r].thread = loc[r].thread /\ loc'[r].board = loc[r].board
        BY <2>a, <2>b DEF Locals
    <2>. QED  BY <2>1, <2>2, StaysBound DEF Holds
<1>8. CASE ReadRecent(r)
    BY <1>8, ReadRecentMoves, StaysBound DEF Holds, AfterRecent
<1>9. CASE ReadHint(r)
    BY <1>9, ReadHintMoves, StaysBound DEF Holds
<1>10. CASE Search(r)
    <2>1. Frame(r) /\ pc[r] = "matches" /\ pc'[r] = "titles"
        BY <1>10, SearchMoves
    <2>a. loc'[r] = [loc[r] EXCEPT !.matches = Searchable(r)]
        BY <1>10, SearchMoves
    <2>b. loc[r] \in Locals
        BY HeldType
    <2>2. loc'[r].page = loc[r].page /\ loc'[r].thread = loc[r].thread /\ loc'[r].board = loc[r].board
        BY <2>a, <2>b DEF Locals
    <2>. QED  BY <2>1, <2>2, StaysBound DEF Holds, Bound
<1>11. CASE ReadTitle(r)
    <2>1. Frame(r) /\ pc[r] = "titles" /\ pc'[r] = "titles"
        BY <1>11, ReadTitleMoves
    <2>a. \E p \in loc[r].matches : loc'[r] = [loc[r] EXCEPT !.matches = loc[r].matches \ {p}]
        BY <1>11, ReadTitleMoves
    <2>b. loc[r] \in Locals
        BY HeldType
    <2>2. loc'[r].page = loc[r].page /\ loc'[r].thread = loc[r].thread /\ loc'[r].board = loc[r].board
        BY <2>a, <2>b DEF Locals
    <2>. QED  BY <2>1, <2>2, StaysBound DEF Holds, Bound
<1>12. CASE SendResults(r)
    BY <1>12, SendResultsMoves, StaysBound DEF Holds
<1>13. CASE Close(r)
    BY <1>13, CloseMoves DEF Holds
<1>. QED
    BY <1>1, <1>2, <1>3, <1>4, <1>5, <1>6, <1>7, <1>8, <1>9, <1>10, <1>11, <1>12, <1>13 DEF Read

LEMMA TypeInit == Init => TypeInv
<1>. SUFFICES ASSUME Init PROVE TypeInv
    OBVIOUS
<1>1. NoLocals \in Locals /\ Blank \in Contents /\ NoSights \in Sights
    BY DEF NoLocals, Locals, Blank, Contents, NoSights, Sights
<1>2. /\ boards \in [Boards -> BoardStates] /\ threads \in [Threads -> RowStates]
      /\ posts \in [Posts -> RowStates] /\ pc \in [Requests -> Labels]
    BY DEF Init, BoardStates, RowStates, Labels
<1>3. TypeOK
    BY <1>1, <1>2 DEF Init, TypeOK
<1>. QED  BY <1>3 DEF Init, TypeInv, Holds

LEMMA TypeNext == TypeInv /\ [Next]_vars => TypeInv'
<1>1. ASSUME TypeInv, NEW r \in Requests, Read(r), Watch
      PROVE  TypeInv'
    <2>1. TypeOK /\ Holds(r)
        BY <1>1 DEF TypeInv
    <2>2. Frame(r) /\ Holds(r)'
        BY <1>1, <2>1, ReadType
    <2>3. TypeOK'
        BY <1>1, <2>1, <2>2, WatchType DEF TypeOK, Frame
    <2>4. \A q \in Requests : Holds(q)'
        BY <1>1, <2>2 DEF TypeInv, Holds, Bound, Frame
    <2>. QED  BY <2>3, <2>4 DEF TypeInv
<1>2. ASSUME TypeInv, Change, Watch
      PROVE  TypeInv'
    <2>1. TypeOK'
        BY <1>2, ChangeType, WatchType DEF TypeInv, TypeOK
    <2>2. \A q \in Requests : Holds(q)'
        BY <1>2, ChangeType DEF TypeInv, Holds, Bound
    <2>. QED  BY <2>1, <2>2 DEF TypeInv
<1>3. ASSUME TypeInv, UNCHANGED vars
      PROVE  TypeInv'
    BY <1>3 DEF TypeInv, TypeOK, Holds, Bound, vars
<1>. QED  BY <1>1, <1>2, <1>3 DEF Next

\* The variables of Reading keep their types.
THEOREM TypeCorrect == Spec => []TypeOK
<1>1. TypeInv => TypeOK
    BY DEF TypeInv
<1>. QED  BY <1>1, TypeInit, TypeNext, PTL DEF Spec

-----------------------------------------------------------------------------
(***************************************************************************)
(* What a page may show.                                                   *)
(***************************************************************************)

\* ON DELETE CASCADE: a row that is there has everything it refers to.
Cascade ==
    /\ \A t \in Threads : threads[t] \in Stored => boards[BoardOf[t]] # "gone"
    /\ \A p \in Posts : posts[p] \in Stored => threads[ThreadOf[p]] \in Stored

Within(s, t) == s.open \subseteq t.open /\ s.threads \subseteq t.threads /\ s.posts \subseteq t.posts

\* A deleted board opens nothing, and has nothing left to show.
Reached(r, b) == b \in seen[r].open \/ boards[b] = "gone"

\* The address was found open, the navigation and the matches too.
Known(r) ==
    /\ pc[r] # "sent" => Within(Sight(r), seen[r])
    /\ loc[r].nav \subseteq seen[r].open
    /\ loc[r].member => Boards \subseteq seen[r].open
    /\ pc[r] = "user" /\ loc[r].page \in {"board", "thread"} /\ loc[r].open => Reached(r, loc[r].board)
    /\ pc[r] = "rows" => Reached(r, loc[r].board)
    /\ loc[r].page = "thread" /\ pc[r] # "thread" => loc[r].thread \in seen[r].threads
    /\ \A p \in loc[r].matches : BoardOf[ThreadOf[p]] \in seen[r].open

Fit(r, c) ==
    /\ c.boards \subseteq seen[r].open
    /\ \A t \in c.titles : BoardOf[t] \in seen[r].open /\ t \in seen[r].threads
    /\ \A t \in c.heading : Reached(r, BoardOf[t]) /\ t \in seen[r].threads
    /\ \A p \in c.texts :
        /\ BoardOf[ThreadOf[p]] \in seen[r].open
        /\ p \in seen[r].posts /\ ThreadOf[p] \in seen[r].threads

ReqInv(r) == pc[r] # "idle" => Known(r) /\ Fit(r, shown[r])

IInv == TypeInv /\ Cascade /\ \A r \in Requests : ReqInv(r)

LEMMA CascadeInit == Init => Cascade
BY DEF Init, Cascade, Stored

\* Nothing a change leaves behind refers to a row that is gone, and a board that is
\* gone stays gone.
LEMMA CascadeChange ==
    ASSUME TypeOK, Cascade, Change
    PROVE  /\ Cascade'
           /\ \A b \in Boards : boards[b] = "gone" => boards'[b] = "gone"
<1>. USE DEF TypeOK, Cascade, Stored
<1>1. ASSUME NEW p \in Posts, Write(p)
      PROVE  Cascade' /\ boards' = boards
    <2>1. /\ boards' = boards /\ boards[BoardOf[ThreadOf[p]]] # "gone" /\ posts[p] = "unused"
          /\ threads[ThreadOf[p]] # "gone"
          /\ posts' = [posts EXCEPT ![p] = "live"]
          /\ threads' = [threads EXCEPT ![ThreadOf[p]] =
                IF threads[ThreadOf[p]] = "unused" THEN "live" ELSE threads[ThreadOf[p]]]
        BY <1>1 DEF Write
    <2>2. threads'[ThreadOf[p]] \in {"live", "trash"}
        BY <2>1 DEF RowStates
    <2>3. \A t \in Threads : t # ThreadOf[p] => threads'[t] = threads[t]
        BY <2>1
    <2>. QED  BY <2>1, <2>2, <2>3
<1>2. ASSUME NEW p \in Posts, TrashOrRestorePost(p)
      PROVE  Cascade' /\ boards' = boards
    BY <1>2 DEF TrashOrRestorePost
<1>3. ASSUME NEW t \in Threads, TrashOrRestoreThread(t)
      PROVE  Cascade' /\ boards' = boards
    BY <1>3 DEF TrashOrRestoreThread, Flip
<1>4. ASSUME NEW b \in Boards, SetReadable(b)
      PROVE  Cascade' /\ \A a \in Boards : boards[a] = "gone" => boards'[a] = "gone"
    BY <1>4 DEF SetReadable
<1>5. ASSUME NEW b \in Boards, DeleteBoard(b)
      PROVE  Cascade' /\ \A a \in Boards : boards[a] = "gone" => boards'[a] = "gone"
    BY <1>5 DEF DeleteBoard, Lost
<1>. QED
    BY <1>1, <1>2, <1>3, <1>4, <1>5 DEF Change

\* What a request has seen only grows, and holds what is so now.
LEMMA Grows ==
    ASSUME TypeOK, Watch, NEW r \in Requests, pc'[r] # "idle"
    PROVE  /\ Within(seen[r], seen'[r])
           /\ pc[r] # "sent" => Within(Sight(r)', seen'[r])
<1>1. CASE pc[r] = "sent"
    BY <1>1 DEF Watch, Within
<1>2. CASE pc[r] # "sent"
    <2>1. seen'[r] = Add(seen[r], Sight(r)')
        BY <1>2 DEF Watch
    <2>. QED  BY <2>1 DEF Add, Within
<1>. QED  BY <1>1, <1>2

\* What was fit to be shown stays so.
LEMMA StaysFit ==
    ASSUME NEW r \in Requests, NEW c \in Contents, Fit(r, c), Within(seen[r], seen'[r]),
           \A b \in Boards : boards[b] = "gone" => boards'[b] = "gone"
    PROVE  Fit(r, c)'
BY DEF Fit, Within, Reached, Contents

\* A request that did not move keeps what it has.
LEMMA StandsStill ==
    ASSUME TypeInv, NEW r \in Requests, ReqInv(r),
           pc'[r] = pc[r], loc'[r] = loc[r], shown'[r] = shown[r],
           pc[r] # "idle" => Within(seen[r], seen'[r]),
           pc[r] \notin {"idle", "sent"} => Within(Sight(r)', seen'[r]),
           \A b \in Boards : boards[b] = "gone" => boards'[b] = "gone"
    PROVE  ReqInv(r)'
<1>1. CASE pc[r] = "idle"
    BY <1>1 DEF ReqInv
<1>2. CASE pc[r] # "idle"
    <2>1. Fit(r, shown[r])'
        BY <1>2, HeldType, StaysFit DEF ReqInv, TypeInv, Fit, Reached
    <2>2. pc[r] \in {"user", "rows"} /\ loc[r].page \in {"board", "thread"} => loc[r].board \in Boards
        BY <1>2 DEF TypeInv, Holds, Bound
    <2>3. pc[r] = "rows" => loc[r].page \in {"board", "thread"}
        BY <1>2 DEF TypeInv, Holds, Bound
    <2>4. Known(r)'
        BY <1>2, <2>2, <2>3 DEF ReqInv, Known, Reached, Within
    <2>. QED  BY <2>1, <2>4 DEF ReqInv
<1>. QED  BY <1>1, <1>2

\* A step that puts what it found on the page.
LEMMA MoverKnows ==
    ASSUME TypeOK, NEW r \in Requests, ReqInv(r), Frame(r), Watch,
           pc[r] \notin {"idle", "sent"}, pc'[r] # "idle",
           loc'[r].page = loc[r].page, loc'[r].thread = loc[r].thread,
           loc'[r].nav \subseteq seen[r].open,
           loc'[r].member = loc[r].member \/ pc[r] = "user",
           pc'[r] = "user" /\ loc'[r].page \in {"board", "thread"} /\ loc'[r].open
               => Reached(r, loc'[r].board),
           pc'[r] = "rows" => \/ Reached(r, loc'[r].board)
                              \/ loc'[r].member /\ loc'[r].board \in Boards,
           loc[r].page = "thread" /\ pc'[r] # "thread" => loc[r].thread \in seen[r].threads,
           \A p \in loc'[r].matches : BoardOf[ThreadOf[p]] \in seen[r].open,
           Fit(r, shown'[r])
    PROVE  ReqInv(r)'
<1>1. /\ Within(seen[r], seen'[r]) /\ Within(Sight(r)', seen'[r])
      /\ boards' = boards
    BY Grows DEF Frame
<1>2. Fit(r, shown[r])'
    BY <1>1 DEF Fit, Reached, Within
<1>3. loc'[r].member => Boards \subseteq seen'[r].open
    <2>1. CASE pc[r] = "user"
        <3>1. loc'[r].member => Sight(r)'.open = Boards
            BY DEF Sight
        <3>. QED  BY <1>1, <3>1 DEF Within
    <2>2. CASE loc'[r].member = loc[r].member
        BY <1>1, <2>2 DEF ReqInv, Known, Within
    <2>. QED  BY <2>1, <2>2
<1>4. Known(r)'
    <2>1. loc'[r].nav \subseteq seen'[r].open
        BY <1>1 DEF Within
    <2>2. pc'[r] = "rows" => Reached(r, loc[r].board)'
        BY <1>1, <1>3 DEF Within, Reached
    <2>3. pc'[r] = "user" /\ loc'[r].page \in {"board", "thread"} /\ loc'[r].open
               => Reached(r, loc[r].board)'
        BY <1>1 DEF Within, Reached
    <2>4. /\ loc'[r].page = "thread" /\ pc'[r] # "thread" => loc'[r].thread \in seen'[r].threads
          /\ \A p \in loc'[r].matches : BoardOf[ThreadOf[p]] \in seen'[r].open
        BY <1>1 DEF Within
    <2>. QED  BY <1>1, <1>3, <2>1, <2>2, <2>3, <2>4 DEF Known
<1>. QED  BY <1>2, <1>4 DEF ReqInv

\* Each fact, read off Sight.
LEMMA SightNow ==
    ASSUME TypeOK, NEW r \in Requests, Within(Sight(r), seen[r])
    PROVE  /\ \A b \in Boards : boards[b] = "public" \/ loc[r].member => b \in seen[r].open
           /\ LiveThreads \subseteq seen[r].threads
           /\ LivePosts \cap Concerned(r) \subseteq seen[r].posts
BY DEF Within, Sight, Public

LEMMA MoverKeeps ==
    ASSUME TypeInv, Cascade, NEW r \in Requests, ReqInv(r), Read(r), Watch
    PROVE  ReqInv(r)'
<1>1. TypeOK /\ Holds(r)
    BY DEF TypeInv
<1>2. Frame(r)
    BY <1>1, ReadType
<1>3. pc[r] # "idle" => Known(r) /\ Fit(r, shown[r]) /\ Bound(r)
    BY <1>1 DEF ReqInv, Holds
<1>4. pc[r] \notin {"idle", "sent"} =>
        /\ \A b \in Boards : boards[b] = "public" \/ loc[r].member => b \in seen[r].open
        /\ LiveThreads \subseteq seen[r].threads
        /\ LivePosts \cap Concerned(r) \subseteq seen[r].posts
    BY <1>1, <1>3, SightNow DEF Known
<1>5. loc[r] \in Locals /\ shown[r] \in Contents
    BY <1>1, HeldType
\* A board that is gone has no live thread, and no live post.
<1>6. /\ \A t \in LiveThreads : boards[BoardOf[t]] # "gone"
      /\ \A p \in LivePosts : boards[BoardOf[ThreadOf[p]]] # "gone" /\ ThreadOf[p] \in Threads
    BY DEF Cascade, LiveThreads, LivePosts, Stored
<1>7. CASE Begin(r)
    <2>1. /\ shown'[r] = Blank /\ pc[r] = "idle" /\ pc'[r] \in {"user", "board", "thread"}
          /\ loc'[r].nav = {} /\ loc'[r].matches = {} /\ ~loc'[r].member /\ ~loc'[r].open
          /\ pc'[r] = "user" => loc'[r].page \in {"home", "search"}
          /\ pc'[r] = "board" => loc'[r].page = "board"
        BY <1>1, <1>7, BeginMoves
    <2>2. Within(Sight(r)', seen'[r])
        BY <1>1, <2>1, Grows
    <2>3. Fit(r, shown[r])'
        BY <2>1 DEF Fit, Blank
    <2>4. Known(r)'
        BY <2>1, <2>2 DEF Known
    <2>. QED  BY <2>3, <2>4 DEF ReqInv
<1>8. CASE Close(r)
    BY <1>1, <1>8, CloseMoves DEF ReqInv
<1>9. CASE ReadThread(r)
    <2>1. /\ pc[r] = "thread" /\ pc'[r] = "board" /\ shown'[r] = shown[r]
          /\ loc[r].thread \in LiveThreads
        BY <1>1, <1>9, ReadThreadMoves
    <2>2. loc'[r] = [loc[r] EXCEPT !.board = BoardOf[loc[r].thread]]
        BY <1>1, <1>9, ReadThreadMoves
    <2>3. /\ loc'[r].page = loc[r].page /\ loc'[r].thread = loc[r].thread /\ loc'[r].nav = loc[r].nav
          /\ loc'[r].member = loc[r].member /\ loc'[r].matches = loc[r].matches
        BY <1>5, <2>2 DEF Locals
    <2>. QED  BY <1>1, <1>2, <1>3, <1>4, <2>1, <2>3, MoverKnows DEF Known
<1>10. CASE ReadBoard(r)
    <2>1. pc[r] = "board" /\ pc'[r] = "user" /\ shown'[r] = shown[r]
        BY <1>1, <1>10, ReadBoardMoves
    <2>2. loc'[r] = [loc[r] EXCEPT !.open = ~AsksLogin(loc[r].board)]
        BY <1>1, <1>10, ReadBoardMoves
    <2>3. /\ loc'[r].page = loc[r].page /\ loc'[r].thread = loc[r].thread /\ loc'[r].nav = loc[r].nav
          /\ loc'[r].member = loc[r].member /\ loc'[r].matches = loc[r].matches
          /\ loc'[r].board = loc[r].board /\ loc'[r].open = ~AsksLogin(loc[r].board)
        BY <1>5, <2>2 DEF Locals
    <2>4. loc[r].board \in Boards
        BY <1>3, <2>1 DEF Bound
    <2>5. loc'[r].open => Reached(r, loc[r].board)
        BY <1>1, <1>4, <2>1, <2>3, <2>4 DEF Reached, AsksLogin, TypeOK, BoardStates
    <2>. QED  BY <1>1, <1>2, <1>3, <2>1, <2>3, <2>5, MoverKnows DEF Known
<1>11. CASE ReadUser(r)
    <2>1. pc[r] = "user" /\ pc'[r] = NextAfterUser(loc[r].page) /\ shown'[r] = shown[r]
        BY <1>1, <1>11, ReadUserMoves
    <2>2. PICK m \in BOOLEAN :
            /\ loc[r].page \in {"board", "thread"} => loc[r].open \/ m
            /\ loc'[r] = [loc[r] EXCEPT !.member = m]
        BY <1>1, <1>11, ReadUserMoves
    <2>3. /\ loc'[r].page = loc[r].page /\ loc'[r].thread = loc[r].thread /\ loc'[r].nav = loc[r].nav
          /\ loc'[r].matches = loc[r].matches /\ loc'[r].board = loc[r].board /\ loc'[r].member = m
        BY <1>5, <2>2 DEF Locals
    <2>4. pc'[r] \in {"rows", "boards"} /\ (pc'[r] = "rows" => loc[r].page \in {"board", "thread"})
        BY <2>1 DEF NextAfterUser
    <2>5. loc[r].page \in {"board", "thread"} => loc[r].board \in Boards
        BY <1>3, <2>1 DEF Bound
    <2>6. pc'[r] = "rows" => \/ Reached(r, loc'[r].board)
                             \/ loc'[r].member /\ loc'[r].board \in Boards
        BY <1>3, <2>1, <2>2, <2>3, <2>4, <2>5 DEF Known
    <2>. QED  BY <1>1, <1>2, <1>3, <2>1, <2>3, <2>4, <2>6, MoverKnows DEF Known
<1>12. CASE ListThreads(r)
    <2>1. pc[r] = "rows" /\ pc'[r] = "boards" /\ loc'[r] = loc[r]
        BY <1>1, <1>12, ListThreadsMoves
    <2>2. shown'[r] = [shown[r] EXCEPT !.titles = {t \in LiveThreads : BoardOf[t] = loc[r].board}]
        BY <1>1, <1>12, ListThreadsMoves
    <2>3. /\ shown'[r].boards = shown[r].boards /\ shown'[r].heading = shown[r].heading
          /\ shown'[r].titles = {t \in LiveThreads : BoardOf[t] = loc[r].board}
          /\ shown'[r].texts = shown[r].texts
        BY <1>5, <2>2 DEF Contents
    <2>4. Fit(r, shown'[r])
        BY <1>3, <1>4, <1>6, <2>1, <2>3 DEF Fit, Known, Reached
    <2>. QED  BY <1>1, <1>2, <1>3, <2>1, <2>4, MoverKnows DEF Known
<1>13. CASE ListPosts(r)
    <2>1. pc[r] = "rows" /\ pc'[r] = "boards" /\ loc'[r] = loc[r] /\ loc[r].page = "thread"
        BY <1>1, <1>13, ListPostsMoves
    <2>2. shown'[r] = [shown[r] EXCEPT !.texts = {p \in LivePosts : ThreadOf[p] = loc[r].thread},
                                       !.heading = {loc[r].thread}]
        BY <1>1, <1>13, ListPostsMoves
    <2>3. /\ shown'[r].boards = shown[r].boards /\ shown'[r].heading = {loc[r].thread}
          /\ shown'[r].titles = shown[r].titles
          /\ shown'[r].texts = {p \in LivePosts : ThreadOf[p] = loc[r].thread}
        BY <1>5, <2>2 DEF Contents
    <2>4. /\ Reached(r, BoardOf[loc[r].thread]) /\ loc[r].thread \in seen[r].threads
        BY <1>3, <2>1 DEF Known, Bound
    <2>5. {p \in LivePosts : ThreadOf[p] = loc[r].thread} \subseteq seen[r].posts
        BY <1>4, <2>1 DEF Concerned, LivePosts
    <2>6. Fit(r, shown'[r])
        BY <1>3, <1>6, <2>1, <2>3, <2>4, <2>5 DEF Fit, Reached
    <2>. QED  BY <1>1, <1>2, <1>3, <2>1, <2>6, MoverKnows DEF Known
<1>14. CASE ReadBoards(r)
    <2>1. pc[r] = "boards" /\ pc'[r] = "recent"
        BY <1>1, <1>14, ReadBoardsMoves
    <2>2. PICK read \in {Boards, {}} :
            /\ loc'[r] = [loc[r] EXCEPT !.nav = read \cap Public]
            /\ shown'[r] = [shown[r] EXCEPT !.boards =
                {b \in read : boards[b] # "gone" /\ (loc[r].member \/ boards[b] = "public")}]
        BY <1>1, <1>14, ReadBoardsMoves
    <2>3. /\ loc'[r].page = loc[r].page /\ loc'[r].thread = loc[r].thread
          /\ loc'[r].member = loc[r].member /\ loc'[r].matches = loc[r].matches
          /\ loc'[r].nav = read \cap Public
        BY <1>5, <2>2 DEF Locals
    <2>4. /\ shown'[r].boards = {b \in read : boards[b] # "gone" /\ (loc[r].member \/ boards[b] = "public")}
          /\ shown'[r].heading = shown[r].heading /\ shown'[r].titles = shown[r].titles
          /\ shown'[r].texts = shown[r].texts
        BY <1>5, <2>2 DEF Contents
    <2>5. loc'[r].nav \subseteq seen[r].open
        BY <1>4, <2>1, <2>3 DEF Public
    <2>6. shown'[r].boards \subseteq seen[r].open
        BY <1>4, <2>1, <2>4
    <2>7. Fit(r, shown'[r])
        BY <1>3, <2>1, <2>4, <2>6 DEF Fit
    <2>. QED  BY <1>1, <1>2, <1>3, <2>1, <2>3, <2>5, <2>7, MoverKnows DEF Known
<1>15. CASE ReadRecent(r)
    <2>1. pc[r] = "recent" /\ pc'[r] = AfterRecent(r) /\ loc'[r] = loc[r]
        BY <1>1, <1>15, ReadRecentMoves
    <2>2. shown'[r] = [shown[r] EXCEPT !.titles = shown[r].titles \cup ListedRecent(r, LiveThreads)]
        BY <1>1, <1>15, ReadRecentMoves
    <2>3. /\ shown'[r].boards = shown[r].boards /\ shown'[r].heading = shown[r].heading
          /\ shown'[r].titles = shown[r].titles \cup ListedRecent(r, LiveThreads)
          /\ shown'[r].texts = shown[r].texts
        BY <1>5, <2>2 DEF Contents
    <2>4. pc'[r] \in {"matches", "hint", "sent"}
        BY <2>1 DEF AfterRecent
    <2>5. \A t \in ListedRecent(r, LiveThreads) : BoardOf[t] \in seen[r].open /\ t \in seen[r].threads
        BY <1>3, <1>4, <2>1 DEF ListedRecent, LiveThreads, Known
    <2>6. Fit(r, shown'[r])
        BY <1>3, <2>1, <2>3, <2>5 DEF Fit
    <2>. QED  BY <1>1, <1>2, <1>3, <2>1, <2>4, <2>6, MoverKnows DEF Known
<1>16. CASE ReadHint(r)
    <2>1. pc[r] = "hint" /\ pc'[r] = "sent" /\ loc'[r] = loc[r]
        BY <1>1, <1>16, ReadHintMoves
    <2>2. shown'[r] = [shown[r] EXCEPT !.texts = shown[r].texts \cup HintOf(r)]
        BY <1>1, <1>16, ReadHintMoves
    <2>3. /\ shown'[r].boards = shown[r].boards /\ shown'[r].heading = shown[r].heading
          /\ shown'[r].titles = shown[r].titles
          /\ shown'[r].texts = shown[r].texts \cup HintOf(r)
        BY <1>5, <2>2 DEF Contents
    <2>4. loc[r].page = "thread" /\ loc[r].member /\ loc[r].thread \in seen[r].threads
        BY <1>3, <2>1 DEF Bound, Known
    <2>5. \A p \in HintOf(r) :
            /\ BoardOf[ThreadOf[p]] \in seen[r].open
            /\ p \in seen[r].posts /\ ThreadOf[p] \in seen[r].threads
        BY <1>4, <2>1, <2>4 DEF HintOf, LivePosts, Concerned
    <2>6. Fit(r, shown'[r])
        BY <1>3, <2>1, <2>3, <2>5 DEF Fit
    <2>. QED  BY <1>1, <1>2, <1>3, <2>1, <2>6, MoverKnows DEF Known
<1>17. CASE Search(r)
    <2>1. pc[r] = "matches" /\ pc'[r] = "titles"
        BY <1>1, <1>17, SearchMoves
    <2>2. /\ loc'[r] = [loc[r] EXCEPT !.matches = Searchable(r)]
          /\ shown'[r] = [shown[r] EXCEPT !.texts = Searchable(r)]
        BY <1>1, <1>17, SearchMoves
    <2>3. /\ loc'[r].page = loc[r].page /\ loc'[r].thread = loc[r].thread
          /\ loc'[r].member = loc[r].member /\ loc'[r].nav = loc[r].nav
          /\ loc'[r].matches = Searchable(r)
        BY <1>5, <2>2 DEF Locals
    <2>4. /\ shown'[r].boards = shown[r].boards /\ shown'[r].heading = shown[r].heading
          /\ shown'[r].titles = shown[r].titles /\ shown'[r].texts = Searchable(r)
        BY <1>5, <2>2 DEF Contents
    <2>5. loc[r].page = "search"
        BY <1>3, <2>1 DEF Bound
    <2>6. \A p \in Searchable(r) :
            /\ BoardOf[ThreadOf[p]] \in seen[r].open
            /\ p \in seen[r].posts /\ ThreadOf[p] \in seen[r].threads
        BY <1>4, <2>1, <2>5 DEF Searchable, LivePosts, LiveThreads, Concerned
    <2>7. Fit(r, shown'[r])
        BY <1>3, <2>1, <2>4, <2>6 DEF Fit
    <2>. QED  BY <1>1, <1>2, <1>3, <2>1, <2>3, <2>6, <2>7, MoverKnows DEF Known
<1>18. CASE ReadTitle(r)
    <2>1. pc[r] = "titles" /\ pc'[r] = pc[r]
        BY <1>1, <1>18, ReadTitleMoves
    <2>2. PICK p \in loc[r].matches :
            /\ loc'[r] = [loc[r] EXCEPT !.matches = loc[r].matches \ {p}]
            /\ shown'[r] = [shown[r] EXCEPT
                    !.titles = shown[r].titles \cup ({ThreadOf[p]} \cap LiveThreads)]
        BY <1>1, <1>18, ReadTitleMoves
    <2>3. /\ loc'[r].page = loc[r].page /\ loc'[r].thread = loc[r].thread
          /\ loc'[r].member = loc[r].member /\ loc'[r].nav = loc[r].nav
          /\ loc'[r].matches = loc[r].matches \ {p}
        BY <1>5, <2>2 DEF Locals
    <2>4. /\ shown'[r].boards = shown[r].boards /\ shown'[r].heading = shown[r].heading
          /\ shown'[r].titles = shown[r].titles \cup ({ThreadOf[p]} \cap LiveThreads)
          /\ shown'[r].texts = shown[r].texts
        BY <1>5, <2>2 DEF Contents
    <2>5. BoardOf[ThreadOf[p]] \in seen[r].open
        BY <1>3, <2>1, <2>2 DEF Known
    <2>6. Fit(r, shown'[r])
        BY <1>3, <1>4, <2>1, <2>4, <2>5 DEF Fit
    <2>. QED  BY <1>1, <1>2, <1>3, <2>1, <2>3, <2>6, MoverKnows DEF Known
<1>19. CASE SendResults(r)
    <2>1. pc[r] = "titles" /\ pc'[r] = "sent" /\ loc'[r] = loc[r] /\ shown'[r] = shown[r]
        BY <1>1, <1>19, SendResultsMoves
    <2>. QED  BY <1>1, <1>2, <1>3, <2>1, MoverKnows DEF Known
<1>. QED
    BY <1>7, <1>8, <1>9, <1>10, <1>11, <1>12, <1>13, <1>14, <1>15, <1>16, <1>17, <1>18, <1>19 DEF Read

LEMMA IInvInit == Init => IInv
BY TypeInit, CascadeInit DEF Init, IInv, ReqInv

LEMMA IInvNext == IInv /\ [Next]_vars => IInv'
<1>. SUFFICES ASSUME IInv, [Next]_vars
              PROVE  IInv'
    OBVIOUS
<1>1. TypeInv' /\ TypeInv /\ TypeOK /\ Cascade
    BY TypeNext DEF IInv, TypeInv
<1>2. /\ Cascade'
      /\ \A b \in Boards : boards[b] = "gone" => boards'[b] = "gone"
    <2>1. ASSUME NEW r \in Requests, Read(r)
          PROVE  UNCHANGED <<boards, threads, posts>>
        BY <1>1, <2>1, ReadType DEF TypeInv, Frame
    <2>2. CASE UNCHANGED <<boards, threads, posts>>
        BY <1>1, <2>2 DEF Cascade
    <2>. QED  BY <1>1, <2>1, <2>2, CascadeChange DEF Next, vars
<1>. SUFFICES ASSUME NEW q \in Requests
              PROVE  ReqInv(q)'
    BY <1>1, <1>2 DEF IInv
<1>3. ReqInv(q)
    BY DEF IInv
<1>4. ASSUME NEW r \in Requests, Read(r), Watch
      PROVE  ReqInv(q)'
    <2>1. CASE q = r
        BY <1>1, <1>3, <1>4, <2>1, MoverKeeps
    <2>2. CASE q # r
        <3>1. pc'[q] = pc[q] /\ loc'[q] = loc[q] /\ shown'[q] = shown[q]
            BY <1>1, <1>4, <2>2, ReadType DEF TypeInv, Frame
        <3>. QED  BY <1>1, <1>2, <1>3, <1>4, <3>1, Grows, StandsStill
    <2>. QED  BY <2>1, <2>2
<1>5. ASSUME Change, Watch
      PROVE  ReqInv(q)'
    BY <1>1, <1>2, <1>3, <1>5, ChangeType, Grows, StandsStill
<1>6. ASSUME UNCHANGED vars
      PROVE  ReqInv(q)'
    <2>1. Sight(q)' = Sight(q)
        BY <1>6 DEF vars, Sight, Public, LiveThreads, LivePosts, Concerned
    <2>2. pc[q] \notin {"idle", "sent"} => Within(Sight(q)', seen'[q])
        BY <1>3, <1>6, <2>1 DEF vars, ReqInv, Known
    <2>3. Within(seen[q], seen'[q])
        BY <1>6 DEF vars, Within
    <2>. QED  BY <1>1, <1>2, <1>3, <1>6, <2>2, <2>3, StandsStill DEF vars
<1>. QED
    BY <1>4, <1>5, <1>6 DEF Next

THEOREM Inductive == Spec => []IInv
<1>. QED  BY IInvInit, IInvNext, PTL DEF Spec

\* Whatever is on a page was open to its reader at some moment since the request
\* began, whatever the numbers of boards, threads, posts and requests.
THEOREM AllowedSafe == Spec => []ShownWasAllowed
<1>1. IInv => ShownWasAllowed
    <2>. SUFFICES ASSUME IInv, NEW r \in Requests
                  PROVE  Fit(r, shown[r])
        BY DEF ShownWasAllowed, Fit, Reached, Allowed
    <2>1. CASE pc[r] = "idle"
        BY <2>1 DEF IInv, TypeInv, Holds, Fit, Blank
    <2>2. CASE pc[r] # "idle"
        BY <2>2 DEF IInv, ReqInv
    <2>. QED  BY <2>1, <2>2
<1>. QED  BY <1>1, Inductive, PTL

\* Nothing is on a page that was in the trash, or gone, all the while.
THEOREM LiveSafe == Spec => []ShownWasLive
<1>1. IInv => ShownWasLive
    <2>. SUFFICES ASSUME IInv, NEW r \in Requests
                  PROVE  Fit(r, shown[r])
        BY DEF ShownWasLive, Fit
    <2>1. CASE pc[r] = "idle"
        BY <2>1 DEF IInv, TypeInv, Holds, Fit, Blank
    <2>2. CASE pc[r] # "idle"
        BY <2>2 DEF IInv, ReqInv
    <2>. QED  BY <2>1, <2>2
<1>. QED  BY <1>1, Inductive, PTL

=============================================================================
