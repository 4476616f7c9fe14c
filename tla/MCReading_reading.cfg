SPECIFICATION Spec
CONSTANTS
    b1 = b1
    b2 = b2
    t1 = t1
    t2 = t2
    p1 = p1
    p2 = p2
    p3 = p3
    Boards = {b1, b2}
    Threads = {t1, t2}
    Posts = {p1, p2, p3}
    BoardOf <- BoardOfThread
    ThreadOf <- ThreadOfPost
    ParentOf <- Answers
    Existing = {p1, p3}
    Requests = {r1}
    Pages = {"home", "board", "thread", "search"}
    None = None
INVARIANTS
    TypeOK
    ShownWasAllowed
    ShownWasLive
