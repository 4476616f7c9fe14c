SPECIFICATION Spec
CONSTANTS
    Users = {u1}
    Exempt = {u1}
    Boards = {b1}
    Threads = {t1, t2}
    Posts = {p1, p2, p3}
    Requests = {r1, r2}
    Moderators = {m1}
    Flags = {"locked"}
    Rules = {"open"}
    Anonymity = {FALSE}
    Cooldown = 1
    MaxTime = 0
    None = None
SYMMETRY Symmetry
INVARIANTS
    TypeOK
    CountMatches
    ClosedBounded
    ParentInThread
