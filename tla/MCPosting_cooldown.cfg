SPECIFICATION Spec
CONSTANTS
    Users = {u1}
    Exempt = {}
    Boards = {b1}
    Threads = {t1}
    Posts = {p1, p2, p3}
    Requests = {r1, r2}
    Moderators = {}
    Flags = {"locked"}
    Rules = {"open", "named"}
    Anonymity = {TRUE, FALSE}
    Cooldown = 1
    MaxTime = 1
    None = None
SYMMETRY Symmetry
INVARIANTS
    CooldownBounded
    AnonymousAllowed
