SPECIFICATION Spec
CONSTANTS
    Requests = {r1, r2}
    Challenges = {c1, c2}
    lower1 = lower1
    upper1 = upper1
    lower2 = lower2
    c1 = c1
    c2 = c2
    Keys = {lower1, upper1, lower2}
    Of <- Signed
    Levels = {1, 2}
    DefaultLevel = 1
    MaxUsed = 1
    TTL = 1
    MaxTime = 2
    MaxCount = 2
    None = None
SYMMETRY Symmetry
INVARIANTS
    TypeOK
    AcceptedOnceWhileKept
    UsedBounded
    NoneLeftBehind
