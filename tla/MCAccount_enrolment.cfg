SPECIFICATION Spec
CONSTANTS
    r1 = r1
    r2 = r2
    Requests = {r1, r2}
    Handlers <- Enrolment
    SessionIds = {s1, s2}
    PendingIds = {p1}
    Secrets = {k1, k2}
    Codes = {c1, c2}
    None = None
    Enrolled = TRUE
    MaxAttempts = 1
    AccountLimit = 1
    PendingTTL = 1
    AttemptWindow = 2
    Skew = 0
    MaxTime = 0
    DbMayFail = TRUE
SYMMETRY Symmetry
INVARIANTS
    CodeOnce
PROPERTIES
    RecoverySingleUse
