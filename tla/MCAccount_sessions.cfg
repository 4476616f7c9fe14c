SPECIFICATION Spec
CONSTANTS
    r1 = r1
    r2 = r2
    Requests = {r1, r2}
    Handlers <- Sessions
    SessionIds = {s1, s2, s3}
    PendingIds = {}
    Secrets = {k1}
    Codes = {c1}
    None = None
    Enrolled = FALSE
    MaxAttempts = 2
    AccountLimit = 2
    PendingTTL = 1
    AttemptWindow = 2
    Skew = 0
    MaxTime = 0
    DbMayFail = TRUE
SYMMETRY Symmetry
INVARIANTS
    SessionsBounded
    PredatingSessionsGone
