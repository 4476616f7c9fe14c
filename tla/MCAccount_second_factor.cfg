SPECIFICATION Spec
CONSTANTS
    r1 = r1
    r2 = r2
    Requests = {r1, r2}
    Handlers <- SecondFactor
    SessionIds = {s1, s2}
    PendingIds = {p1, p2}
    Secrets = {k1}
    Codes = {c1}
    None = None
    Enrolled = TRUE
    MaxAttempts = 2
    AccountLimit = 3
    PendingTTL = 1
    AttemptWindow = 2
    Skew = 1
    MaxTime = 1
    DbMayFail = FALSE
SYMMETRY Symmetry
INVARIANTS
    TypeOK
    AttemptsBounded
    BudgetPerLifetime
    FactorPresented
PROPERTIES
    PendingSingleUse
