SPECIFICATION FairSpec
CONSTANTS
    Requests = {r1, r2}
    Names = {n1, n2}
    Codes = {c1}
    MaxUses = {1}
    Modes = {"open", "closed"}
    Switches = {TRUE, FALSE}
    PoolSize = 2
    MaxTime = 1
    DbMayFail = TRUE
    None = None
INVARIANTS
    TypeOK
    InviteAccounted
PROPERTIES
    RegistersAtomically
    Answered
