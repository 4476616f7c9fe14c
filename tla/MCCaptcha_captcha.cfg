SPECIFICATION Spec
CONSTANTS
    Requests = {r1, r2}
    Ids = {i1, i2, i3}
    MaxAttempts = 2
    MaxChallenges = 2
    TTL = 1
    MaxTime = 3
    None = None
SYMMETRY Symmetry
INVARIANTS
    TypeOK
    GuessesBounded
    TableBounded
PROPERTIES
    SingleUse
