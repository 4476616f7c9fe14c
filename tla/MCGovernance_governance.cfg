SPECIFICATION Spec
CONSTANTS
    o = o
    m = m
    b1 = b1
    b2 = b2
    Users = {o, m}
    Owners = {o}
    Flagged = {o}
    Boards = {b1, b2}
    Assigned <- ModeratesOne
    Reports = {q1}
    Requests = {r1, r2}
    Named = {m}
    None = None
SYMMETRY Symmetry
INVARIANTS
    TypeOK
    Authorised
PROPERTIES
    ReportFinal
