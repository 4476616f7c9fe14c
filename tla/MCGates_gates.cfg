SPECIFICATION Spec
CONSTANTS
    Users = {o, m}
    Owners = {o}
    Flagged = {o}
    Requests = {r1}
    Policies = {"none", "staff", "all"}
    None = None
INVARIANTS
    TypeOK
    FactorScreened
    MaintenanceScreened
