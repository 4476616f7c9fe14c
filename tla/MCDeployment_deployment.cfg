SPECIFICATION DeploymentSpec
CONSTANTS
    v1 = v1
    v2 = v2
    Releases = {v1, v2}
    Migrations <- OneMore
    First = v1
    Instances = {i1, i2}
    Service = i1
    Nothing = Nothing
INVARIANTS
    DeploymentTypeOK
    
    EndsAsReported
