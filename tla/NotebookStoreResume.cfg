CONSTANTS
    Notebooks = {n1}
    Revisions = {r1}
    Contents = {c1}
    NoContent = NoContent
    ArtifactIds = {x1}
    NoOperation = NoOperation
    NoPointer = NoPointer
    BatchCount = 1
    DocumentQuota = 4
    IndexQuota = 2
    Grace = 0
    Retention = 1
    MaxCrashes = 1
SPECIFICATION Spec
INVARIANTS SafeResumption
