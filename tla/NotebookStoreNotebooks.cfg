CONSTANTS
    Notebooks = {n1, n2}
    Revisions = {r1}
    Contents = {c1, c2}
    NoContent = NoContent
    ArtifactIds = {x1, x2, x3}
    NoOperation = NoOperation
    NoPointer = NoPointer
    BatchCount = 1
    DocumentQuota = 3
    IndexQuota = 2
    Grace = 0
    Retention = 1
    MaxCrashes = 1
SPECIFICATION Spec
SYMMETRY StoreSymmetry
PROPERTIES PublishedTogether FinalizedImmutable
