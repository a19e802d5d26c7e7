CONSTANTS
    Notebooks = {n1}
    Revisions = {r1, r2}
    Contents = {c1}
    NoContent = NoContent
    ArtifactIds = {x1, x2}
    NoOperation = NoOperation
    NoPointer = NoPointer
    BatchCount = 2
    DocumentQuota = 4
    IndexQuota = 2
    Grace = 0
    Retention = 1
    MaxCrashes = 1
SPECIFICATION FairSpec
INVARIANTS TypeOK CatalogBacked SuccessMeansReady QuotasAccounted
PROPERTIES QuietErasesAll
