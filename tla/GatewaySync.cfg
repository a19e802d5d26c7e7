CONSTANTS
    Users = {u1, u2}
    BatchCount = 1
    Timeout = 1
    Grace = 1
    Retention = 1
SPECIFICATION FairSpec
INVARIANTS TypeOK FreshPreparationEffective
PROPERTIES PreparationEnds
