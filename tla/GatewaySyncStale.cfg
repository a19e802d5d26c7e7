CONSTANTS
    Users = {u1}
    BatchCount = 2
    Timeout = 1
    Grace = 1
    Retention = 2
SPECIFICATION Spec
INVARIANTS PreparationEffective
