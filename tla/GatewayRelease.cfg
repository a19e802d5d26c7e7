CONSTANTS
    Users = {u1, u2}
    Notebooks = {n1}
    Revisions = {r1, r2}
    Callers = {c1, c2}
    Keys = {k1}
    Operations = {"ask", "index_rebuild"}
    JobIds = {j1}
    SyncRetries = 1
    OwnershipTTL = 0
    JobRetention = 0
    MaxChanges = 2
    MaxTime = 1
    SignedOut = SignedOut
SPECIFICATION Spec
INVARIANTS TypeOK OwnersTrue NeverCollides SubmissionJustified ReleaseJustified
SYMMETRY Symmetry
