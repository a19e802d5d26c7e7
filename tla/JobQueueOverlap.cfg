CONSTANTS
    Workers = {w1, w2}
    Actors = {a1}
    Keys = {k1}
    Requests = {rebuild, query}
    Resumable = {rebuild}
    Vacated = Vacated
    NoRequest = NoRequest
    MaxActive = 1
    Retention = 1
    MaxOps = 1
    MaxTime = 1
    MaxCrashes = 1
    MaxFaults = 0
SPECIFICATION Spec
INVARIANTS NoOverlap
\* The system may stop: callers need not submit and the bounds are finite.
CHECK_DEADLOCK FALSE
