CONSTANTS
    Workers = {w1, w2}
    Actors = {a1}
    Keys = {k1, k2, k3}
    Requests = {rebuild, finalize, query}
    Resumable = {rebuild, finalize}
    Vacated = Vacated
    NoRequest = NoRequest
    MaxActive = 2
    Retention = 1
    MaxOps = 3
    MaxTime = 2
    MaxCrashes = 1
    MaxFaults = 1
SPECIFICATION Spec
SYMMETRY CallerSymmetry
INVARIANTS OneRunning FifoService QueueBounded
\* The system may stop: callers need not submit and the bounds are finite.
CHECK_DEADLOCK FALSE
