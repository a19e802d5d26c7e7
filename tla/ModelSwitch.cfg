CONSTANTS
    staging = staging
    production = production
    m1 = m1
    m2 = m2
    m3 = m3
    Environments = {staging, production}
    Containers = {m1, m2, m3}
    Approved <- TwoAndOne
    Free = Free
    NoRequest = NoRequest
    MaxRequests <- FiveAndOne
    MaxCrashes = 1
SPECIFICATION Spec
INVARIANTS TypeOK OneModelOnGPU OwnModelNeverConflicts StopIsFinal
PROPERTIES ComesToRest
\* The system may stop: jobs need not be submitted and the bounds are finite.
CHECK_DEADLOCK FALSE
