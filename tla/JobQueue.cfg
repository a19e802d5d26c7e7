CONSTANTS
    Workers = {w1}
    Actors = {a1, a2}
    Keys = {k1}
    Requests = {rebuild, finalize, query}
    Resumable = {rebuild, finalize}
    Vacated = Vacated
    NoRequest = NoRequest
    MaxActive = 2
    Retention = 1
    MaxOps = 3
    MaxTime = 3
    MaxCrashes = 1
    MaxFaults = 0
SPECIFICATION FairSpec
INVARIANTS TypeOK LiveDedupe HandlesMatchRows OneJobPerKey RunnerOwnsRunning
PROPERTIES TerminalIsFinal HandleRetention ImplementsContract EveryOperationEnds
\* The system may stop: callers need not submit and the bounds are finite.
CHECK_DEADLOCK FALSE
