------------------------------ MODULE JobQueue ------------------------------
(***************************************************************************)
(* The durable job queue of one worker environment: the SQLite tables      *)
(* `operations` and `submissions` of novo_chat/jobs.py, the submission     *)
(* path of novo_chat/worker.py and the runner thread of                    *)
(* novo_chat/executor.py.  What an operation does while it runs is left    *)
(* to the modules of the stores; here a run ends in success or failure.    *)
(***************************************************************************)
EXTENDS Naturals, FiniteSets

CONSTANTS
    Workers,      \* worker processes opened on the same database
    Actors,       \* Novo users that submit through the gateway
    Keys,         \* idempotency keys
    Requests,     \* request fingerprints: operation type, scope and payload
    Resumable,    \* fingerprints of ingest_batch, ingest_finalize, index_rebuild
    Vacated,      \* any dedupe key carrying the ':terminal:' suffix
    NoRequest,    \* no HTTP request holds the submission lock
    MaxActive,    \* WorkerConfig.max_active_operations
    Retention,    \* WorkerConfig.job_retention_seconds
    MaxOps,       \* bound: operations ever created
    MaxTime,      \* bound: the clock
    MaxCrashes,   \* bound: process crashes
    MaxFaults     \* bound: storage errors that kill a runner thread

ASSUME JobQueueAssumption ==
    /\ Resumable \subseteq Requests
    /\ Vacated \notin Requests
    /\ MaxActive \in Nat \ {0}
    /\ Retention \in Nat \ {0}
    /\ MaxOps \in Nat
    /\ MaxTime \in Nat
    /\ MaxCrashes \in Nat
    /\ MaxFaults \in Nat

ASSUME NoRequestAssumption ==
    NoRequest \notin [actor : Actors, key : Keys, request : Requests]

VARIABLES
    now,          \* the clock of the host
    created,      \* number of operations created so far (last rowid)
    state,        \* operations.state, by rowid
    dedupe,       \* operations.dedupe_key
    request,      \* the stored operation type, scope and payload
    updated,      \* operations.updated_at
    submissions,  \* the submissions table; its key stands for the public job ID
    phase,        \* life of each worker process and of its runner thread
    task,         \* the operation the runner thread has in memory, 0 for none
    pending,      \* the HTTP request that holds the process's maintenance_lock
    ended,        \* history: when each operation came to its end
    crashes,
    faults

store == <<created, state, dedupe, request, updated, submissions>>
vars == <<now, store, phase, task, pending, ended, crashes, faults>>

Ops == 1..MaxOps
Terminal == {"succeeded", "failed"}
Active == {"queued", "running"}
OpStates == Active \cup Terminal \cup {"absent", "purged"}
Calls == [actor : Actors, key : Keys, request : Requests]
Submissions == [actor : Actors, key : Keys, request : Requests, op : Ops]
Phases == {"down", "starting", "idle", "busy", "dead"}
Up(w) == phase[w] \in {"idle", "busy", "dead"}

InState(S) == {o \in Ops : state[o] \in S}

TypeOK ==
    /\ now \in 0..MaxTime
    /\ created \in 0..MaxOps
    /\ state \in [Ops -> OpStates]
    /\ dedupe \in [Ops -> Requests \cup {Vacated}]
    /\ request \in [Ops -> Requests \cup {Vacated}]
    /\ updated \in [Ops -> 0..MaxTime]
    /\ submissions \subseteq Submissions
    /\ phase \in [Workers -> Phases]
    /\ task \in [Workers -> Ops \cup {0}]
    /\ pending \in [Workers -> Calls \cup {NoRequest}]
    /\ ended \in [Ops -> 0..MaxTime]
    /\ crashes \in 0..MaxCrashes
    /\ faults \in 0..MaxFaults

Init ==
    /\ now = 0
    /\ created = 0
    /\ state = [o \in Ops |-> "absent"]
    /\ dedupe = [o \in Ops |-> Vacated]
    /\ request = [o \in Ops |-> Vacated]
    /\ updated = [o \in Ops |-> 0]
    /\ submissions = {}
    /\ phase = [w \in Workers |-> "down"]
    /\ task = [w \in Workers |-> 0]
    /\ pending = [w \in Workers |-> NoRequest]
    /\ ended = [o \in Ops |-> 0]
    /\ crashes = 0
    /\ faults = 0

-----------------------------------------------------------------------------
(* The transactions of JobStore.                                           *)

\* Terminal rows whose last transition is older than the retention window.
Expired == {o \in Ops : state[o] \in Terminal /\ updated[o] + Retention < now}

\* Mutant: the rows go, the submissions stay.
PurgeLeavesHandles ==
    /\ state' = [o \in Ops |-> IF o \in Expired THEN "purged" ELSE state[o]]
    /\ UNCHANGED <<created, dedupe, request, updated, submissions>>

\* purge_terminal_operations: the rows and every handle on them.
PurgeTerminalOperations ==
    /\ submissions' = {s \in submissions : s.op \notin Expired}
    /\ state' = [o \in Ops |-> IF o \in Expired THEN "purged" ELSE state[o]]
    /\ UNCHANGED <<created, dedupe, request, updated>>

\* Mutants: recovery leaves the rows alone, retries failed ones, or writes a
\* state that JobState does not have.
RecoverNothing == UNCHANGED store
RecoverFailedToo ==
    /\ state' = [o \in Ops |-> IF state[o] \in {"running", "failed"} THEN "queued" ELSE state[o]]
    /\ UNCHANGED <<created, dedupe, request, updated, submissions>>
RecoverMarksInterrupted ==
    /\ state' = [o \in Ops |-> IF state[o] = "running" THEN "interrupted" ELSE state[o]]
    /\ UNCHANGED <<created, dedupe, request, updated, submissions>>

\* recover_interrupted_operations: resumable operations return to the queue,
\* the others fail as WORKER_RESTARTED and vacate their dedupe key.
RecoverInterruptedOperations ==
    LET Requeued == {o \in InState({"running"}) : request[o] \in Resumable}
        Failed == InState({"running"}) \ Requeued
    IN  /\ state' = [o \in Ops |-> IF o \in Requeued THEN "queued"
                                   ELSE IF o \in Failed THEN "failed" ELSE state[o]]
        /\ dedupe' = [o \in Ops |-> IF o \in Failed THEN Vacated ELSE dedupe[o]]
        /\ updated' = [o \in Ops |-> IF o \in Requeued \cup Failed THEN now ELSE updated[o]]
        /\ UNCHANGED <<created, request, submissions>>

\* Mutant: the ended operation keeps its dedupe key.
SettleKeepsKey(o, outcome) ==
    /\ state[o] \in Active
    /\ state' = [state EXCEPT ![o] = outcome]
    /\ updated' = [updated EXCEPT ![o] = now]
    /\ UNCHANGED <<created, dedupe, request, submissions>>

\* Mutant: the end does not touch updated_at.
SettleUnstamped(o, outcome) ==
    /\ state[o] \in Active
    /\ state' = [state EXCEPT ![o] = outcome]
    /\ dedupe' = [dedupe EXCEPT ![o] = Vacated]
    /\ UNCHANGED <<created, request, updated, submissions>>

\* _transition into a terminal state, allowed from QUEUED and RUNNING.
Settle(o, outcome) ==
    /\ state[o] \in Active
    /\ state' = [state EXCEPT ![o] = outcome]
    /\ dedupe' = [dedupe EXCEPT ![o] = Vacated]
    /\ updated' = [updated EXCEPT ![o] = now]
    /\ UNCHANGED <<created, request, submissions>>

\* Mutant: a key is looked up together with the fingerprint.
ReplayedSameRequest(call) ==
    {s \in submissions : s.actor = call.actor /\ s.key = call.key /\ s.request = call.request}

\* The submission that already used this caller's idempotency key.
Replayed(call) ==
    {s \in submissions : s.actor = call.actor /\ s.key = call.key}

\* The rows whose dedupe key is the fingerprint of this call.
Duplicates(call) ==
    {o \in Ops : state[o] \notin {"absent", "purged"} /\ dedupe[o] = call.request}

\* Mutant: the limit counts waiting operations only.
QueuedCount == Cardinality(InState({"queued"}))

\* The number that submit compares with max_active_operations.
ActiveCount == Cardinality(InState(Active))

Attach(call, o) ==
    submissions' = submissions \cup
        {[actor |-> call.actor, key |-> call.key, request |-> call.request, op |-> o]}

-----------------------------------------------------------------------------
(* POST handlers.  submit_job takes maintenance_lock, purges, then runs    *)
(* the submit transaction; the runner may commit between the two.          *)

BeginSubmit(w, call) ==
    /\ Up(w)
    /\ pending[w] = NoRequest
    /\ created + Cardinality({v \in Workers : pending[v] # NoRequest}) < MaxOps
    /\ pending' = [pending EXCEPT ![w] = call]
    /\ PurgeTerminalOperations
    /\ UNCHANGED <<now, phase, task, ended, crashes, faults>>

EndSubmit(w) ==
    /\ pending[w] # NoRequest
    /\ pending' = [pending EXCEPT ![w] = NoRequest]
    /\ UNCHANGED <<now, phase, task, ended, crashes, faults>>

\* The key was used before: the same job is returned whatever its state, or
\* IDEMPOTENCY_CONFLICT when the fingerprint differs; the tables stay.
SubmitReplay(w) ==
    /\ EndSubmit(w)
    /\ Replayed(pending[w]) # {}
    /\ UNCHANGED store

\* A live operation has this fingerprint: a new handle on it.
SubmitJoin(w) ==
    /\ EndSubmit(w)
    /\ Replayed(pending[w]) = {}
    /\ \E o \in Duplicates(pending[w]) : Attach(pending[w], o)
    /\ UNCHANGED <<created, state, dedupe, request, updated>>

SubmitCreate(w) ==
    LET o == created + 1
        call == pending[w]
    IN  /\ EndSubmit(w)
        /\ Replayed(call) = {}
        /\ Duplicates(call) = {}
        /\ ActiveCount < MaxActive
        /\ created < MaxOps
        /\ created' = o
        /\ state' = [state EXCEPT ![o] = "queued"]
        /\ dedupe' = [dedupe EXCEPT ![o] = call.request]
        /\ request' = [request EXCEPT ![o] = call.request]
        /\ updated' = [updated EXCEPT ![o] = now]
        /\ Attach(call, o)

\* QUEUE_FULL
SubmitRefused(w) ==
    /\ EndSubmit(w)
    /\ Replayed(pending[w]) = {}
    /\ Duplicates(pending[w]) = {}
    /\ ActiveCount >= MaxActive
    /\ UNCHANGED store

-----------------------------------------------------------------------------
(* The runner thread: WorkerExecutor._run and run_once.                    *)

\* Mutant: a process looks at its own runner only.
OwnRunnerFree(w) == task[w] = 0

\* No row of the environment is RUNNING, whichever process started it.
EnvironmentFree(w) == InState({"running"}) = {}

\* Mutant: the queue is ordered by updated_at.
LongestUntouched(o) == \A p \in InState({"queued"}) : updated[o] <= updated[p]

\* ORDER BY rowid.
FirstInLine(o) == \A p \in InState({"queued"}) : o <= p

\* claim_next_operation: nothing runs in this environment, and the oldest
\* queued row (by rowid) has a submission to take its actor from.
Claim(w) ==
    /\ phase[w] = "idle"
    /\ EnvironmentFree(w)
    /\ \E o \in InState({"queued"}) :
         /\ FirstInLine(o)
         /\ \E s \in submissions : s.op = o
         /\ state' = [state EXCEPT ![o] = "running"]
         /\ updated' = [updated EXCEPT ![o] = now]
         /\ task' = [task EXCEPT ![w] = o]
    /\ phase' = [phase EXCEPT ![w] = "busy"]
    /\ UNCHANGED <<now, created, dedupe, request, submissions, pending, ended, crashes, faults>>

\* set_progress during the run.
SetProgress(w) ==
    /\ phase[w] = "busy"
    /\ state[task[w]] = "running"
    /\ updated' = [updated EXCEPT ![task[w]] = now]
    /\ UNCHANGED <<now, created, state, dedupe, request, submissions, phase, task,
                   pending, ended, crashes, faults>>

\* The operations that come to their end in this step do so now.
RecordEnds ==
    ended' = [o \in Ops |-> IF state[o] \notin Terminal /\ state'[o] \in Terminal THEN now ELSE ended[o]]

\* run_once ends: succeed, or fail from one of the exception handlers.
Finish(w, outcome) ==
    /\ phase[w] = "busy"
    /\ Settle(task[w], outcome)
    /\ RecordEnds
    /\ phase' = [phase EXCEPT ![w] = "idle"]
    /\ task' = [task EXCEPT ![w] = 0]
    /\ UNCHANGED <<now, pending, crashes, faults>>

ThreadDies(w) ==
    /\ phase' = [phase EXCEPT ![w] = "dead"]
    /\ task' = [task EXCEPT ![w] = 0]
    /\ UNCHANGED <<now, store, pending, ended, crashes>>

\* InvalidJobTransition: the row is no longer active, fail is refused as
\* succeed was, and the exception leaves run_once and _run.
FinishRefused(w) ==
    /\ phase[w] = "busy"
    /\ state[task[w]] \notin Active
    /\ ThreadDies(w)
    /\ UNCHANGED faults

\* A SQLite error in claim_next_operation, or in fail, leaves _run.
StorageFault(w) ==
    /\ phase[w] \in {"idle", "busy"}
    /\ faults < MaxFaults
    /\ faults' = faults + 1
    /\ ThreadDies(w)

-----------------------------------------------------------------------------
(* The process: create_worker_app, and its end.                            *)

Crash(w) ==
    /\ phase[w] # "down"
    /\ crashes < MaxCrashes
    /\ crashes' = crashes + 1
    /\ phase' = [phase EXCEPT ![w] = "down"]
    /\ task' = [task EXCEPT ![w] = 0]
    /\ pending' = [pending EXCEPT ![w] = NoRequest]
    /\ UNCHANGED <<now, store, ended, faults>>

Start(w) ==
    /\ phase[w] = "down"
    /\ phase' = [phase EXCEPT ![w] = "starting"]
    /\ RecoverInterruptedOperations
    /\ RecordEnds
    /\ UNCHANGED <<now, task, pending, crashes, faults>>

Ready(w) ==
    /\ phase[w] = "starting"
    /\ phase' = [phase EXCEPT ![w] = "idle"]
    /\ PurgeTerminalOperations
    /\ UNCHANGED <<now, task, pending, ended, crashes, faults>>

Tick ==
    /\ now < MaxTime
    /\ now' = now + 1
    /\ UNCHANGED <<store, phase, task, pending, ended, crashes, faults>>

-----------------------------------------------------------------------------
Submit(w) ==
    SubmitReplay(w) \/ SubmitJoin(w) \/ SubmitCreate(w) \/ SubmitRefused(w)

Run(w) ==
    \/ Claim(w)
    \/ SetProgress(w)
    \/ \E outcome \in Terminal : Finish(w, outcome)
    \/ FinishRefused(w)
    \/ StorageFault(w)

Lifecycle(w) == Start(w) \/ Ready(w) \/ Crash(w)

Next ==
    \/ Tick
    \/ \E w \in Workers :
         \/ \E call \in Calls : BeginSubmit(w, call)
         \/ Submit(w)
         \/ Run(w)
         \/ Lifecycle(w)

Spec == Init /\ [][Next]_vars

\* The service manager restarts a stopped worker, a handler that holds the
\* lock goes on, and the runner thread claims and finishes: every external
\* call an operation makes has a timeout.
Fairness ==
    \A w \in Workers :
        /\ WF_vars(Start(w))
        /\ WF_vars(Ready(w))
        /\ WF_vars(Submit(w))
        /\ WF_vars(Claim(w))
        /\ WF_vars(\E outcome \in Terminal : Finish(w, outcome))

FairSpec == Spec /\ Fairness

-----------------------------------------------------------------------------
(* Invariants.                                                             *)

\* At most one operation of the environment is RUNNING, through crashes,
\* recoveries and any number of processes on the same database.
OneRunning ==
    \A o, p \in InState({"running"}) : o = p

\* Operations are served in creation order: once an operation has been
\* started, every older one has left the queue for good.  A crash that puts
\* an operation back must not let a younger one overtake it.
Started == {"running", "purged"} \cup Terminal
FifoService ==
    \A o, p \in Ops : o < p /\ state[p] \in Started => state[o] \notin Active

\* Coalescing: two live operations never do the same work, and only live
\* operations hold their fingerprint, so a later request starts afresh.
LiveDedupe ==
    /\ \A o \in Ops : state[o] \in Active <=> dedupe[o] # Vacated
    /\ \A o, p \in InState(Active) : request[o] = request[p] => o = p

\* Every row a claim can meet has a handle (otherwise claim_next_operation
\* raises and the runner thread dies), and every handle leads to a row that
\* does the work its caller asked for.
HandlesMatchRows ==
    /\ \A o \in Ops : state[o] \notin {"absent", "purged"} =>
         \E s \in submissions : s.op = o
    /\ \A s \in submissions :
         /\ state[s.op] \notin {"absent", "purged"}
         /\ request[s.op] = s.request

\* One caller's idempotency key names one job.
OneJobPerKey ==
    \A s, t \in submissions : s.actor = t.actor /\ s.key = t.key => s = t

\* The queue limit holds whatever recovery puts back.
QueueBounded == Cardinality(InState(Active)) <= MaxActive

\* With one process, the table and the runner agree: a RUNNING row is the one
\* in the memory of the live runner, so the queue can never be blocked by a
\* row that nobody runs while the service looks healthy.
RunnerOwnsRunning ==
    \A w \in Workers :
        /\ phase[w] = "busy" => state[task[w]] = "running"
        /\ phase[w] \in {"starting", "idle"} => InState({"running"}) = {}

\* "One runner per worker; SQLite claiming also prevents cross-process
\* overlap" (the WorkerExecutor docstring): no two processes execute at once.
NoOverlap ==
    \A v, w \in Workers : phase[v] = "busy" /\ phase[w] = "busy" => v = w

-----------------------------------------------------------------------------
(* Action and temporal properties.                                         *)

\* What a caller saw as the end of its job stays its end: a terminal row
\* changes only by being purged.
TerminalIsFinal ==
    [][\A o \in Ops : state[o] \in Terminal => state'[o] \in {state[o], "purged"}]_vars

\* The handles whose operation came to its end longer ago than the retention
\* window, whatever has been written to its row since it was submitted.
Outdated == {s \in submissions : state[s.op] \in Terminal /\ ended[s.op] + Retention < now}

\* Steps of a process that begins to accept a request, or to serve at all.
Accepts(w) == pending[w] = NoRequest /\ pending'[w] # NoRequest
Opens(w) == phase[w] = "starting" /\ phase'[w] = "idle"

\* The window starts with the end of the job, not with its submission, its
\* claim or its last progress: until it is over the caller, retrying with its
\* key, finds the job, however the job came to its end; and the first request
\* after it, or the first start of the service, forgets the job.
HandleRetention ==
    [][ /\ submissions \ submissions' \subseteq Outdated
        /\ (\E w \in Workers : Accepts(w) \/ Opens(w)) => submissions' \cap Outdated = {} ]_vars

\* Every accepted operation ends, whatever crashes happen on the way.
EveryOperationEnds ==
    \A o \in Ops : state[o] = "queued" ~> state[o] \in Terminal

-----------------------------------------------------------------------------
(* The abstract specification: a handle shows the state of its operation.  *)

Handles == [actor : Actors, key : Keys, op : Ops]

HandleStatus ==
    [h \in Handles |->
        IF \E s \in submissions : s.actor = h.actor /\ s.key = h.key /\ s.op = h.op
        THEN state[h.op] ELSE "none"]

Contract == INSTANCE JobContract WITH status <- HandleStatus

\* Callers of a worker that runs as one process see the contract: no handle is
\* lost, revived or ended twice, and shared work moves all its handles at once.
ImplementsContract == Contract!ContractSpec

=============================================================================
