---------------------------- MODULE GatewaySync ----------------------------
(***************************************************************************)
(* Preparation of one notebook revision for a rebuild: the gateway's       *)
(* GatewaySynchronizer (novo_chat/gateway/sync.py), one run per request,   *)
(* against a worker that answers from its job table (novo_chat/jobs.py),   *)
(* executes operations one at a time and prunes unreferenced data          *)
(* (novo_chat/documents.py, novo_chat/worker.py).                          *)
(*                                                                         *)
(* An operation of the worker is one step here: NotebookStore has its      *)
(* inner steps and its crashes, JobQueue the table.  The unit of time is   *)
(* longer than an operation, and the worker idles at least once per unit,  *)
(* so its maintenance pass is never late.                                  *)
(***************************************************************************)
EXTENDS Naturals, Sequences

CONSTANTS
    Users,
    BatchCount,    \* batches the revision is exported in, none for an empty notebook
    Timeout,       \* worker_job_timeout_s: a preparation that lasts longer ends
    Grace,         \* orphan_grace_seconds
    Retention      \* job_retention_seconds, also of the index pointer

ASSUME GatewaySyncAssumption ==
    /\ BatchCount \in Nat /\ Timeout \in Nat /\ Grace \in Nat /\ Retention \in Nat
    /\ Grace <= Retention    \* of one worker's settings; Timeout is the gateway's

VARIABLES
    pc,         \* per user, where the preparation is
    at,         \* the operation it submits or waits for, 0 for none
    spent,      \* time since it began
    fresh,      \* history: no submission of it was answered with an older job,
                \* and its finalize operation did not find the document made
    handle,     \* per user and idempotency key, the state of the job
    ended,      \* time since that job ended
    queue,      \* live operations in the order the worker executes them
    staged,     \* batches in the staging directory
    stagedAge,
    final,      \* the finalized document exists
    finalAge,
    index,      \* the exact index is active
    indexAge,
    maintained  \* the idle pass of this unit of time was made

preparation == <<pc, at, spent, fresh>>
jobs == <<handle, ended, queue>>
data == <<staged, stagedAge, final, finalAge, index, indexAge>>
vars == <<preparation, jobs, data, maintained>>

Numbers == 1..BatchCount             \* the code counts the batches from 0
Finalize == BatchCount + 1
Rebuild == BatchCount + 2
Ingests == Numbers \cup {Finalize}   \* the operations with a deterministic key
Ages == 0..Retention + 1
Underway == {u \in Users : pc[u] \in {"submitting", "waiting"}}

TypeOK ==
    /\ pc \in [Users -> {"idle", "submitting", "waiting", "prepared", "failed"}]
    /\ at \in [Users -> Ingests \cup {0}]
    /\ \A u \in Underway : at[u] \in Ingests
    /\ spent \in [Users -> 0..Timeout]
    /\ fresh \in [Users -> BOOLEAN]
    /\ handle \in [Users -> [Ingests -> {"none", "live", "succeeded", "failed"}]]
    /\ ended \in [Users -> [Ingests -> Ages]]
    /\ queue \in Seq(Ingests \cup {Rebuild})
    /\ \A i, j \in DOMAIN queue : queue[i] = queue[j] => i = j
    /\ staged \subseteq Numbers
    /\ final \in BOOLEAN /\ index \in BOOLEAN /\ maintained \in BOOLEAN
    /\ stagedAge \in Ages /\ finalAge \in Ages /\ indexAge \in Ages

Init ==
    /\ pc = [u \in Users |-> "idle"]
    /\ at = [u \in Users |-> 0]
    /\ spent = [u \in Users |-> 0]
    /\ fresh = [u \in Users |-> TRUE]
    /\ handle = [u \in Users |-> [k \in Ingests |-> "none"]]
    /\ ended = [u \in Users |-> [k \in Ingests |-> 0]]
    /\ queue = <<>>
    /\ staged = {} /\ stagedAge = 0
    /\ final = FALSE /\ finalAge = 0
    /\ index = FALSE /\ indexAge = 0
    /\ maintained = FALSE

-----------------------------------------------------------------------------
(* The worker's job table as the gateway meets it.                         *)

\* Mutant: a submission always gets an operation of its own.
EnqueueAlways(k) == Append(queue, k)

\* A live operation with the same fingerprint is joined.
Enqueue(k) == IF \E i \in DOMAIN queue : queue[i] = k THEN queue ELSE Append(queue, k)

\* purge_terminal_operations, which submit_job runs first.
Kept ==
    [u \in Users |-> [k \in Ingests |-> IF ended[u][k] > Retention THEN "none" ELSE handle[u][k]]]
KeptAges ==
    [u \in Users |-> [k \in Ingests |-> IF ended[u][k] > Retention THEN 0 ELSE ended[u][k]]]

\* Mutant: the end reaches one of the handles that share the operation.
ConcludeForOne(outcome) ==
    LET k == Head(queue)
        Holders == {u \in Users : k \in Ingests /\ handle[u][k] = "live"}
    IN  /\ handle' = IF Holders = {} THEN handle
                     ELSE [handle EXCEPT ![CHOOSE u \in Holders : TRUE][k] = outcome]
        /\ queue' = Tail(queue)
        /\ fresh' = [u \in Users |-> fresh[u] /\ ~(k = Finalize /\ final /\ u \in Underway)]
        /\ UNCHANGED <<ended, pc, at, spent>>

\* The operation at the head of the queue ends, and with it every handle on it.
Conclude(outcome) ==
    LET k == Head(queue)
    IN  /\ handle' = [u \in Users |-> [j \in Ingests |->
             IF j = k /\ handle[u][j] = "live" THEN outcome ELSE handle[u][j]]]
        /\ queue' = Tail(queue)
        /\ fresh' = [u \in Users |-> fresh[u] /\ ~(k = Finalize /\ final /\ u \in Underway)]
        /\ UNCHANGED <<ended, pc, at, spent>>

-----------------------------------------------------------------------------
(* prepare_documents_for_rebuild and the submission that follows it.       *)

\* The request is answered, and what it knew goes with it.
Return(u) ==
    /\ pc' = [pc EXCEPT ![u] = "idle"]
    /\ at' = [at EXCEPT ![u] = 0]
    /\ spent' = [spent EXCEPT ![u] = 0]
    /\ fresh' = [fresh EXCEPT ![u] = TRUE]

\* _missing_scope: nothing to do where the worker has the exact index.
Begin(u) ==
    /\ pc[u] = "idle"
    /\ pc' = [pc EXCEPT ![u] = IF index THEN "prepared" ELSE "submitting"]
    /\ at' = [at EXCEPT ![u] = IF index THEN 0 ELSE 1]
    /\ UNCHANGED <<spent, fresh, jobs, data, maintained>>

\* The key is new to the worker, or its job has been purged.
SubmitNew(u) ==
    /\ pc[u] = "submitting"
    /\ Kept[u][at[u]] = "none"
    /\ handle' = [Kept EXCEPT ![u][at[u]] = "live"]
    /\ ended' = KeptAges
    /\ queue' = Enqueue(at[u])
    /\ pc' = [pc EXCEPT ![u] = "waiting"]
    /\ UNCHANGED <<at, spent, fresh, data, maintained>>

\* The key has a job: the worker answers with it, in whatever state it is.
SubmitReplayed(u) ==
    /\ pc[u] = "submitting"
    /\ Kept[u][at[u]] # "none"
    /\ handle' = Kept
    /\ ended' = KeptAges
    /\ pc' = [pc EXCEPT ![u] = "waiting"]
    /\ fresh' = [fresh EXCEPT ![u] = FALSE]
    /\ UNCHANGED <<at, spent, queue, data, maintained>>

\* _wait_for_job sees the job succeed: the next batch, finalize, or the end.
Advance(u) ==
    /\ pc[u] = "waiting"
    /\ handle[u][at[u]] = "succeeded"
    /\ IF at[u] = Finalize
       THEN pc' = [pc EXCEPT ![u] = "prepared"] /\ UNCHANGED at
       ELSE pc' = [pc EXCEPT ![u] = "submitting"] /\ at' = [at EXCEPT ![u] = @ + 1]
    /\ UNCHANGED <<spent, fresh, jobs, data, maintained>>

\* _wait_for_job sees it fail, or the job is no longer known.
Fail(u) ==
    /\ pc[u] = "waiting"
    /\ handle[u][at[u]] \in {"failed", "none"}
    /\ pc' = [pc EXCEPT ![u] = "failed"]
    /\ UNCHANGED <<at, spent, fresh, jobs, data, maintained>>

\* SynchronizationTimeout, or Novo or the worker cannot be reached; the jobs
\* go on without a reader.
GiveUp(u) ==
    /\ u \in Underway
    /\ Return(u)
    /\ UNCHANGED <<jobs, data, maintained>>

\* The rebuild of a prepared revision, whose key is new for every request.
SubmitRebuild(u) ==
    /\ pc[u] = "prepared"
    /\ Return(u)
    /\ handle' = Kept /\ ended' = KeptAges
    /\ queue' = Enqueue(Rebuild)
    /\ UNCHANGED <<data, maintained>>

\* "Notebook preparation failed. Try again."
Report(u) ==
    /\ pc[u] = "failed"
    /\ Return(u)
    /\ UNCHANGED <<jobs, data, maintained>>

-----------------------------------------------------------------------------
(* The worker executes the oldest operation.                               *)

RunBatch ==
    /\ queue # <<>> /\ Head(queue) \in Numbers
    /\ staged' = staged \cup {Head(queue)}
    /\ stagedAge' = IF Head(queue) \in staged THEN stagedAge ELSE 0
    /\ Conclude("succeeded")
    /\ UNCHANGED <<final, finalAge, index, indexAge, maintained>>

\* A document that exists already is not rewritten and keeps its age.
RunFinalize ==
    /\ queue # <<>> /\ Head(queue) = Finalize
    /\ staged = Numbers
    /\ staged' = {} /\ stagedAge' = 0
    /\ final' = TRUE
    /\ finalAge' = IF final THEN finalAge ELSE 0
    /\ Conclude("succeeded")
    /\ UNCHANGED <<index, indexAge, maintained>>

\* INGEST_BATCHES_INCOMPLETE
RunFinalizeIncomplete ==
    /\ queue # <<>> /\ Head(queue) = Finalize
    /\ staged # Numbers
    /\ Conclude("failed")
    /\ UNCHANGED <<data, maintained>>

\* STORAGE_QUOTA_EXCEEDED: the quota, which other notebooks share, refuses what
\* would have to be written; what is there already is accepted again.
RefuseIngest ==
    /\ queue # <<>>
    /\ \/ Head(queue) \in Numbers \ staged
       \/ Head(queue) = Finalize /\ staged = Numbers /\ ~final
    /\ Conclude("failed")
    /\ UNCHANGED <<data, maintained>>

\* A rebuild fails without the document, and may fail in the model backend.
RunRebuild ==
    /\ queue # <<>> /\ Head(queue) = Rebuild
    /\ \/ final /\ index' = TRUE /\ indexAge' = 0
       \/ UNCHANGED <<index, indexAge>>
    /\ Conclude("succeeded")      \* no preparation waits for a rebuild
    /\ UNCHANGED <<staged, stagedAge, final, finalAge, maintained>>

Expired == index /\ indexAge > Retention

\* Mutant: unreferenced documents are removed without a grace period.
OrphanAtOnce == final /\ (~index \/ Expired)

Orphan == final /\ finalAge > Grace /\ (~index \/ Expired)

\* perform_storage_maintenance between two operations.
Maintain ==
    /\ queue = <<>>
    /\ ~maintained
    /\ maintained' = TRUE
    /\ index' = (index /\ ~Expired)
    /\ final' = (final /\ ~Orphan)
    /\ staged' = IF stagedAge > Grace THEN {} ELSE staged
    /\ indexAge' = IF index' THEN indexAge ELSE 0
    /\ finalAge' = IF final' THEN finalAge ELSE 0
    /\ stagedAge' = IF staged' = {} THEN 0 ELSE stagedAge
    /\ UNCHANGED <<preparation, jobs>>

\* An age past the limit it is compared with stays as it is.
Older(limit, age) == IF age > limit THEN age ELSE age + 1

\* No preparation outlives its timeout, and an ended one is answered at once.
Tick ==
    /\ queue = <<>> /\ maintained
    /\ \A u \in Users : pc[u] \notin {"prepared", "failed"} /\ (u \in Underway => spent[u] < Timeout)
    /\ maintained' = FALSE
    /\ spent' = [u \in Users |-> IF u \in Underway THEN spent[u] + 1 ELSE 0]
    /\ ended' = [u \in Users |-> [k \in Ingests |->
         IF handle[u][k] \in {"succeeded", "failed"} THEN Older(Retention, ended[u][k]) ELSE 0]]
    /\ stagedAge' = IF staged = {} THEN 0 ELSE Older(Grace, stagedAge)
    /\ finalAge' = IF final THEN Older(Grace, finalAge) ELSE 0
    /\ indexAge' = IF index THEN Older(Retention, indexAge) ELSE 0
    /\ UNCHANGED <<pc, at, fresh, handle, queue, staged, final, index>>

-----------------------------------------------------------------------------
Execute == RunBatch \/ RunFinalize \/ RunFinalizeIncomplete \/ RefuseIngest \/ RunRebuild

Follow(u) == SubmitNew(u) \/ SubmitReplayed(u) \/ Advance(u) \/ Fail(u)

Next ==
    \/ \E u \in Users : Begin(u) \/ Follow(u) \/ GiveUp(u) \/ SubmitRebuild(u) \/ Report(u)
    \/ Execute
    \/ Maintain
    \/ Tick

Spec == Init /\ [][Next]_vars

\* The event loop of the gateway resumes a preparation, the runner executes.
FairSpec == Spec /\ WF_vars(Execute) /\ \A u \in Users : WF_vars(Follow(u))

-----------------------------------------------------------------------------
(* Properties.                                                             *)

\* A preparation that ingested the revision leaves a document for the rebuild
\* it is made for: the maintenance pass does not prune it under the preparation,
\* whatever other preparations do, where Timeout <= Grace, as 840 s and one hour
\* are by default (no check compares the two).  Not so if a submission was
\* answered with an older job, or the document is an older one, whose age counts
\* from its making.
FreshPreparationEffective ==
    \A u \in Users : pc[u] = "prepared" /\ at[u] = Finalize /\ fresh[u] => final

\* "Before compute, the gateway obtains normalized content for an exact
\* revision and synchronizes that revision to the worker if necessary": every
\* preparation that succeeds does.
PreparationEffective ==
    \A u \in Users : pc[u] = "prepared" /\ at[u] = Finalize => final

\* Every preparation comes to an end by itself, also when it shares operations
\* with another user's, meets its own older jobs, or jobs are purged under it.
PreparationEnds ==
    \A u \in Users : u \in Underway ~> u \notin Underway

=============================================================================
