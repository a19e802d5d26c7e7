# A TLA+ model of Novo Chat

Novo Chat adds a conversational surface to one Novo installation. A *gateway*
authorizes browser requests against Novo and submits signed jobs; a *worker* on
the compute host keeps a durable job queue, the exported notebook documents and
the search indexes built from them; a small privileged *model controller*
starts and stops model containers. This directory models the parts of it whose
correctness depends on order, failure and shared state, checks them with TLC on
small instances and proves the central ones with TLAPS for every instance.

## 1. Inventory

| Component (source) | State | Operations | Hard behaviour | What makes it correct |
| --- | --- | --- | --- | --- |
| Job store (`jobs.py`) | `operations`, `submissions`, `active_indexes`, `replay_nonces` in SQLite | submit, claim, progress, succeed/fail, recover, purge, activate, snapshot, nonce claim | many threads and possibly two processes on one database; crash between any two transactions; retention | one RUNNING operation; FIFO; coalescing without loss; handles live as long as promised; recovery is safe |
| Runner (`executor.py`) | the operation in memory, maintenance timer, thread | run_once, the six operation types, idle maintenance | a thread that can die while the service answers; exceptions in the middle of a multi-step operation | every accepted operation ends; all or nothing publication |
| Document store (`documents.py`) | staging and finalized directories, byte counter | stage_batch, finalize, load, prune | file by file deletion, crash, quotas, age-based pruning | a finalized revision is immutable; the counter is never below the disk |
| Index repository (`compute.py`) | candidates, artifacts, byte counter | build, commit, discard, load, prune, query | rename, leftovers of crashes, a candidate counted before its build has ended | a pointer always leads to the artifact of exactly its revision; what the counter has too much is known |
| Worker service (`worker.py`) | `maintenance_lock` | startup, POST handlers, maintenance, status | the check of a handler is stale when the runner acts | retention never removes what a pointer or a live job needs |
| Signed protocol (`protocol.py`) | nonces | sign, verify, claim | clock skew, boundary seconds | a signed request is accepted once |
| Synchronizer (`gateway/sync.py`) | none; deterministic idempotency keys | prepare, require ready, wait | two users at once, retries, old jobs | preparation leaves the document in place |
| Gateway service (`gateway/app.py`, `store.py`) | ownership rows | submit, status, result | access or content changes while a job runs; crash between submit and ownership | nothing is released to a caller who lost access |
| Model controller (`model_controller.py`, `deploy/compute-host/modelctl_server.py`) | host lock, Docker | status, start, stop | two environments, timeouts, late answers | one model container on the GPU |
| Model backends, retrieval (`model_backend.py`, `rag_core.py`) | none | embed, plan, generate, chunk, rank | partial failure | citations name retrieved sources |
| Browser client (`web/app.js`) | view state, generation counters | poll, refresh, submit | answers out of order | a stale answer is dropped |
| Entry points, configuration, deployment (`runtime.py`, `gateway/config.py`, `deploy/`) | files | load and validate, start | the worker opens its database before it binds its port | one worker process per database |

Interaction: browser -> gateway (HTTP) -> worker (signed HTTP over a tunnel) ->
job store (SQLite) -> runner -> document store, index repository, model
backends, model controller (Unix socket). The worker's HTTP threads and its
runner share the database and `maintenance_lock`; the runner alone writes the
two stores.

## 2. Plan

Modules in the order they were written.

1. **JobQueue** with **JobContract** - the durable queue, the heart of the
   worker: every other guarantee assumes that operations run one at a time, in
   order, and are neither lost nor doubled. Abstract specification: the life of
   a public job handle.
2. **NotebookStore** - what an operation does to documents, artifacts and the
   catalog of active indexes, one disk or database write at a time.
3. **GatewaySync** - the preparation of a revision by the gateway, composed
   with an abstract worker: JobQueue's table and NotebookStore's operations,
   each operation one step.
4. **ReplayGuard** - the nonce table.
5. **GatewayRelease** - submission, ownership and the access checks before a
   result is released, with access and content that change in between. It has
   jobs of its own, reduced to what the gateway can tell apart.
6. **ModelSwitch** - environments that share one GPU: the model jobs of the
   runners, the sockets, the privileged controllers with their host lock, and
   Docker commands that outlive their timeout.
7. **Chunking**, **Retrieval**, **Export** - the pure parts of a query and of
   the synchronizer, against reference definitions.
8. **BrowserClient** - the events of the page and the answers it waits for.

The proofs of a module are in the module named after it with `Proofs`; the
modules whose names begin with `MC` instantiate for TLC.

Every safety property of a passing run is now also proved. Left of the plan: the
pieces of the liveness arguments that are safety (what an operation still has to
do decreases), and what GatewaySync and NotebookStore say of one another.

## 3. Modules and code

### JobQueue, JobContract, JobQueueProofs

State: the rows of `operations` by rowid (`state`, `dedupe`, `request`,
`updated`), the `submissions` table, and per worker process its life (`phase`),
the operation in the runner's memory (`task`) and the HTTP request that holds
`maintenance_lock` (`pending`).

| Action | Code |
| --- | --- |
| `BeginSubmit` | the handler of `worker.py` takes the lock and runs `purge_terminal_operations`, a transaction of its own |
| `SubmitReplay`, `SubmitJoin`, `SubmitCreate`, `SubmitRefused` | the outcomes of the transaction of `JobStore.submit`: the key has a job; an operation with the same fingerprint is live; a new row; queue full or key conflict |
| `Claim` | `claim_next_operation`: nothing RUNNING, oldest rowid first |
| `SetProgress`, `Finish`, `FinishRefused` | `set_progress`, `succeed`/`fail` and `InvalidJobTransition` |
| `ThreadDies`, `StorageFault` | an exception nothing in `_run` catches: the thread is gone, HTTP goes on |
| `Start`, `Ready`, `Crash` | `create_worker_app` (recovery, purge, maintenance), then the bind of the port; the process stops anywhere |

`request` is the fingerprint (operation type, scope, payload). `Vacated` stands
for every key with the `:terminal:` suffix. What an operation does is not part
of this module. `ended` is history: when each operation really reached its end,
whatever `updated` says, so that retention is measured from the event and not
from the column the purge compares. JobContract is the view of a caller: a map from handles to
states, with shared operations moving all of their handles at once; JobQueue
implements it with the refinement mapping `HandleStatus`.

### NotebookStore, NotebookStoreProofs

State: staged batches, finalized documents, candidates, artifacts and the
pointers of `active_indexes` with their ages; the two in-memory byte counters;
the operation being executed, where it is in its code, and the exception it
handles; the retention snapshot in the hands of a maintenance pass. Each write,
each directory removal and each commit is a step, and `Crash` may come between
any two. `step` names the place in the code: `staging` is `stage_batch`;
`checking` and `clearing` are the halves of `finalize` before and after
`document.json` is written; `building`, `committing`, `activating` and
`unwinding` are the loop, the renames, the transaction and the `except` of
`_rebuild`; `answering` is the query. `BuildCandidate` ends well,
`BuildRefused` ends before the candidate is counted (no document, the quota, a
failing backend), and `BuildStranded` after it: `build_candidate` adds the bytes
and then reports its progress, which writes to the database and may raise; the
directory is removed and the count stays. `stranded` is history: how many such
candidates the counter holds since it was last measured. Maintenance walks the four
directories (`Rooms`) entry by entry with the keep set of its snapshot. The counter is measured again
with each entry that is removed, in the code after the last one: the runner,
which alone reads it, is in the pass itself until then.
Contents are opaque values; a batch file and an artifact directory cost one
unit of quota; a document costs its batches.

### GatewaySync, GatewaySyncProofs

State: per user the place of the preparation (`pc`, `at`, `spent`), per user
and idempotency key the job the worker remembers (`handle`, `ended`), the live
operations in order, and the derived data of one revision. Batches are numbered
from 1 here and from 0 in the code; an empty notebook has none (`BatchCount` 0).
`Begin` is
`_missing_scope`; `SubmitNew`/`SubmitReplayed` are the two ways the worker
answers a deterministic key; `Advance`/`Fail` are `_wait_for_job`; `GiveUp` is
the `asyncio.timeout` or an unreachable service; `SubmitRebuild` is the
submission that follows in `submit_job`. `Run...` are whole operations, and
`Maintain` a whole maintenance pass: NotebookStore shows what happens inside.
`RefuseIngest` is the quota, which other notebooks fill too; the conflicts of
`stage_batch` and `finalize` need two contents of one revision, which
NotebookStore has and this module has not.
`fresh` is history: no submission was answered with an older job, and the
document was made by this finalize.

### GatewayRelease, GatewayReleaseProofs

State: what Novo says (`session`, `grants`, `revision`), the worker's `jobs`,
the table `job_owners` (`owners`), and per caller the handler that serves it
(`call`) with the values it holds across its awaits. A scope is a function from
notebooks to revisions; `NoScope` stands for the 404 and 409 of `resolve_scope`
and, in a request for a model operation, for its empty scope. A step of a
handler is the code between two awaits.

| Action | Code |
| --- | --- |
| `BeginSubmit`, `Prepared`, `ExportStale` | `submit_job` up to the end of the preparation (GatewaySync has the preparation itself) |
| `Refresh`, `RefreshStale`, `Retry`, `StartOver` | the second context of `synchronized_scope`, the comparison of users and scopes, and its retry loop |
| `SubmitNew`, `SubmitRepeated`, `SubmitRefused` | the worker's answer: a new job, the job of the key, a conflict; a new job's answer may be lost |
| `Record` | `JobOwnershipStore.add`: purge, insert or keep, compare |
| `BeginResult`, `Authorize`, `Answered`, `FetchAgain`, `Reauthorize` | `job_result` with `authorize_owned_job` before and after the worker is asked |
| `BeginStatus`, `Checked`, `Report` | `index_status` |
| `Leave`, `Restart` | an error response, a lost connection; the gateway starts again with its database |
| `SignIn`, `Share`, `Edit`, `JobEnds`, `Tick` | the environment |

A repetition under a key is the same request when operation and scope agree: the
corpus is not part of the worker's payload (`SameRequest`).

`vouched` is history. The two properties about content cannot say "the caller
may read this now": a change right after the last context is out of anyone's
reach. They say what the comment in `job_result` claims, that no change *before*
the worker's answer goes unnoticed: at some moment between that answer and the
release, what is released was in order. For a result this is measured against
the worker's job, not against the ownership row, so a wrong row would show.

A retry of `synchronized_scope` takes the user of its new context; it is not
compared with the user of the first attempt. The model does the same, and
`SubmissionJustified` holds for the attempt that submits.

### ReplayGuard, ReplayGuardProofs

`Verify` is `verify_request` up to the claim, with the clock it read;
`Accept`/`Refuse` are the transaction of `JobStore.claim`, whose deletion is
rolled back with a refused insertion; `Abandon` is a stop or a database timeout
in between. Time passes while the claim waits for the database.

### ModelSwitch, ModelSwitchProofs

State: the containers Docker has running and the commands it still carries on
with; the host lock and the inventory of exclusive containers; per environment
the runner in its model job (`step`, `job`, `asked`, `answer`), the socket
(`backlog` of connections, `open` ones whose client still waits), and the
controller process (`up`, `phase`, `req`, what it has still to inspect and what
it found). A model is identified with its container.

| Action | Code |
| --- | --- |
| `Begin`, `HearOtherRunning`, `HearOtherStopped`, `HearStarted`, `HearStopped`, `HearError` | `executor._model_lifecycle`: look at every other model, stop one that runs, then start; what it does on each answer |
| `GiveUp` | the 10 seconds of the client; the request stays in the backlog of the socket |
| `BecomeReady`, `ReadinessTimeout` | `wait_until_ready` after a start |
| `Activate`, `Accept`, `Reply`, `ReplyToNobody` | the service unit and `serve`: one connection after another; an answer nobody reads ends the process |
| `ReportStatus`, `Unavailable` | `status`, without the lock; errors before anything is inspected |
| `TakeLock`, `Inspect`, `InspectFails`, `Refuse`, `KeepState`, `Issue` | `start` and `stop` under `_host_lock` |
| `CommandDone`, `CommandFails`, `CommandTimesOut` | the Docker command; a CLI that is killed leaves its effect open (`Cut`) |
| `Killed`, `Exit`, `LateEffect`, `Install` | the environment: a controller is killed, a model crashes, Docker finishes a command of a dead CLI, a further environment is installed |

`startedAt`, `stoppedAt` and `outlived` are history: the request whose command
last started a container, the request by which a stop job last stopped it, and
whether Docker went on with a command whose CLI was killed. The status polls
that the worker's HTTP threads send on the same socket, and those with which
`_model_lifecycle` reports progress while a started model becomes ready, are not
modelled: they take no lock and change nothing, so all they could add is delay,
which `GiveUp` has. The limit of systemd on starts in a short time (five in ten
seconds) is not modelled either; a controller that reached it would stay down.

### BrowserClient, BrowserClientProofs

State: the object `state` of `app.js`; the fetches under way, each with the
local variables its handler holds across the `await`; the calls of
`submitAndWait` that have not returned (`waits`). A handler runs to its next
`await` without interruption, so it is one action. A fetch collects in
`answers` everything that has been true since it was sent, because the gateway
may have looked at any moment in between; its answer is one of them, in any
order with the others, or it fails, or it never comes.

| Action | Code |
| --- | --- |
| `RetryContext`, `ContextArrives`, `ContextFails` | `refreshContext` |
| `PollWorker`, `WorkerArrives`, `WorkerFails` | the timer of `initialize`, `refreshWorker` |
| `SelectCorpus`, `StatusArrives`, `StatusFails` | the selection and `refreshIndexStatus` with its generation counter |
| `Submit`, `Accepted`, `JobDone`, `AskAnswered`, `IndexRebuilt`, `ModelSwitched`, `WaitFails` | `ask`, `rebuildIndex`, `controlRuntime` and `submitAndWait`, with their `finally` clauses (`Released`, `Throw`, `Return`) |
| `JobEnds`, `Change` | the worker, the grants and other users |

`IndexRebuilt` is two microtasks in the code; what may come between them is the
answer of another fetch, which has an action of its own before or after it.
Every corpus has an index version of its own, also novo:all, whose index the
code reads off those of its notebooks.

`known` is history: the newest version of each index this page was told of.

### Chunking, ChunkingProofs, Retrieval, Export

Pure functions, translated from loops into set and sequence expressions:
`Chunking` the cutting of a page, `Retrieval` the terms that are searched for,
the ranking and diversification of chunks, the halving of the output budget and
the check of an answer, `Export` the paging of Novo's answers and their
partition into batches. Scores, terms and replies are parameters. Weights and
reciprocals of ranks are integers in a common unit; the ranks they are exact for
are more than TLC compares.

`MCRetrieval` and `MCGatewaySync` compare them with what they are meant to
achieve, in assumptions that TLC evaluates before the runs `store`,
`store_notebooks` and `sync`:

| Assumption | Statement |
| --- | --- |
| `StartsAreTheLoop`, `ChunksCoverThePage` | the set expression is the loop; a passage no longer than the overlap and a word is in one chunk, no chunk is part of another |
| `SanitizedSayWhatIsNew` | each expansion term kept says something new, and below the limit nothing that a term says is lost |
| `PlanOnlyFillsGaps` | a retrieval plan neither displaces the best chunk of the question nor hides a chunk the question finds |
| `PagesShareTheAnswer` | a third chunk of a page is shown only when no other page has one left |
| `BudgetFitsTheRoom` | an answer comes if one of the four budgets fits, and then wastes at most half of the room |
| `CitedWasSeen` | a released answer cites only what the model saw |
| `BatchesPartitionThePages`, `ExportsEnd` | batches are the pages in order, each within the limit and not shorter than need be; an export ends and is complete only if every page was handed out once |

## 4. Runs

| Run | Question | Result |
| --- | --- | --- |
| `queue` | do tables, handles and runner agree with one process, crashes and retention; does the queue implement JobContract; is a handle kept for the retention window and no longer; does every accepted operation end? | holds |
| `queue_two_processes` | one RUNNING row, FIFO and the limit, also with two processes on a database and a dying runner thread? | holds |
| `queue_overlap` | do two processes never execute at once, as `executor.py:29` says? | violated: finding 1 |
| `store` | are pointers backed by artifacts and documents, successes real, counters accounted for, with a crash between any two writes, and does a quiet worker erase everything? | holds |
| `store_notebooks` | does a rebuild of two notebooks publish everything or nothing, and does a finalized document stay as it is? | holds |
| `store_resume` | may an interrupted finalize be resumed, as `jobs.py:644` says? | violated: finding 2 |
| `sync` | does a preparation that made its document find it there for the rebuild, and does every preparation end? | holds |
| `sync_stale` | does every successful preparation leave a document, as `ARCHITECTURE.md:48` says? | violated: finding 3 |
| `release` | is what is submitted or released in order after the last answer it rests on, and do ownership rows agree with the worker's jobs? | holds |
| `replay` | is a request accepted once, and is its row forgotten in time? | holds |
| `models` | does one model have the GPU, does a stopped model run again only because of a later start, is a switch refused only because of the other environment, and does everything come to rest? | holds |
| `browser` | does the page show the index of what is selected, never an older one than it knew, and do its controls unlock? | holds |

Every property of a passing run is paired with a mutant of a definition it
depends on (`mutants` in PROJECT.json): a plausible slip in the code that TLC
then finds.

### Bounds

* JobQueue: three operations are enough for a running, a waiting and a later
  one. `queue` has two callers with one key each, for sharing, replay and
  conflict, and time enough for a row to expire while another is live;
  `queue_two_processes` one caller with three keys, since who calls does not
  matter to the order of rows. `MaxActive` 2 makes the queue full while one
  operation runs; one crash and one fault are enough, since a recovered table
  is again a table. `queue` has no runner fault: after one nothing ends until
  the process is restarted.
* NotebookStore: in `store` two revisions of one notebook replace one another,
  with two artifact IDs, so that one is active while another is built or was
  abandoned, and two batches, so that a directory can be half there. In
  `store_notebooks` two notebooks share a rebuild and two contents disagree
  about a revision. Quotas are chosen so that an export fits, and one more does
  not. Grace 0 and retention 1 make a directory old after one tick and a
  pointer after two.
* GatewaySync: two users, one batch: batch and finalize are the two kinds of
  key. Timeout, grace and retention are 1, the tightest values at which the
  grace is not shorter than the timeout (840 s, one hour and seven days by
  default): a document expires as soon as it may, and jobs are purged under a
  waiting preparation. `sync_stale` has one user, two batches and a longer
  retention.
* GatewayRelease: two requests at a time, so that one records, purges or ends a
  job under the other, with the sessions of two users; one notebook at two
  revisions, which a request names or covers with novo:all; two changes at
  Novo, enough for one to be undone before it is looked at; one retry; one key,
  for which both users may compete. One job suffices: the jobs of different ids
  meet only in the key, and a second job of a key exists only when the first
  has been purged; the proofs cover any number. Both retention times are 0, so
  a tick makes a row or a job expire, in either order.
* ReplayGuard: two nonces, skew 1 and six clock values: a request can be early,
  in time, at either boundary, and late.
* ModelSwitch: staging has two models, so that a start has to stop another one,
  production one. Five requests of staging are the start of one model and a
  switch to the other, or two stops and a switch; production has one request.
  One controller may be killed. Everything that refuses or delays a request may
  happen to any of them, so that further requests repeat what these show; the
  proofs cover any number.
* BrowserClient: two corpora, to switch between; three events of the timer and
  the user, enough for a selection to be changed and changed back under an
  answer, or for a poll and a submission to overlap; one change behind the page.
  The first fetch is not counted, nor are those that follow from an event.

Symmetry is used in runs of safety properties only, over sets whose members
occur nowhere by name. Deadlock is checked where the system always has a step;
JobQueue, ReplayGuard, ModelSwitch and BrowserClient may stop, since callers
need not call and the bounds are finite.

### Fairness

* JobQueue: the runner of a live process takes its steps, because `_run` loops
  without a wait while there is work; a stopped worker is started again,
  because the service unit says `Restart=`; a submission that holds the lock
  ends. Crashes, faults, submissions and time are not fair.
* NotebookStore: one worker that goes on with whatever it has to do (an
  operation, a maintenance pass, its start), and the clock. Nothing says that
  maintenance gets its turn while operations arrive, and nothing makes an
  operation arrive or ends the stream of them: `QuietErasesAll` starts from a
  worker that is quiet.
* GatewaySync: the worker executes (JobQueue shows it does) and the event loop
  resumes each preparation; nothing obliges time to pass or a user to return.
* ModelSwitch: every wait of the code has a timeout, so runners and controllers
  go on; systemd starts the service for a waiting connection. The lock is taken
  with strong fairness: both controllers wait for it in the kernel, which queues
  its waiters. `Unavailable` is not needed for anything to end.
* BrowserClient: the fetches that `submitAndWait` awaits are settled one way or
  the other, and the worker ends its jobs. Other fetches may hang for ever, and
  nobody needs to press a button.

## 5. Proofs

Eight modules hold proofs that TLAPS checks to the last step, for any values of
the constants that satisfy the named assumptions.

* `TypeCorrect` (in each of them but ChunkingProofs): by cases over the actions.
* `Serialized` and `ServedInOrder` (`OneRunning`, `FifoService`), for any
  number of processes. Neither is inductive alone: a second process may put a
  RUNNING row back and claim it, and the first one may still end it. `OrderInv`
  adds that the rows below the counter are the ones inserted (`RowsNumbered`)
  and that nothing older than the operation in a runner's memory is live
  (`TaskIsOldest`). This is what makes the second process of finding 1 harmless
  to the table, if not to the work.
* `Coalesced`, `HandlesSound` and `KeysNameOneJob` (`LiveDedupe`,
  `HandlesMatchRows`, `OneJobPerKey`). `TableInv` adds that a live row's key is its own request
  (`DedupeIsRequest`): without it a join by key could attach a caller to other
  work. The proof uses `OrderInv` for the rows that settle.
* `EndsAreFinal` and `Bounded` (`TerminalIsFinal`, `QueueBounded`), from
  `StateStep`, which lists what a step may do to a row: only a submission adds a
  live row, and it counts them first.
* `HandlesRetained` (`HandleRetention`) is about both sides of the window: a
  handle is withdrawn only when its job ended longer ago than the retention, and
  the purge before a submission and that of a start leave no such handle.
  The code compares `updated_at`; `EndStamped` is the invariant that makes it the
  time of the end, for every way a job ends (the runner or recovery) and through
  everything else that stamps a row.
* `OneProcessOwns` (`RunnerOwnsRunning`) assumes one process; it needs
  `OneRunning`, or another row could be RUNNING when the runner's ends.
* `KeepsContract` (`ImplementsContract`), for one process as well: with a second
  one, a row that recovery put back in the queue may be ended by the process that
  still executes it, a step from queued to succeeded that the contract has not.
  The initial states map to the initial state, and `ContractStep` takes each
  action to a step of JobContract or a stutter: `SubmitJoin` and `SubmitCreate`
  to `Accept`, `Claim` to `Begin`, `Finish` to `End`, the recovery of a start to
  `End` or `Interrupt`, a purge to `Forget`. Each moves all handles of a row at
  once; `TableInv` supplies that handles and rows match, so that none is left
  behind.
* `Invariance` of NotebookStoreProofs, and from it `TypeCorrect`,
  `PointersAreBacked`, `SuccessIsExact`, `QuotasHold` (`CatalogBacked`,
  `SuccessMeansReady`, `QuotasAccounted`); for sets of notebooks, contents and
  ids of any size. No property is inductive alone. `Phases` says what the process
  does in each step of the code; `Distinct` that a directory has an id of its own
  and is in one room, so that a rename moves it and a removal takes nothing else;
  `Work` what a rebuild holds between building and activation - one directory of
  the right document for each scope it reached, that no pointer names - and so
  what its transaction publishes; `Kept` that the snapshot of a maintenance pass
  covers every pointer, which is what keeps the pass, an entry at a time, away
  from what is in use. The counters are proved with the difference that a
  directory half removed makes (`HalfCleared`), with the candidates that were
  counted and then removed by a build that failed (`stranded`) and with the finiteness of what is
  on disk, which is part of the invariant because no set of names need be finite.
* `DocumentsAreImmutable` and `PointersPublishTogether` (`FinalizedImmutable`,
  `PublishedTogether`), step by step from the same invariant.
* `FreshPreparationsAreEffective` (`FreshPreparationEffective`) assumes
  `Timeout <= Grace`. `Young` is the invariant: a preparation that holds its
  document (its finalize succeeded, or it is done) is at least as old as the
  document. The document is made while the preparation lasts, both age together,
  and the preparation ends by its timeout, so the document is within the grace
  whenever maintenance looks. `fresh` is what makes the first step true: an older
  job or an older document would break it, and does in finding 3.
* `OwnersAgree` and `CollisionFree` (`OwnersTrue`, `NeverCollides`), together
  as `OwnersInv` with `AnswersHeld`: a handler that is about to record holds
  the user, the operation and the scope of the job it was given. A new job has
  them by construction, a repeated one because the worker compares its
  fingerprint. `JobsKept` - a step never changes a job's actor, request or
  scope, nor removes its id - carries this over the steps of others.
* `SubmittedInOrder` and `ReleasedInOrder` (`SubmissionJustified`,
  `ReleaseJustified`), from `JustInv`, one conjunct per phase: while a handler
  holds an answer, being in order now implies it was vouched for; while it
  holds a context fetched after the answer, being in order by that context
  does. The first is kept by the changes of Novo (`WitnessStep`), the second
  by anything, as the context is the handler's own. The final comparison then
  turns either into the property. It uses `OwnersTrue`, since the code compares
  with the ownership row and the property with the job, which is where a row
  of another user's job would break it.
* `Once` (`AcceptedOnce`). `MemoryInv` says an accepted request still has its
  row or its window is over, both by the clock and by the time a claim under
  way has read; `WindowInv` that the request under way was in its window at
  that time. The two comparisons meet without a gap: a row is deleted when
  `expiresAt < seenAt`, a request accepted when `seenAt <= expiresAt`.
* `Forgetful` (`RowsExpire`), from `WindowInv`.
* `ModelsExclusive` (`OneModelOnGPU`). `Exclusive` holds as long as no command
  outlives its CLI: `Guarded` says that the environment which inspects or
  commands is the one that holds the lock, and that only containers of the
  inventory run; `Seen` that in the critical section of a start whatever runs is
  still to be inspected or was found, and that nothing runs once the command is
  issued. That containers may exit at any time does no harm: what was found is
  only too much. The inventory may grow under a start, because a new container
  does not run before its environment is installed.
* `StopsAreFinal` (`StopIsFinal`): a running model that only this environment
  may start was last started by a request younger than the last stop job that
  succeeded (`Fresh`). `Ordered` says that the backlog is in the order of sending,
  that the accepted request precedes it, and that what a runner has heard an
  answer to was served before everything that is left; `Own` that what a job has
  stopped is stopped, and no older start of it is left. It holds while
  Docker has not gone on with a command whose CLI was killed: such a start has
  no place in the backlog and may follow any stop.
* `SwitchesMeetNoModelOfTheirOwn` (`OwnModelNeverConflicts`), from `Own`, with
  `Ordered` and `Exclusive`. Abandoned requests stay in the backlog, so the
  argument is about them: a start is sent only when everything before it was
  served (`Answered`), or its model is the only one configured. So the starts
  that wait are of one model, and of the containers that only this environment
  can start no other runs (`OneStart`); those that a switch is done with are
  stopped and not about to start (`Freed`).
* `PanelShowsSelection`, `PanelNeverGoesBack`, `FlagsFollowJob`
  (`StatusOfSelection`, `StatusNeverOlder`, `FlagsOfOneJob`), from `IInv`. Its
  heart is `Wanted`: a status fetch of the present generation is about what is
  selected, of an available worker, and none of its answers is older than what
  is known. That is the counter's promise: every place that resets the panel,
  changes the selection or learns of a newer index advances the generation, so
  that all fetches sent before are disowned. `Loose` is what a handler keeps
  until it advances it.
* `PassageInOneChunk` and `NoChunkInAnother`, for every length of page, chunk
  and overlap: the first from the chunk whose start is the last at or before the
  passage, or the last chunk of the page when the loop ended earlier (its last
  chunk reaches the end: `LastChunk`).

The assumptions on constants that the proofs use are the named ones of the
modules, which TLC evaluates: positive bounds, values such as `NoRequest` and
`NoPointer` that are none of the records they stand beside, and, for GatewaySync,
the grace not longer than the retention, both settings of one worker.
`OneProcessOwns`, `KeepsContract` and `FreshPreparationsAreEffective` have the
hypotheses named above, which the runs `queue` and `sync` satisfy.

Assumed by the models, not proved: SQLite transactions are atomic and durable,
a rename is atomic, the calls to the file system (removing a tree, reading the
size of a file) fail only with the process, the clock of a host does not go back,
and one event loop verifies requests.

Only model-checked: `EveryOperationEnds`, `QuietErasesAll`, `PreparationEnds`,
`ComesToRest` and `ControlsUnlock` (liveness under fairness is out of TLAPS's
reach), the three violations, and what Retrieval and Export compute (folds over
sequences need induction, which is out of its reach as well).

## 6. Findings

1. `queue_overlap`: the docstring of the runner says that SQLite claiming
   prevents overlap between processes. The claim does; but the start of a
   process requeues RUNNING rows whoever runs them, before it finds its port
   taken. The second process then claims and executes what the first one still
   executes.
2. `store_resume`: recovery requeues an interrupted `ingest_finalize` as safe to
   resume. If the process stopped after `document.json` was written and the
   staging directory was emptied at least in part, the resumed operation fails
   with INGEST_BATCHES_INCOMPLETE although its document is in place.
3. `sync_stale`: the keys of the synchronizer are hashes of the content. After a
   document was pruned (one hour) and while its jobs are remembered (seven
   days), a new preparation is answered with the old successes and leaves no
   document; the rebuild fails, and so does every try until the jobs are
   purged. A finalize that failed is replayed in the same way, although its
   error is declared retryable.

The models also show where a guarantee rests on something nobody checks:
`FreshPreparationEffective` needs `orphan_grace_seconds` not to be shorter than
the gateway's `worker_job_timeout_s` (the defaults satisfy it), and a document
that is finalized again keeps its old age, so it may be pruned right after.
`OneModelOnGPU` and `StopIsFinal` need Docker not to go on with a command whose CLI was killed at
its timeout: the lock is released then, the other environment finds nothing
running and starts its own model, or a job stops a model that then comes up.
`ModelsExclusive` shows that this is the only
way, so `ARCHITECTURE.md:40` holds up to it.

Seen while modelling, without a run of its own:

* `compute.py:276` counts the bytes of a candidate and then reports progress 1.0,
  which writes to the database. If that raises, the directory is removed and the
  count stays too high: the quota is safe, but a later build may be refused with
  STORAGE_QUOTA_EXCEEDED although there is room. Maintenance measures again only
  when it removed an index; otherwise a restart does. No document says
  otherwise, and `QuotasAccounted` states exactly this.
* `compute.py:544` builds the fallback plan outside the `try` of `_query_plan`;
  a question with a word of more than 128 letters makes a term `RetrievalPlan`
  refuses, and the query fails although planning is optional.
* `generate` halves its budget at most three times: with a large `max_tokens` it
  ends in CONTEXT_LENGTH_EXCEEDED although a budget above the minimum of 64
  would fit (`BudgetFitsTheRoom` says exactly when).
* In the page: a retry of the context may change the selected corpus without
  clearing the conversation; one failed poll ends the wait although the job goes
  on; a worker that is away for a moment empties the list of models, and an
  answer that arrives then is discarded; `refreshWorker` has no generation, so
  answers out of order may leave the older availability until the next poll.

## 7. Not modelled

Data formats (canonical JSON, signatures, validators of pages, scopes,
configurations and answers), bounded reads of HTTP bodies, log and error
wording, HTML and style, container builds and service units (their restart
policy is used). Corrupt files on disk are left out: the code refuses them and
needs an operator. Embeddings succeed or fail; the tokens of a text, its
normalisation, BM25 itself and the glyphs of citations are outside of Retrieval.
In NotebookStore, `query`, `evidence` and `diagnostics` results are values
without structure.

Of the worker, the threads that poll the model controller for the status page
and the progress read from a model's log. Of the gateway, `job_status` (which
authorizes once and releases a state, no content), `require_indexes_ready`,
CSRF tokens, ownership rows of the schema before `scope_json`, and the checks of
the shape of a worker's answer; `model_start` stands for the model operations,
which have no scope. Of the page, messages and rendering, the question history,
the choice among models, and whether an answer that arrives is still shown.
The gateway's clients, its configuration and secrets, and the entry points are
validation and wiring without state of their own.
