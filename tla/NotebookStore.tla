---------------------------- MODULE NotebookStore ----------------------------
(***************************************************************************)
(* The derived data of one worker: staged batches and finalized documents  *)
(* (novo_chat/documents.py), index candidates and artifacts                *)
(* (novo_chat/compute.py) and the active_indexes catalog                   *)
(* (novo_chat/jobs.py), driven by the runner thread's operations and by    *)
(* storage maintenance (novo_chat/executor.py, novo_chat/worker.py).       *)
(*                                                                         *)
(* Every file system or database write is a step of its own, and the       *)
(* process may stop between any two.  Which operation is claimed next is   *)
(* left open: JobQueue shows that operations run one at a time and that an *)
(* interrupted one runs first after the restart.                           *)
(***************************************************************************)
EXTENDS Naturals, FiniteSets

CONSTANTS
    Notebooks, Revisions,
    Contents,      \* what a revision may be exported as
    NoContent,
    ArtifactIds,   \* fresh artifact IDs (a hash over a nonce); bound: its size
    NoOperation, NoPointer,
    BatchCount,    \* batches of an export
    DocumentQuota, \* document_storage_quota_bytes, one unit per batch
    IndexQuota,    \* index_storage_quota_bytes, one unit per artifact
    Grace,         \* orphan_grace_seconds
    Retention,     \* job_retention_seconds, the life of an index pointer
    MaxCrashes     \* bound: process crashes

ASSUME NotebookStoreAssumption ==
    /\ BatchCount \in Nat \ {0}
    /\ DocumentQuota \in Nat /\ IndexQuota \in Nat
    /\ Grace \in Nat /\ Retention \in Nat /\ Grace <= Retention
    /\ MaxCrashes \in Nat
    /\ NoContent \notin Contents

VARIABLES
    staging,       \* per scope, the batch files of staging/<scope key>
    stagedAge,     \* time since that directory last changed
    final,         \* per scope, the content of finalized/<scope key>/document.json
    finalAge,
    documentsUsed, \* DocumentStore._bytes_used
    candidates,    \* directories of indexes/candidates
    artifacts,     \* directories of indexes/artifacts
    indexUsed,     \* IndexRepository._bytes_used
    stranded,      \* history: candidates counted there since it was last
                   \* measured that were removed without being discounted
    catalog,       \* per notebook, the active_indexes row
    life,          \* the process
    current,       \* the operation the runner executes
    step,          \* where in that operation it is
    todo,          \* scopes a rebuild still has to build
    mine,          \* artifact IDs this operation built or loaded
    failure,       \* code of the exception being handled
    resumed,       \* this operation was RUNNING at an earlier restart
    interrupted,   \* the operation recovery put back in the queue
    maint,         \* the directory storage maintenance is pruning
    keepScopes, keepArtifacts,  \* the retention snapshot in its hands
    attempted,     \* a pass was started within maintenance_interval_seconds
    crashes

documents == <<staging, stagedAge, final, finalAge, documentsUsed>>
indexes == <<candidates, artifacts, indexUsed, stranded, catalog>>
runner == <<current, step, todo, mine, failure, resumed>>
upkeep == <<maint, keepScopes, keepArtifacts>>
vars == <<documents, indexes, runner, upkeep, attempted, life, interrupted, crashes>>

Scopes == [notebook : Notebooks, revision : Revisions]
Batches == [number : 0..BatchCount - 1, content : Contents]
Ages == 0..Retention + 1                       \* older is no different
Artifacts == [id : ArtifactIds, scope : Scopes, content : Contents, age : Ages]
Pointers == [revision : Revisions, artifact : ArtifactIds, age : Ages]

ASSUME NoPointerAssumption == NoPointer \notin Pointers

\* A request names each notebook at one revision.
Selections ==
    {S \in SUBSET Scopes : S # {} /\ \A s, t \in S : s.notebook = t.notebook => s = t}

BatchOps == [type : {"ingest_batch"}, scopes : {{s} : s \in Scopes},
             number : 0..BatchCount - 1, content : Contents]
FinalizeOps == [type : {"ingest_finalize"}, scopes : {{s} : s \in Scopes},
                number : {BatchCount}, content : Contents]
RebuildOps == [type : {"index_rebuild"}, scopes : Selections,
               number : {0}, content : {NoContent}]
QueryOps == [type : {"query"}, scopes : Selections, number : {0}, content : {NoContent}]
Resumable == BatchOps \cup FinalizeOps \cup RebuildOps
Operations == Resumable \cup QueryOps

Steps == {"idle", "staging", "checking", "clearing", "building", "committing",
          "activating", "answering", "unwinding", "failing", "done"}
Failures == {"none", "INGEST_BATCH_CONFLICT", "INGEST_BATCHES_INCOMPLETE",
             "DOCUMENT_CHECKSUM_MISMATCH", "CONTENT_REVISION_CONFLICT",
             "STORAGE_QUOTA_EXCEEDED", "DOCUMENT_NOT_FINALIZED", "INDEX_NOT_READY",
             "BACKEND_FAILED", "OPERATION_FAILED"}
Rooms == {"none", "staging", "finalized", "candidates", "artifacts"}

\* Everything but the byte counters.
Shape ==
    /\ staging \in [Scopes -> SUBSET Batches]
    /\ stagedAge \in [Scopes -> Ages] /\ finalAge \in [Scopes -> Ages]
    /\ final \in [Scopes -> Contents \cup {NoContent}]
    /\ candidates \subseteq Artifacts /\ artifacts \subseteq Artifacts
    /\ catalog \in [Notebooks -> Pointers \cup {NoPointer}]
    /\ life \in {"down", "booting", "up"}
    /\ current \in Operations \cup {NoOperation}
    /\ step \in Steps
    /\ todo \subseteq Scopes /\ mine \subseteq ArtifactIds
    /\ failure \in Failures /\ resumed \in BOOLEAN
    /\ interrupted \in Resumable \cup {NoOperation}
    /\ maint \in Rooms
    /\ keepScopes \subseteq Scopes /\ keepArtifacts \subseteq ArtifactIds
    /\ attempted \in BOOLEAN
    /\ crashes \in 0..MaxCrashes

TypeOK == Shape /\ documentsUsed \in Nat /\ indexUsed \in Nat /\ stranded \in Nat

Init ==
    /\ staging = [s \in Scopes |-> {}] /\ stagedAge = [s \in Scopes |-> 0]
    /\ final = [s \in Scopes |-> NoContent] /\ finalAge = [s \in Scopes |-> 0]
    /\ documentsUsed = 0 /\ indexUsed = 0 /\ stranded = 0
    /\ candidates = {} /\ artifacts = {}
    /\ catalog = [n \in Notebooks |-> NoPointer]
    /\ life = "down"
    /\ current = NoOperation /\ step = "idle" /\ todo = {} /\ mine = {}
    /\ failure = "none" /\ resumed = FALSE
    /\ interrupted = NoOperation
    /\ maint = "none" /\ keepScopes = {} /\ keepArtifacts = {}
    /\ attempted = FALSE
    /\ crashes = 0

-----------------------------------------------------------------------------
(* What is on disk, and what the catalog refers to.                        *)

\* _tree_size of the two stores: a finalized document is as large as its batches.
StagedFiles(stg) == {f \in Scopes \X Batches : f[2] \in stg[f[1]]}
FinalScopes(fin) == {s \in Scopes : fin[s] # NoContent}
DocumentsOnDisk(stg, fin) ==
    Cardinality(StagedFiles(stg)) + BatchCount * Cardinality(FinalScopes(fin))
IndexesOnDisk(cand, art) == Cardinality(cand) + Cardinality(art)

PointerScope(n) == [notebook |-> n, revision |-> catalog[n].revision]
Pointed == {n \in Notebooks : catalog[n] # NoPointer}

\* Mutant: the notebook has some active revision.
ActiveAtAnyRevision(s) == catalog[s.notebook] # NoPointer

\* active_index: the row of the notebook, if it is of exactly this revision.
ActiveIndex(s) ==
    catalog[s.notebook] # NoPointer /\ catalog[s.notebook].revision = s.revision

\* artifact_status: the artifact is there, and its manifest names the pointer's scope.
ExactReady(s) ==
    /\ ActiveIndex(s)
    /\ \E a \in artifacts :
         a.id = catalog[s.notebook].artifact /\ a.scope = PointerScope(s.notebook)

\* A nonce makes every artifact ID new.
Unused(id) ==
    /\ \A a \in candidates \cup artifacts : a.id # id
    /\ \A n \in Pointed : catalog[n].artifact # id
    /\ id \notin mine

-----------------------------------------------------------------------------
(* The frame of an operation: run_once of the executor.                    *)

Target == CHOOSE s \in current.scopes : TRUE     \* _one_scope

FirstStep == [ingest_batch |-> "staging", ingest_finalize |-> "checking",
              index_rebuild |-> "building", query |-> "answering"]

Claim(o) ==
    /\ life = "up" /\ maint = "none" /\ step = "idle"
    /\ interrupted \in {NoOperation, o}
    /\ current' = o
    /\ step' = FirstStep[o.type]
    /\ todo' = o.scopes
    /\ resumed' = (interrupted = o)
    /\ interrupted' = NoOperation
    /\ UNCHANGED <<documents, indexes, upkeep, attempted, mine, failure, life, crashes>>

\* An exception: a rebuild first discards its candidates.
Raise(code) ==
    /\ failure' = code
    /\ step' = IF current.type = "index_rebuild" THEN "unwinding" ELSE "failing"
    /\ UNCHANGED <<current, resumed, todo, mine>>

Reach(next) == step' = next /\ UNCHANGED <<current, resumed, failure>>

Outside == UNCHANGED <<upkeep, attempted, life, interrupted, crashes>>

\* JobStore.succeed, or JobStore.fail from the exception handlers.
Conclude ==
    /\ step \in {"done", "failing"}
    /\ current' = NoOperation /\ step' = "idle" /\ todo' = {} /\ mine' = {}
    /\ failure' = "none" /\ resumed' = FALSE
    /\ UNCHANGED <<documents, indexes>> /\ Outside

-----------------------------------------------------------------------------
(* ingest_batch: DocumentStore.stage_batch.                                *)

StagedHere == {b \in staging[Target] : b.number = current.number}
ThisBatch == [number |-> current.number, content |-> current.content]

\* A file for this number exists: the same batch is accepted again, and the
\* directory keeps its age; another one is refused.
StageAgain ==
    /\ step = "staging"
    /\ StagedHere # {}
    /\ IF ThisBatch \in StagedHere THEN Reach("done") /\ UNCHANGED <<todo, mine>>
                                   ELSE Raise("INGEST_BATCH_CONFLICT")
    /\ UNCHANGED <<documents, indexes>> /\ Outside

StageNew ==
    /\ step = "staging"
    /\ StagedHere = {}
    /\ IF documentsUsed + 1 > DocumentQuota
       THEN Raise("STORAGE_QUOTA_EXCEEDED") /\ UNCHANGED documents
       ELSE /\ staging' = [staging EXCEPT ![Target] = @ \cup {ThisBatch}]
            /\ stagedAge' = [stagedAge EXCEPT ![Target] = 0]
            /\ documentsUsed' = documentsUsed + 1
            /\ Reach("done")
            /\ UNCHANGED <<final, finalAge, todo, mine>>
    /\ UNCHANGED indexes /\ Outside

-----------------------------------------------------------------------------
(* ingest_finalize: DocumentStore.finalize.                                *)

Complete == {b.number : b \in staging[Target]} = 0..BatchCount - 1
Verified == \A b \in staging[Target] : b.content = current.content

FinalizeRefused ==
    /\ step = "checking"
    /\ \/ ~Complete /\ Raise("INGEST_BATCHES_INCOMPLETE")
       \/ Complete /\ ~Verified /\ Raise("DOCUMENT_CHECKSUM_MISMATCH")
       \/ /\ Complete /\ Verified
          /\ final[Target] \notin {NoContent, current.content}
          /\ Raise("CONTENT_REVISION_CONFLICT")
       \/ /\ Complete /\ Verified
          /\ final[Target] = NoContent
          /\ documentsUsed + BatchCount > DocumentQuota
          /\ Raise("STORAGE_QUOTA_EXCEEDED")
    /\ UNCHANGED <<documents, indexes>> /\ Outside

\* The document was already finalized with this checksum: it is not rewritten.
FinalizeAgain ==
    /\ step = "checking"
    /\ Complete /\ Verified /\ final[Target] = current.content
    /\ Reach("clearing")
    /\ UNCHANGED <<documents, indexes, todo, mine>> /\ Outside

\* Mutant: a revision that was finalized with another checksum is rewritten.
FinalizeOverwrites ==
    /\ step = "checking"
    /\ Complete /\ Verified /\ final[Target] # current.content
    /\ documentsUsed + BatchCount <= DocumentQuota
    /\ final' = [final EXCEPT ![Target] = current.content]
    /\ finalAge' = [finalAge EXCEPT ![Target] = 0]
    /\ documentsUsed' = documentsUsed + BatchCount
    /\ Reach("clearing")
    /\ UNCHANGED <<staging, stagedAge, indexes, todo, mine>> /\ Outside

FinalizeWrite ==
    /\ step = "checking"
    /\ Complete /\ Verified /\ final[Target] = NoContent
    /\ documentsUsed + BatchCount <= DocumentQuota
    /\ final' = [final EXCEPT ![Target] = current.content]
    /\ finalAge' = [finalAge EXCEPT ![Target] = 0]
    /\ documentsUsed' = documentsUsed + BatchCount
    /\ Reach("clearing")
    /\ UNCHANGED <<staging, stagedAge, indexes, todo, mine>> /\ Outside

\* rmtree of the staging directory, file by file; the counter follows at the end.
ClearStaging ==
    /\ step = "clearing"
    /\ \E rest \in SUBSET staging[Target] :
         /\ rest # staging[Target]
         /\ staging' = [staging EXCEPT ![Target] = rest]
         /\ stagedAge' = [stagedAge EXCEPT ![Target] = 0]
         /\ IF rest = {} THEN Reach("done") /\ documentsUsed' = documentsUsed - BatchCount
                         ELSE Reach("clearing") /\ UNCHANGED documentsUsed
    /\ UNCHANGED <<final, finalAge, indexes, todo, mine>> /\ Outside

-----------------------------------------------------------------------------
(* index_rebuild: all candidates, then all commits, then one activation.   *)

BuildRefused ==
    /\ step = "building"
    /\ \E s \in todo :
         IF final[s] = NoContent THEN Raise("DOCUMENT_NOT_FINALIZED")
         ELSE \/ Raise("BACKEND_FAILED")
              \/ indexUsed + 1 > IndexQuota /\ Raise("STORAGE_QUOTA_EXCEEDED")
    /\ UNCHANGED <<documents, indexes>> /\ Outside

BuildCandidate ==
    /\ step = "building"
    /\ indexUsed + 1 <= IndexQuota
    /\ \E s \in todo, id \in ArtifactIds :
         /\ final[s] # NoContent
         /\ Unused(id)
         /\ candidates' = candidates \cup
                {[id |-> id, scope |-> s, content |-> final[s], age |-> 0]}
         /\ mine' = mine \cup {id}
         /\ todo' = todo \ {s}
    /\ indexUsed' = indexUsed + 1
    /\ Reach(IF todo' = {} THEN "committing" ELSE "building")
    /\ UNCHANGED <<documents, artifacts, stranded, catalog>> /\ Outside

\* The candidate is counted and its last progress is then refused by the
\* database: build_candidate removes the directory, the count stays, and the
\* rebuild, which never got the candidate, does not discard it.
BuildStranded ==
    /\ step = "building"
    /\ indexUsed + 1 <= IndexQuota
    /\ \E s \in todo : final[s] # NoContent
    /\ indexUsed' = indexUsed + 1
    /\ stranded' = stranded + 1
    /\ Raise("OPERATION_FAILED")
    /\ UNCHANGED <<documents, candidates, artifacts, catalog>> /\ Outside

\* os.replace into artifacts/; the renamed directory keeps its mtime.
CommitCandidate ==
    /\ step = "committing"
    /\ \E c \in candidates :
         /\ c.id \in mine
         /\ candidates' = candidates \ {c}
         /\ artifacts' = artifacts \cup {c}
    /\ Reach(IF \E c \in candidates' : c.id \in mine THEN "committing" ELSE "activating")
    /\ UNCHANGED <<documents, indexUsed, stranded, catalog, todo, mine>> /\ Outside

\* activate_indexes: every pointer of the scope in one transaction.
Built(s) == CHOOSE a \in artifacts : a.id \in mine /\ a.scope = s

\* Mutant: activate_index in a loop, a transaction per notebook.
ActivateOneByOne ==
    LET Pending(c) ==
            {s \in current.scopes : c[s.notebook] = NoPointer \/ c[s.notebook].artifact \notin mine}
    IN  /\ step = "activating"
        /\ \E s \in Pending(catalog) : catalog' = [catalog EXCEPT ![s.notebook] =
                [revision |-> s.revision, artifact |-> Built(s).id, age |-> 0]]
        /\ Reach(IF Pending(catalog') = {} THEN "done" ELSE "activating")
        /\ UNCHANGED <<documents, candidates, artifacts, indexUsed, stranded, todo, mine>> /\ Outside

ActivateIndexes ==
    /\ step = "activating"
    /\ catalog' = [n \in Notebooks |->
         IF \E s \in current.scopes : s.notebook = n
         THEN LET s == CHOOSE s \in current.scopes : s.notebook = n
              IN  [revision |-> s.revision, artifact |-> Built(s).id, age |-> 0]
         ELSE catalog[n]]
    /\ Reach("done")
    /\ UNCHANGED <<documents, candidates, artifacts, indexUsed, stranded, todo, mine>> /\ Outside

\* An unreadable artifact after the rename, or a database error in set_progress
\* or activate_indexes: what was committed stays in artifacts/.
PublishFails ==
    /\ step \in {"committing", "activating"}
    /\ Raise("OPERATION_FAILED")
    /\ UNCHANGED <<documents, indexes>> /\ Outside

\* Mutant: the directories are removed, the byte counter is not corrected.
DiscardUncounted ==
    /\ step = "unwinding"
    /\ candidates' = {c \in candidates : c.id \notin mine}
    /\ Reach("failing")
    /\ UNCHANGED <<documents, artifacts, indexUsed, stranded, catalog, todo, mine>> /\ Outside

\* discard_candidate for each candidate built so far.
DiscardCandidates ==
    /\ step = "unwinding"
    /\ candidates' = {c \in candidates : c.id \notin mine}
    /\ indexUsed' = indexUsed - Cardinality({c \in candidates : c.id \in mine})
    /\ Reach("failing")
    /\ UNCHANGED <<documents, artifacts, stranded, catalog, todo, mine>> /\ Outside

-----------------------------------------------------------------------------
(* query: the exact index of every scope, or INDEX_NOT_READY.              *)

AnswerQuery ==
    /\ step = "answering"
    /\ IF \A s \in current.scopes : ExactReady(s)
       THEN \/ /\ mine' = {catalog[s.notebook].artifact : s \in current.scopes}
               /\ Reach("done") /\ UNCHANGED todo
            \/ Raise("BACKEND_FAILED")
       ELSE Raise("INDEX_NOT_READY")
    /\ UNCHANGED <<documents, indexes>> /\ Outside

-----------------------------------------------------------------------------
(* perform_storage_maintenance.                                            *)

\* storage_retention_snapshot: drop expired pointers, remember the rest.
Snapshot ==
    /\ catalog' = [n \in Notebooks |->
         IF n \in Pointed /\ catalog[n].age > Retention THEN NoPointer ELSE catalog[n]]
    /\ LET kept == {n \in Pointed : catalog[n].age <= Retention}
       IN  /\ keepScopes' = {PointerScope(n) : n \in kept}
           /\ keepArtifacts' = {catalog[n].artifact : n \in kept}
    /\ maint' = "staging"
    /\ UNCHANGED <<candidates, artifacts, indexUsed, stranded>>

\* Between two operations; skipped while one is queued.
StartMaintenance ==
    /\ life = "up" /\ maint = "none" /\ step = "idle"
    /\ interrupted = NoOperation
    /\ ~attempted /\ attempted' = TRUE
    /\ Snapshot
    /\ UNCHANGED <<documents, runner, life, interrupted, crashes>>

NextRoom(room) == [staging |-> "finalized", finalized |-> "candidates",
               candidates |-> "artifacts", artifacts |-> "none"][room]

\* Mutants: documents are pruned by age alone, candidates not at all.
StaleByAge == {s \in Scopes : final[s] # NoContent /\ finalAge[s] > Grace}
CandidatesKept == {}

\* A directory of the room that no pointer keeps and that is past its grace.
StaleStaging == {s \in Scopes : staging[s] # {} /\ stagedAge[s] > Grace}
StaleFinal == {s \in Scopes : final[s] # NoContent /\ finalAge[s] > Grace /\ s \notin keepScopes}
StaleCandidates == {c \in candidates : c.age > Grace}
StaleArtifacts == {a \in artifacts : a.age > Grace /\ a.id \notin keepArtifacts}

PruneDocuments ==
    /\ \/ /\ maint = "staging"
          /\ \E s \in StaleStaging :
               staging' = [staging EXCEPT ![s] = {}] /\ stagedAge' = [stagedAge EXCEPT ![s] = 0]
          /\ UNCHANGED <<final, finalAge>>
       \/ /\ maint = "finalized"
          /\ \E s \in StaleFinal :
               final' = [final EXCEPT ![s] = NoContent] /\ finalAge' = [finalAge EXCEPT ![s] = 0]
          /\ UNCHANGED <<staging, stagedAge>>
    /\ documentsUsed' = DocumentsOnDisk(staging', final')
    /\ UNCHANGED <<indexes, upkeep>>

PruneIndexes ==
    /\ \/ /\ maint = "candidates"
          /\ \E c \in StaleCandidates : candidates' = candidates \ {c}
          /\ UNCHANGED artifacts
       \/ /\ maint = "artifacts"
          /\ \E a \in StaleArtifacts : artifacts' = artifacts \ {a}
          /\ UNCHANGED candidates
    /\ indexUsed' = IndexesOnDisk(candidates', artifacts') /\ stranded' = 0
    /\ UNCHANGED <<catalog, documents, upkeep>>

RoomDone ==
    /\ \/ maint = "staging" /\ StaleStaging = {}
       \/ maint = "finalized" /\ StaleFinal = {}
       \/ maint = "candidates" /\ StaleCandidates = {}
       \/ maint = "artifacts" /\ StaleArtifacts = {}
    /\ maint' = NextRoom(maint)
    /\ IF maint' = "none" THEN keepScopes' = {} /\ keepArtifacts' = {}
                          ELSE UNCHANGED <<keepScopes, keepArtifacts>>
    /\ UNCHANGED <<documents, indexes>>

Maintain ==
    /\ PruneDocuments \/ PruneIndexes \/ RoomDone
    /\ UNCHANGED <<runner, attempted, life, interrupted, crashes>>

-----------------------------------------------------------------------------
(* The process and the clock.                                              *)

\* Memory is lost; recover_interrupted_operations will put a resumable
\* operation back in the queue, and fail a query.
Crash ==
    /\ life # "down" /\ crashes < MaxCrashes
    /\ crashes' = crashes + 1
    /\ life' = "down"
    /\ interrupted' = IF step = "idle" THEN interrupted
                      ELSE IF current \in Resumable THEN current ELSE NoOperation
    /\ current' = NoOperation /\ step' = "idle" /\ todo' = {} /\ mine' = {}
    /\ failure' = "none" /\ resumed' = FALSE
    /\ maint' = "none" /\ keepScopes' = {} /\ keepArtifacts' = {}
    /\ attempted' = FALSE
    /\ UNCHANGED <<documents, indexes>>

\* Mutant: the byte counters start at zero.
BootUnmeasured ==
    /\ life = "down"
    /\ life' = "booting"
    /\ documentsUsed' = 0 /\ indexUsed' = 0 /\ stranded' = 0
    /\ UNCHANGED <<staging, stagedAge, final, finalAge, candidates, artifacts, catalog,
                   runner, upkeep, attempted, interrupted, crashes>>

\* The constructors measure what is on disk.
Boot ==
    /\ life = "down"
    /\ life' = "booting"
    /\ documentsUsed' = DocumentsOnDisk(staging, final)
    /\ indexUsed' = IndexesOnDisk(candidates, artifacts) /\ stranded' = 0
    /\ UNCHANGED <<staging, stagedAge, final, finalAge, candidates, artifacts, catalog,
                   runner, upkeep, attempted, interrupted, crashes>>

\* One maintenance pass before the first request, skipped if work is queued.
Serve ==
    /\ life = "booting"
    /\ life' = "up"
    /\ IF interrupted = NoOperation THEN Snapshot ELSE UNCHANGED <<indexes, upkeep>>
    /\ UNCHANGED <<documents, runner, attempted, interrupted, crashes>>

Older(age) == IF age > Retention THEN age ELSE age + 1

\* The cutoffs of a maintenance pass are fixed when it starts.
Tick ==
    /\ maint = "none"
    /\ attempted' = FALSE
    /\ stagedAge' = [s \in Scopes |-> IF staging[s] = {} THEN 0 ELSE Older(stagedAge[s])]
    /\ finalAge' = [s \in Scopes |-> IF final[s] = NoContent THEN 0 ELSE Older(finalAge[s])]
    /\ candidates' = {[c EXCEPT !.age = Older(@)] : c \in candidates}
    /\ artifacts' = {[a EXCEPT !.age = Older(@)] : a \in artifacts}
    /\ catalog' = [n \in Notebooks |->
         IF n \in Pointed THEN [catalog[n] EXCEPT !.age = Older(@)] ELSE NoPointer]
    /\ UNCHANGED <<staging, final, documentsUsed, indexUsed, stranded, runner, upkeep, life,
                   interrupted, crashes>>

-----------------------------------------------------------------------------
Execute ==
    \/ StageAgain \/ StageNew
    \/ FinalizeRefused \/ FinalizeAgain \/ FinalizeWrite \/ ClearStaging
    \/ BuildRefused \/ BuildCandidate \/ BuildStranded \/ CommitCandidate
    \/ ActivateIndexes
    \/ PublishFails \/ DiscardCandidates
    \/ AnswerQuery
    \/ Conclude

Next ==
    \/ \E o \in Operations : Claim(o)
    \/ Execute
    \/ StartMaintenance
    \/ Maintain
    \/ Crash
    \/ Boot
    \/ Serve
    \/ Tick

Spec == Init /\ [][Next]_vars

\* The process takes its next step, in an operation or in maintenance, and the
\* service manager restarts it when it is gone; and time passes.
Fairness == WF_vars(Execute \/ StartMaintenance \/ Maintain \/ Boot \/ Serve) /\ WF_vars(Tick)

FairSpec == Spec /\ Fairness

-----------------------------------------------------------------------------
(* Invariants.                                                             *)

\* Whatever is interrupted and whatever maintenance removes, an active pointer
\* names an artifact on disk that was built from the finalized document of
\* exactly that revision, and the document is still there for a rebuild.
CatalogBacked ==
    \A n \in Pointed : \E a \in artifacts :
        /\ a.id = catalog[n].artifact
        /\ a.scope = PointerScope(n)
        /\ a.content = final[PointerScope(n)]

\* A rebuild reports success, and a query answers, only with every requested
\* revision exactly ready, never with a neighbouring revision of a notebook.
SuccessMeansReady ==
    step = "done" /\ current.type \in {"index_rebuild", "query"} =>
        /\ \A s \in current.scopes : \E a \in artifacts :
             a.scope = s /\ a.id \in mine /\ catalog[s.notebook].revision = s.revision
        /\ mine = {catalog[s.notebook].artifact : s \in current.scopes}

\* The in-memory byte counters are never below what is on disk, so the quotas
\* hold there, through conflicts, discarded candidates, pruning, crashes and
\* restarts.  They are above it by nothing but a staging directory that is half
\* removed and the candidates whose build failed after they were counted; those
\* are corrected by the next start or the next pruning that removes an index.
QuotasAccounted ==
    /\ DocumentsOnDisk(staging, final) <= DocumentQuota
    /\ IndexesOnDisk(candidates, artifacts) <= IndexQuota
    /\ life # "down" =>
         /\ IF step = "clearing" THEN documentsUsed >= DocumentsOnDisk(staging, final)
                                 ELSE documentsUsed = DocumentsOnDisk(staging, final)
         /\ indexUsed = IndexesOnDisk(candidates, artifacts) + stranded

\* "Recover only operations whose idempotency permits safe resumption" (the
\* docstring of recover_interrupted_operations): a finalize that recovery put
\* back does not fail when its document is already in place.
SafeResumption ==
    ~ /\ step = "failing" /\ resumed
      /\ current.type = "ingest_finalize"
      /\ final[Target] = current.content

-----------------------------------------------------------------------------
(* Action and temporal properties.                                         *)

\* The document of a declared revision never changes under a reader.
FinalizedImmutable ==
    [][\A s \in Scopes :
         final[s] # NoContent => final'[s] \in {final[s], NoContent}]_vars

\* A rebuild of several notebooks publishes all of its pointers or none, and a
\* pointer disappears only through retention.
Published ==
    {n \in Notebooks : /\ catalog'[n] # NoPointer
                       /\ n \in Pointed => catalog[n].artifact # catalog'[n].artifact}
PublishedTogether ==
    [][/\ Published # {} =>
            {[notebook |-> n, revision |-> catalog'[n].revision] : n \in Published}
                = current.scopes
       /\ \A n \in Pointed : catalog'[n] = NoPointer =>
            catalog[n].age > Retention /\ step = "idle" /\ interrupted = NoOperation]_vars

\* "The default retention window": once no operation runs any more, every
\* pointer, document, staged batch, candidate and artifact is erased, also
\* what a crash left behind.
Quiet == step = "idle" /\ interrupted = NoOperation
Erased ==
    /\ \A s \in Scopes : staging[s] = {} /\ final[s] = NoContent
    /\ candidates = {} /\ artifacts = {} /\ Pointed = {}
QuietErasesAll == <>[]Quiet => <>[]Erased

=============================================================================
