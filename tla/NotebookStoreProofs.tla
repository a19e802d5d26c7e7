------------------------- MODULE NotebookStoreProofs -------------------------
(***************************************************************************)
(* For any notebooks, revisions, contents, quotas and retention: types,    *)
(* that active pointers are backed by artifacts and documents on disk,     *)
(* that success means exactly what was asked for, that the byte counters   *)
(* agree with the disk, and that rebuilds publish all or nothing.          *)
(*                                                                         *)
(* No constant is assumed finite: that the disk holds finitely many files  *)
(* is part of the invariant.                                               *)
(***************************************************************************)
EXTENDS NotebookStore, TLAPS, FiniteSetTheorems

USE NotebookStoreAssumption, NoPointerAssumption
    DEF NotebookStoreAssumption, NoPointerAssumption

-----------------------------------------------------------------------------
(* The inductive invariant.                                                *)

\* Where an operation is tells its kind.
StepTypes ==
    /\ step = "staging" => current \in BatchOps
    /\ step \in {"checking", "clearing"} => current \in FinalizeOps
    /\ step \in {"building", "committing", "activating", "unwinding"} => current \in RebuildOps
    /\ step = "answering" => current \in QueryOps

\* Operations and maintenance run only in a process that is up, never both.
Phases ==
    /\ life # "up" => step = "idle"
    /\ maint # "none" => life = "up" /\ step = "idle"
    /\ step = "idle" => mine = {} /\ todo = {}
    /\ step # "idle" => current \in Operations
    /\ StepTypes

Directories == candidates \cup artifacts

\* A directory has an ID of its own and is in one of the two rooms.
Distinct ==
    /\ \A d, e \in Directories : d.id = e.id => d = e
    /\ candidates \cap artifacts = {}

FiniteIndexes == IsFiniteSet(candidates) /\ IsFiniteSet(artifacts)
FiniteDocuments == IsFiniteSet(StagedFiles(staging)) /\ IsFiniteSet(FinalScopes(final))

\* The counter also holds the candidates whose build failed after the count.
IndexesCounted ==
    /\ indexUsed \in Nat /\ stranded \in Nat
    /\ IndexesOnDisk(candidates, artifacts) <= IndexQuota
    /\ life # "down" => indexUsed = IndexesOnDisk(candidates, artifacts) + stranded

\* While rmtree runs the counter still holds the batches already removed.
HalfCleared ==
    IF step = "clearing" THEN BatchCount - Cardinality(staging[Target]) ELSE 0
DocumentsCounted ==
    /\ documentsUsed \in Nat
    /\ DocumentsOnDisk(staging, final) <= DocumentQuota
    /\ step = "clearing" => Cardinality(staging[Target]) <= BatchCount
    /\ life # "down" => documentsUsed = DocumentsOnDisk(staging, final) + HalfCleared

\* What a rebuild has built until it activates: one directory for each scope it
\* reached, of the document of that scope, that no pointer names yet.
Publishing == {"building", "committing", "activating"}
Mine == {d \in Directories : d.id \in mine}
Reached == current.scopes \ todo
Work ==
    step \in Publishing =>
        /\ todo \subseteq current.scopes
        /\ \A d \in Mine : d.scope \in Reached /\ d.content = final[d.scope]
                            /\ d.content # NoContent
        /\ \A s \in Reached : \E d \in Mine : d.scope = s
        /\ \A d, e \in Mine : d.scope = e.scope => d = e
        /\ \A id \in mine : \E d \in Mine : d.id = id
        /\ \A n \in Pointed : catalog[n].artifact \notin mine
        /\ step # "building" => todo = {}
        /\ step = "activating" => Mine \subseteq artifacts

\* The snapshot in the hands of a maintenance pass covers every pointer.
Kept ==
    maint # "none" => \A n \in Pointed :
        PointerScope(n) \in keepScopes /\ catalog[n].artifact \in keepArtifacts

IInv ==
    /\ Shape /\ Phases
    /\ Distinct /\ FiniteIndexes /\ IndexesCounted
    /\ FiniteDocuments /\ DocumentsCounted
    /\ Work /\ Kept /\ CatalogBacked /\ SuccessMeansReady

-----------------------------------------------------------------------------
(* Shape and phases.                                                       *)

\* An ingest operation has one scope.
LEMMA OneScope ==
    ASSUME current \in BatchOps \cup FinalizeOps
    PROVE  Target \in Scopes /\ current.scopes = {Target}
BY DEF BatchOps, FinalizeOps, Target

\* Ages stay within the bound.
LEMMA OlderType == \A age \in Ages : Older(age) \in Ages
BY DEF Older, Ages

\* The type of an operation tells its kind.
LEMMA KindOfOperation ==
    \A o \in Operations :
        /\ o.scopes \subseteq Scopes
        /\ o.type = "ingest_batch" => o \in BatchOps
        /\ o.type = "ingest_finalize" => o \in FinalizeOps
        /\ o.type = "index_rebuild" => o \in RebuildOps
        /\ o.type = "query" => o \in QueryOps
        /\ o.type \in {"ingest_batch", "ingest_finalize", "index_rebuild", "query"}
<1>1. \A o \in Operations :
        /\ o.scopes \subseteq Scopes
        /\ o.type \in {"ingest_batch", "ingest_finalize", "index_rebuild", "query"}
    BY DEF Operations, Resumable, BatchOps, FinalizeOps, RebuildOps, QueryOps, Selections
<1>2. \A o \in Operations : o.type = "ingest_batch" => o \in BatchOps
    BY DEF Operations, Resumable, BatchOps, FinalizeOps, RebuildOps, QueryOps
<1>3. \A o \in Operations : o.type = "ingest_finalize" => o \in FinalizeOps
    BY DEF Operations, Resumable, BatchOps, FinalizeOps, RebuildOps, QueryOps
<1>4. \A o \in Operations : o.type = "index_rebuild" => o \in RebuildOps
    BY DEF Operations, Resumable, BatchOps, FinalizeOps, RebuildOps, QueryOps
<1>5. \A o \in Operations : o.type = "query" => o \in QueryOps
    BY DEF Operations, Resumable, BatchOps, FinalizeOps, RebuildOps, QueryOps
<1> QED BY <1>1, <1>2, <1>3, <1>4, <1>5

\* The initial state is well formed.
LEMMA InitShape == Init => Shape /\ Phases
<1> SUFFICES ASSUME Init PROVE Shape /\ Phases
    OBVIOUS
<1> USE DEF Init
<1>1. 0 \in Ages
    BY DEF Ages
<1>2. /\ staging \in [Scopes -> SUBSET Batches]
      /\ stagedAge \in [Scopes -> Ages] /\ finalAge \in [Scopes -> Ages]
      /\ final \in [Scopes -> Contents \cup {NoContent}]
    BY <1>1
<1>3. catalog \in [Notebooks -> Pointers \cup {NoPointer}]
    OBVIOUS
<1>4. /\ candidates \subseteq Artifacts /\ artifacts \subseteq Artifacts
      /\ todo \subseteq Scopes /\ mine \subseteq ArtifactIds
      /\ keepScopes \subseteq Scopes /\ keepArtifacts \subseteq ArtifactIds
      /\ crashes \in 0..MaxCrashes
    OBVIOUS
<1>5. /\ life \in {"down", "booting", "up"} /\ step \in Steps /\ maint \in Rooms
      /\ failure \in Failures /\ resumed \in BOOLEAN /\ attempted \in BOOLEAN
      /\ current \in Operations \cup {NoOperation}
      /\ interrupted \in Resumable \cup {NoOperation}
    BY DEF Steps, Failures, Rooms
<1>6. Phases
    BY DEF Phases, StepTypes
<1> QED BY <1>2, <1>3, <1>4, <1>5, <1>6 DEF Shape

\* An exception leaves a rebuild to its discarding and ends any other operation.
LEMMA RaiseShape ==
    ASSUME Shape, Phases, step # "idle", NEW code \in Failures, Raise(code), Outside,
           UNCHANGED <<documents, candidates, artifacts, catalog>>
    PROVE  Shape' /\ Phases'
<1>1. /\ current \in Operations /\ life = "up" /\ maint = "none"
      /\ current.type = "index_rebuild" => current \in RebuildOps
    BY KindOfOperation DEF Phases
<1>2. Shape'
    BY DEF Shape, Raise, Outside, documents, indexes, upkeep, Steps
<1>3. Phases'
    BY <1>1 DEF Phases, StepTypes, Raise, Outside, documents, indexes, upkeep
<1> QED BY <1>2, <1>3

\* A rebuild that activates finds the artifact of each of its scopes.
LEMMA BuiltIsMine ==
    ASSUME Shape, Work, step = "activating", NEW s \in current.scopes
    PROVE  /\ Built(s) \in artifacts /\ Built(s) \in Artifacts
           /\ Built(s).id \in mine /\ Built(s).id \in ArtifactIds
           /\ Built(s).scope = s
           /\ Built(s).content = final[s] /\ final[s] # NoContent
<1>1. s \in Reached /\ Mine \subseteq artifacts
    BY DEF Work, Publishing, Reached
<1>2. PICK d \in Mine : d.scope = s
    BY <1>1 DEF Work, Publishing
<1>3. d \in artifacts /\ d.id \in mine
    BY <1>1, <1>2 DEF Mine
<1>4. Built(s) \in artifacts /\ Built(s).id \in mine /\ Built(s).scope = s
    BY <1>2, <1>3 DEF Built
<1>5. Built(s) \in Mine
    BY <1>4 DEF Mine, Directories
<1>6. Built(s).content = final[s] /\ final[s] # NoContent
    BY <1>4, <1>5 DEF Work, Publishing
<1>7. Built(s) \in Artifacts /\ Built(s).id \in ArtifactIds
    BY <1>4 DEF Shape, Artifacts
<1> QED BY <1>4, <1>6, <1>7

\* The rows that activation leaves: the new ones and those of other notebooks.
LEMMA Activated ==
    ASSUME Shape, Phases, Work, ActivateIndexes
    PROVE  /\ catalog' \in [Notebooks -> Pointers \cup {NoPointer}]
           /\ \A s \in current.scopes : catalog'[s.notebook] =
                [revision |-> s.revision, artifact |-> Built(s).id, age |-> 0]
           /\ \A n \in Notebooks :
                (\A s \in current.scopes : s.notebook # n) => catalog'[n] = catalog[n]
<1>1. current \in RebuildOps
    BY DEF ActivateIndexes, Phases, StepTypes
<1>2. /\ current.scopes \subseteq Scopes
      /\ \A s, t \in current.scopes : s.notebook = t.notebook => s = t
    BY <1>1 DEF RebuildOps, Selections
<1> DEFINE Row(s) == [revision |-> s.revision, artifact |-> Built(s).id, age |-> 0]
<1>3. \A s \in current.scopes : Row(s) \in Pointers
    <2> SUFFICES ASSUME NEW s \in current.scopes PROVE Row(s) \in Pointers
        OBVIOUS
    <2>1. Built(s).id \in ArtifactIds
        BY BuiltIsMine DEF ActivateIndexes
    <2> QED BY <1>2, <2>1 DEF Pointers, Scopes, Ages
<1> DEFINE Chosen(n) == CHOOSE s \in current.scopes : s.notebook = n
<1>4. \A s \in current.scopes : Chosen(s.notebook) = s
    <2> SUFFICES ASSUME NEW s \in current.scopes PROVE Chosen(s.notebook) = s
        OBVIOUS
    <2>1. Chosen(s.notebook) \in current.scopes /\ Chosen(s.notebook).notebook = s.notebook
        OBVIOUS
    <2> QED BY <1>2, <2>1
<1>5. catalog' = [n \in Notebooks |->
            IF \E s \in current.scopes : s.notebook = n THEN Row(Chosen(n)) ELSE catalog[n]]
    BY DEF ActivateIndexes
<1> HIDE DEF Row, Chosen
<1>6. \A s \in current.scopes : s.notebook \in Notebooks /\ catalog'[s.notebook] = Row(s)
    BY <1>2, <1>4, <1>5 DEF Scopes
<1>7. \A n \in Notebooks :
        (\A s \in current.scopes : s.notebook # n) => catalog'[n] = catalog[n]
    BY <1>5
<1>8. \A n \in Notebooks : catalog'[n] \in Pointers \cup {NoPointer}
    <2> SUFFICES ASSUME NEW n \in Notebooks PROVE catalog'[n] \in Pointers \cup {NoPointer}
        OBVIOUS
    <2>1. CASE \E s \in current.scopes : s.notebook = n
        BY <1>3, <1>6, <2>1
    <2>2. CASE \A s \in current.scopes : s.notebook # n
        BY <1>7, <2>2 DEF Shape
    <2> QED BY <2>1, <2>2
<1>9. catalog' \in [Notebooks -> Pointers \cup {NoPointer}]
    BY <1>5, <1>8
<1> QED BY <1>6, <1>7, <1>9 DEF Row

\* What an operation does once it runs.
LEMMA ExecuteShape ==
    ASSUME Shape, Phases, Work, Execute
    PROVE  Shape' /\ Phases'
<1> USE DEF documents, indexes, runner, upkeep, Outside
<1>1. CASE StageAgain
    <2>1. CASE Raise("INGEST_BATCH_CONFLICT")
        BY <1>1, <2>1, RaiseShape DEF StageAgain, Failures
    <2>2. CASE Reach("done") /\ UNCHANGED <<todo, mine>>
        BY <1>1, <2>2 DEF StageAgain, Reach, Shape, Phases, StepTypes, Steps
    <2> QED BY <1>1, <2>1, <2>2 DEF StageAgain
<1>2. CASE StageNew
    <2>1. CASE Raise("STORAGE_QUOTA_EXCEEDED") /\ UNCHANGED documents
        BY <1>2, <2>1, RaiseShape DEF StageNew, Failures
    <2>2. CASE ~(documentsUsed + 1 > DocumentQuota)
        <3>1. current \in BatchOps /\ Target \in Scopes /\ 0 \in Ages
            BY <1>2, OneScope DEF StageNew, Phases, StepTypes, Ages
        <3>2. ThisBatch \in Batches
            BY <3>1 DEF ThisBatch, Batches, BatchOps
        <3>3. staging' \in [Scopes -> SUBSET Batches] /\ stagedAge' \in [Scopes -> Ages]
            BY <1>2, <2>2, <3>1, <3>2 DEF StageNew, Shape
        <3>4. Shape'
            BY <1>2, <2>2, <3>3 DEF StageNew, Reach, Shape, Steps
        <3>5. Phases'
            BY <1>2, <2>2 DEF StageNew, Reach, Phases, StepTypes
        <3> QED BY <3>4, <3>5
    <2> QED BY <1>2, <2>1, <2>2 DEF StageNew
<1>3. CASE FinalizeRefused
    <2>1. PICK code \in Failures : Raise(code)
        BY <1>3 DEF FinalizeRefused, Failures
    <2> QED BY <1>3, <2>1, RaiseShape DEF FinalizeRefused
<1>4. CASE FinalizeAgain
    BY <1>4 DEF FinalizeAgain, Reach, Shape, Phases, StepTypes, Steps
<1>5. CASE FinalizeWrite
    <2>1. current \in FinalizeOps /\ Target \in Scopes /\ 0 \in Ages
        BY <1>5, OneScope DEF FinalizeWrite, Phases, StepTypes, Ages
    <2>2. current.content \in Contents
        BY <2>1 DEF FinalizeOps
    <2>3. /\ final' \in [Scopes -> Contents \cup {NoContent}]
          /\ finalAge' \in [Scopes -> Ages]
        BY <1>5, <2>1, <2>2 DEF FinalizeWrite, Shape
    <2>4. Shape'
        BY <1>5, <2>3 DEF FinalizeWrite, Reach, Shape, Steps
    <2>5. Phases'
        BY <1>5 DEF FinalizeWrite, Reach, Phases, StepTypes
    <2> QED BY <2>4, <2>5
<1>6. CASE ClearStaging
    <2>1. Target \in Scopes /\ 0 \in Ages
        BY <1>6, OneScope DEF ClearStaging, Phases, StepTypes, Ages
    <2>2. staging' \in [Scopes -> SUBSET Batches] /\ stagedAge' \in [Scopes -> Ages]
        BY <1>6, <2>1 DEF ClearStaging, Shape
    <2>3. step' \in {"done", "clearing"} /\ UNCHANGED <<current, resumed, failure>>
        BY <1>6 DEF ClearStaging, Reach
    <2>4. Shape'
        BY <1>6, <2>2, <2>3 DEF ClearStaging, Shape, Steps
    <2>5. Phases'
        BY <1>6, <2>3 DEF ClearStaging, Phases, StepTypes
    <2> QED BY <2>4, <2>5
<1>7. CASE BuildRefused
    <2>1. PICK code \in Failures : Raise(code)
        BY <1>7 DEF BuildRefused, Failures
    <2> QED BY <1>7, <2>1, RaiseShape DEF BuildRefused
<1>8. CASE BuildCandidate
    <2>1. PICK s \in todo, id \in ArtifactIds :
            /\ final[s] # NoContent
            /\ candidates' = candidates \cup
                 {[id |-> id, scope |-> s, content |-> final[s], age |-> 0]}
            /\ mine' = mine \cup {id}
            /\ todo' = todo \ {s}
        BY <1>8 DEF BuildCandidate
    <2>2. [id |-> id, scope |-> s, content |-> final[s], age |-> 0] \in Artifacts
        BY <2>1 DEF Shape, Artifacts, Ages
    <2>3. step' \in {"building", "committing"} /\ UNCHANGED <<current, resumed, failure>>
        BY <1>8 DEF BuildCandidate, Reach
    <2>4. Shape'
        BY <1>8, <2>1, <2>2, <2>3 DEF BuildCandidate, Shape, Steps
    <2>5. Phases'
        BY <1>8, <2>3 DEF BuildCandidate, Phases, StepTypes
    <2> QED BY <2>4, <2>5
<1>9. CASE CommitCandidate
    <2>1. step' \in {"committing", "activating"} /\ UNCHANGED <<current, resumed, failure>>
        BY <1>9 DEF CommitCandidate, Reach
    <2>2. Shape'
        BY <1>9, <2>1 DEF CommitCandidate, Shape, Steps
    <2>3. Phases'
        BY <1>9, <2>1 DEF CommitCandidate, Phases, StepTypes
    <2> QED BY <2>2, <2>3
<1>10. CASE ActivateIndexes
    <2>1. catalog' \in [Notebooks -> Pointers \cup {NoPointer}]
        BY <1>10, Activated
    <2>2. Shape'
        BY <1>10, <2>1 DEF ActivateIndexes, Reach, Shape, Steps
    <2>3. Phases'
        BY <1>10 DEF ActivateIndexes, Reach, Phases, StepTypes
    <2> QED BY <2>2, <2>3
<1>11. CASE PublishFails
    BY <1>11, RaiseShape DEF PublishFails, Failures
<1>12. CASE DiscardCandidates
    BY <1>12 DEF DiscardCandidates, Reach, Shape, Phases, StepTypes, Steps
<1>13. CASE AnswerQuery
    <2>1. CASE Raise("BACKEND_FAILED") \/ Raise("INDEX_NOT_READY")
        BY <1>13, <2>1, RaiseShape DEF AnswerQuery, Failures
    <2>2. CASE /\ \A s \in current.scopes : ExactReady(s)
               /\ mine' = {catalog[s.notebook].artifact : s \in current.scopes}
               /\ Reach("done") /\ UNCHANGED todo
        <3>1. current \in Operations
            BY <1>13 DEF AnswerQuery, Phases
        <3>2. \A s \in current.scopes : catalog[s.notebook].artifact \in ArtifactIds
            BY <2>2, <3>1, KindOfOperation DEF ExactReady, ActiveIndex, Shape, Pointers, Scopes
        <3>3. mine' \subseteq ArtifactIds
            BY <2>2, <3>2
        <3>4. Shape'
            BY <1>13, <2>2, <3>3 DEF AnswerQuery, Reach, Shape, Steps
        <3>5. Phases'
            BY <1>13, <2>2 DEF AnswerQuery, Reach, Phases, StepTypes
        <3> QED BY <3>4, <3>5
    <2> QED BY <1>13, <2>1, <2>2 DEF AnswerQuery
<1>14. CASE Conclude
    BY <1>14 DEF Conclude, Shape, Phases, StepTypes, Steps, Failures
<1>15. CASE BuildStranded
    BY <1>15, RaiseShape DEF BuildStranded, Failures
<1> QED
    BY <1>1, <1>2, <1>3, <1>4, <1>5, <1>6, <1>7, <1>8, <1>9, <1>10, <1>11, <1>12, <1>13, <1>14,
       <1>15
    DEF Execute

-----------------------------------------------------------------------------
\* Dropping the expired pointers.
LEMMA SnapshotShape ==
    ASSUME Shape, Snapshot
    PROVE  /\ catalog' \in [Notebooks -> Pointers \cup {NoPointer}]
           /\ keepScopes' \subseteq Scopes /\ keepArtifacts' \subseteq ArtifactIds
           /\ maint' \in Rooms
<1>1. \A n \in Pointed : catalog[n] \in Pointers
    BY DEF Shape, Pointed
<1>2. \A n \in Pointed : PointerScope(n) \in Scopes /\ catalog[n].artifact \in ArtifactIds
    BY <1>1 DEF Pointed, PointerScope, Pointers, Scopes
<1>3. catalog' \in [Notebooks -> Pointers \cup {NoPointer}]
    BY DEF Snapshot, Shape
<1> QED BY <1>2, <1>3 DEF Snapshot, Rooms

\* Every step keeps the types and the phases.
LEMMA ShapeStep ==
    ASSUME Shape, Phases, Work, Next
    PROVE  Shape' /\ Phases'
<1> USE DEF documents, indexes, runner, upkeep
<1>1. CASE \E o \in Operations : Claim(o)
    <2>1. PICK o \in Operations : Claim(o)
        BY <1>1
    <2>2. o.scopes \subseteq Scopes /\ step' \in Steps \ {"idle"}
        BY <2>1, KindOfOperation DEF Claim, FirstStep, Steps
    <2>3. Shape'
        BY <2>1, <2>2 DEF Claim, Shape
    <2>4. StepTypes'
        BY <2>1, KindOfOperation DEF Claim, FirstStep, StepTypes
    <2>5. Phases'
        BY <2>1, <2>2, <2>4 DEF Claim, Phases
    <2> QED BY <2>3, <2>5
<1>2. CASE Execute
    BY <1>2, ExecuteShape
<1>3. CASE StartMaintenance
    <2>1. Shape'
        BY <1>3, SnapshotShape DEF StartMaintenance, Snapshot, Shape
    <2>2. Phases'
        BY <1>3 DEF StartMaintenance, Snapshot, Phases, StepTypes
    <2> QED BY <2>1, <2>2
<1>4. CASE Maintain /\ PruneDocuments
    <2>1. maint # "none" /\ 0 \in Ages
        BY <1>4 DEF PruneDocuments, Ages
    <2>2. /\ staging' \in [Scopes -> SUBSET Batches] /\ stagedAge' \in [Scopes -> Ages]
          /\ final' \in [Scopes -> Contents \cup {NoContent}]
          /\ finalAge' \in [Scopes -> Ages]
        BY <1>4, <2>1 DEF PruneDocuments, Shape
    <2>3. Shape'
        BY <1>4, <2>2 DEF Maintain, PruneDocuments, Shape
    <2>4. Phases'
        BY <1>4 DEF Maintain, PruneDocuments, Phases, StepTypes
    <2> QED BY <2>3, <2>4
<1>5. CASE Maintain /\ PruneIndexes
    <2>1. candidates' \subseteq Artifacts /\ artifacts' \subseteq Artifacts
        BY <1>5 DEF PruneIndexes, Shape
    <2>2. Shape'
        BY <1>5, <2>1 DEF Maintain, PruneIndexes, Shape
    <2>3. Phases'
        BY <1>5 DEF Maintain, PruneIndexes, Phases, StepTypes
    <2> QED BY <2>2, <2>3
<1>6. CASE Maintain /\ RoomDone
    <2>1. maint # "none" /\ maint' \in Rooms
        BY <1>6 DEF RoomDone, NextRoom, Rooms
    <2>2. Shape'
        BY <1>6, <2>1 DEF Maintain, RoomDone, Shape
    <2>3. Phases'
        BY <1>6, <2>1 DEF Maintain, RoomDone, Phases, StepTypes
    <2> QED BY <2>2, <2>3
<1>7. CASE Crash
    <2>1. interrupted' \in Resumable \cup {NoOperation} /\ crashes' \in 0..MaxCrashes
        BY <1>7 DEF Crash, Shape
    <2>2. Shape'
        BY <1>7, <2>1 DEF Crash, Shape, Steps, Failures, Rooms
    <2>3. Phases'
        BY <1>7 DEF Crash, Phases, StepTypes
    <2> QED BY <2>2, <2>3
<1>8. CASE Boot
    BY <1>8 DEF Boot, Shape, Phases, StepTypes
<1>9. CASE Serve
    <2>1. Shape'
        BY <1>9, SnapshotShape DEF Serve, Snapshot, Shape
    <2>2. Phases'
        BY <1>9 DEF Serve, Snapshot, Phases, StepTypes
    <2> QED BY <2>1, <2>2
<1>10. CASE Tick
    <2>1. stagedAge' \in [Scopes -> Ages] /\ finalAge' \in [Scopes -> Ages]
        BY <1>10, OlderType DEF Tick, Shape, Ages
    <2>2. candidates' \subseteq Artifacts
        BY <1>10, OlderType DEF Tick, Shape, Artifacts
    <2>3. artifacts' \subseteq Artifacts
        BY <1>10, OlderType DEF Tick, Shape, Artifacts
    <2>4. catalog' \in [Notebooks -> Pointers \cup {NoPointer}]
        BY <1>10, OlderType DEF Tick, Shape, Pointed, Pointers
    <2>5. Shape'
        BY <1>10, <2>1, <2>2, <2>3, <2>4 DEF Tick, Shape
    <2>6. Phases'
        BY <1>10 DEF Tick, Phases, StepTypes
    <2> QED BY <2>5, <2>6
<1> QED
    BY <1>1, <1>2, <1>3, <1>4, <1>5, <1>6, <1>7, <1>8, <1>9, <1>10 DEF Next, Maintain

-----------------------------------------------------------------------------
(* The directories of the index store.                                     *)

\* The passage of time over a set of directories.
Aged(S) == {[c EXCEPT !.age = Older(@)] : c \in S}

\* Only these steps touch the directories of the index store.
LEMMA DirectorySteps ==
    ASSUME Next
    PROVE  \/ BuildCandidate \/ CommitCandidate \/ DiscardCandidates
           \/ BuildStranded
           \/ Maintain /\ PruneIndexes
           \/ Tick
           \/ UNCHANGED <<candidates, artifacts>> /\ Boot
           \/ UNCHANGED <<candidates, artifacts, indexUsed, stranded, life>>
           \/ UNCHANGED <<candidates, artifacts, indexUsed, stranded>> /\ (Crash \/ Serve)
<1> USE DEF indexes, Outside
<1>1. CASE Execute
    BY <1>1 DEF Execute, StageAgain, StageNew, FinalizeRefused, FinalizeAgain, FinalizeWrite,
                ClearStaging, BuildRefused, ActivateIndexes, PublishFails, AnswerQuery, Conclude
<1>2. CASE Maintain
    BY <1>2 DEF Maintain, PruneDocuments, RoomDone
<1>3. CASE (\E o \in Operations : Claim(o)) \/ StartMaintenance \/ Boot \/ Crash \/ Serve
    BY <1>3 DEF Claim, StartMaintenance, Snapshot, Boot, Crash, Serve
<1> QED BY <1>1, <1>2, <1>3 DEF Next

\* Time changes neither what a directory is nor how many there are.
LEMMA AgedSame ==
    ASSUME NEW S \in SUBSET Artifacts, \A c, d \in S : c.id = d.id => c = d
    PROVE  /\ \A t \in Aged(S) : \E c \in S :
                t.id = c.id /\ t.scope = c.scope /\ t.content = c.content
           /\ \A c \in S : \E t \in Aged(S) :
                t.id = c.id /\ t.scope = c.scope /\ t.content = c.content
           /\ \A t, u \in Aged(S) : t.id = u.id => t = u
           /\ IsFiniteSet(S) => IsFiniteSet(Aged(S)) /\ Cardinality(Aged(S)) = Cardinality(S)
<1> DEFINE Age(c) == [c EXCEPT !.age = Older(@)]
<1>1. \A c \in S : Age(c).id = c.id /\ Age(c).scope = c.scope /\ Age(c).content = c.content
    BY DEF Artifacts
<1>2. Aged(S) = {Age(c) : c \in S}
    BY DEF Aged
<1> HIDE DEF Age
<1>3. \A t, u \in Aged(S) : t.id = u.id => t = u
    BY <1>1, <1>2
<1>4. ASSUME IsFiniteSet(S)
      PROVE  IsFiniteSet(Aged(S)) /\ Cardinality(Aged(S)) = Cardinality(S)
    <2> DEFINE f == [c \in S |-> Age(c)]
    <2>1. f \in Bijection(S, Aged(S))
        <3>1. f \in Injection(S, Aged(S))
            BY <1>1, <1>2 DEF Injection, IsInjective
        <3>2. f \in Surjection(S, Aged(S))
            BY <1>2 DEF Surjection
        <3> QED BY <3>1, <3>2 DEF Bijection
    <2> QED BY <1>4, <2>1, FS_Bijection DEF ExistsBijection
<1> QED BY <1>1, <1>2, <1>3, <1>4

\* A directory has an ID of its own, also across the rename of a commit.
LEMMA DistinctStep ==
    ASSUME Shape, Phases, Distinct, Next
    PROVE  Distinct'
<1> USE DEF Distinct, Directories
<1>1. CASE BuildCandidate
    <2>1. PICK s \in todo, id \in ArtifactIds :
            /\ Unused(id)
            /\ candidates' = candidates \cup
                 {[id |-> id, scope |-> s, content |-> final[s], age |-> 0]}
        BY <1>1 DEF BuildCandidate
    <2> QED BY <1>1, <2>1 DEF BuildCandidate, Unused
<1>2. CASE CommitCandidate
    BY <1>2 DEF CommitCandidate
<1>3. CASE DiscardCandidates
    BY <1>3 DEF DiscardCandidates
<1>4. CASE Maintain /\ PruneIndexes
    BY <1>4 DEF PruneIndexes
<1>5. CASE Tick
    <2>1. candidates' = Aged(candidates) /\ artifacts' = Aged(artifacts)
        BY <1>5 DEF Tick, Aged
    <2>2. candidates \in SUBSET Artifacts /\ artifacts \in SUBSET Artifacts
        BY DEF Shape
    <2>3. \A d, e \in Directories' : d.id = e.id => d = e
        <3>1. Directories' = Aged(Directories) /\ Directories \in SUBSET Artifacts
            BY <2>1, <2>2 DEF Aged
        <3> HIDE DEF Directories
        <3> QED BY <3>1, AgedSame
    <2>4. candidates' \cap artifacts' = {}
        <3> SUFFICES ASSUME NEW t \in candidates', t \in artifacts' PROVE FALSE
            OBVIOUS
        <3>1. PICK c \in candidates : t.id = c.id
            BY <2>1, <2>2, AgedSame
        <3>2. PICK a \in artifacts : t.id = a.id
            BY <2>1, <2>2, AgedSame
        <3> QED BY <3>1, <3>2
    <2> QED BY <2>3, <2>4
<1>6. CASE UNCHANGED <<candidates, artifacts>>
    BY <1>6
<1> QED BY <1>1, <1>2, <1>3, <1>4, <1>5, <1>6, DirectorySteps DEF BuildStranded

\* The index store holds finitely many directories.
LEMMA FiniteIndexesStep ==
    ASSUME Shape, Distinct, FiniteIndexes, Next
    PROVE  FiniteIndexes'
<1> USE DEF FiniteIndexes
<1>1. CASE BuildCandidate
    <2>1. \E c : candidates' = candidates \cup {c}
        BY <1>1 DEF BuildCandidate
    <2> QED BY <1>1, <2>1, FS_AddElement DEF BuildCandidate
<1>2. CASE CommitCandidate
    BY <1>2, FS_AddElement, FS_RemoveElement DEF CommitCandidate
<1>3. CASE DiscardCandidates
    <2>1. candidates' \in SUBSET candidates
        BY <1>3 DEF DiscardCandidates
    <2> QED BY <1>3, <2>1, FS_Subset DEF DiscardCandidates
<1>4. CASE Maintain /\ PruneIndexes
    BY <1>4, FS_RemoveElement DEF PruneIndexes
<1>5. CASE Tick
    BY <1>5, AgedSame DEF Tick, Aged, Shape, Distinct, Directories
<1>6. CASE UNCHANGED <<candidates, artifacts>>
    BY <1>6
<1> QED BY <1>1, <1>2, <1>3, <1>4, <1>5, <1>6, DirectorySteps DEF BuildStranded

\* The byte counter of the index store follows every change of the disk, and
\* the quota bounds both.
LEMMA IndexesCountedStep ==
    ASSUME Shape, Phases, Distinct, FiniteIndexes, IndexesCounted, Next
    PROVE  IndexesCounted'
<1> USE DEF FiniteIndexes, IndexesCounted, IndexesOnDisk
<1>1. Cardinality(candidates) \in Nat /\ Cardinality(artifacts) \in Nat
    BY FS_CardinalityType
<1>2. CASE BuildCandidate
    <2>1. PICK s \in todo, id \in ArtifactIds :
            /\ Unused(id)
            /\ candidates' = candidates \cup
                 {[id |-> id, scope |-> s, content |-> final[s], age |-> 0]}
        BY <1>2 DEF BuildCandidate
    <2>2. [id |-> id, scope |-> s, content |-> final[s], age |-> 0] \notin candidates
        BY <2>1 DEF Unused
    <2>3. Cardinality(candidates') = Cardinality(candidates) + 1
        BY <2>1, <2>2, FS_AddElement
    <2>4. /\ artifacts' = artifacts /\ life' = life /\ life # "down"
          /\ indexUsed' = indexUsed + 1 /\ indexUsed + 1 <= IndexQuota
          /\ stranded' = stranded
        BY <1>2 DEF BuildCandidate, Outside, Phases
    <2> QED BY <1>1, <2>3, <2>4
<1>3. CASE CommitCandidate
    <2>1. PICK c \in candidates : candidates' = candidates \ {c} /\ artifacts' = artifacts \cup {c}
        BY <1>3 DEF CommitCandidate
    <2>2. c \notin artifacts
        BY <2>1 DEF Distinct
    <2>3. /\ Cardinality(candidates') = Cardinality(candidates) - 1
          /\ Cardinality(artifacts') = Cardinality(artifacts) + 1
        BY <2>1, <2>2, FS_AddElement, FS_RemoveElement
    <2>4. indexUsed' = indexUsed /\ stranded' = stranded /\ life' = life
        BY <1>3 DEF CommitCandidate, Outside
    <2> QED BY <1>1, <2>3, <2>4
<1>4. CASE DiscardCandidates
    <2> DEFINE Gone == {c \in candidates : c.id \in mine}
    <2>1. candidates' = candidates \ Gone /\ candidates \cap Gone = Gone
        BY <1>4 DEF DiscardCandidates
    <2>2. Gone \in SUBSET candidates
        OBVIOUS
    <2>3. Cardinality(Gone) \in Nat /\ Cardinality(Gone) <= Cardinality(candidates)
        BY <2>2, FS_Subset, FS_CardinalityType
    <2>4. /\ indexUsed' = indexUsed - Cardinality(Gone) /\ artifacts' = artifacts
          /\ life' = life /\ life # "down" /\ stranded' = stranded
        BY <1>4 DEF DiscardCandidates, Outside, Phases
    <2> HIDE DEF Gone
    <2>5. Cardinality(candidates \ Gone) = Cardinality(candidates) - Cardinality(candidates \cap Gone)
        <3>1. IsFiniteSet(candidates)
            OBVIOUS
        <3> HIDE DEF FiniteIndexes, IndexesCounted, IndexesOnDisk
        <3> QED BY ONLY <3>1, FS_Difference
    <2>6. Cardinality(candidates') = Cardinality(candidates) - Cardinality(Gone)
        BY <2>1, <2>5
    <2> QED BY <1>1, <2>3, <2>4, <2>6
<1>5. CASE Maintain /\ PruneIndexes
    <2>1. candidates' \in SUBSET candidates /\ artifacts' \in SUBSET artifacts
        BY <1>5 DEF PruneIndexes
    <2>2. /\ Cardinality(candidates') \in Nat /\ Cardinality(candidates') <= Cardinality(candidates)
          /\ Cardinality(artifacts') \in Nat /\ Cardinality(artifacts') <= Cardinality(artifacts)
        BY <2>1, FS_Subset, FS_CardinalityType
    <2>3. /\ indexUsed' = Cardinality(candidates') + Cardinality(artifacts')
          /\ stranded' = 0
        BY <1>5 DEF PruneIndexes
    <2> QED BY <1>1, <2>2, <2>3
<1>6. CASE Tick
    <2>1. candidates' = Aged(candidates) /\ artifacts' = Aged(artifacts)
        BY <1>6 DEF Tick, Aged
    <2>2. candidates \in SUBSET Artifacts /\ artifacts \in SUBSET Artifacts
        BY DEF Shape
    <2>3. Cardinality(candidates') = Cardinality(candidates)
        BY <2>1, <2>2, AgedSame DEF Distinct, Directories
    <2>4. Cardinality(artifacts') = Cardinality(artifacts)
        BY <2>1, <2>2, AgedSame DEF Distinct, Directories
    <2> QED BY <1>6, <2>3, <2>4 DEF Tick
<1>7. CASE UNCHANGED <<candidates, artifacts>> /\ Boot
    BY <1>1, <1>7 DEF Boot
<1>8. CASE UNCHANGED <<candidates, artifacts, indexUsed, stranded, life>>
    BY <1>8
<1>9. CASE UNCHANGED <<candidates, artifacts, indexUsed, stranded>> /\ (Crash \/ Serve)
    BY <1>9 DEF Crash, Serve
<1>10. CASE BuildStranded
    <2>1. /\ UNCHANGED <<candidates, artifacts, life>>
          /\ indexUsed' = indexUsed + 1 /\ stranded' = stranded + 1
        BY <1>10 DEF BuildStranded, Outside
    <2> QED BY <1>1, <2>1
<1> QED BY <1>2, <1>3, <1>4, <1>5, <1>6, <1>7, <1>8, <1>9, <1>10, DirectorySteps

-----------------------------------------------------------------------------
(* The files of the document store.                                        *)

\* As many files as batches.
LEMMA FilesOfScope ==
    ASSUME NEW s, NEW X
    PROVE  /\ IsFiniteSet({s} \X X) => IsFiniteSet(X)
           /\ IsFiniteSet(X) => /\ IsFiniteSet({s} \X X)
                                /\ Cardinality({s} \X X) = Cardinality(X)
<1> DEFINE f == [x \in X |-> <<s, x>>]
<1>1. f \in Injection(X, {s} \X X)
    BY DEF Injection, IsInjective
<1>2. f \in Surjection(X, {s} \X X)
    <2>1. \A t \in {s} \X X : t[2] \in X /\ f[t[2]] = t
        OBVIOUS
    <2>2. f \in [X -> {s} \X X]
        OBVIOUS
    <2> QED BY <2>1, <2>2 DEF Surjection
<1>3. f \in Bijection(X, {s} \X X)
    BY <1>1, <1>2 DEF Bijection
<1>4. IsFiniteSet({s} \X X) => IsFiniteSet(X)
    BY <1>1, FS_Injection
<1>5. IsFiniteSet(X) => IsFiniteSet({s} \X X) /\ Cardinality({s} \X X) = Cardinality(X)
    BY <1>3, FS_Bijection DEF ExistsBijection
<1> QED BY <1>4, <1>5

\* Replacing the batches of one scope changes the count by the difference.
LEMMA StagedFilesUpdate ==
    ASSUME NEW stg \in [Scopes -> SUBSET Batches], IsFiniteSet(StagedFiles(stg)),
           NEW s \in Scopes, NEW new \in SUBSET Batches, IsFiniteSet(new)
    PROVE  LET after == StagedFiles([stg EXCEPT ![s] = new])
           IN  /\ IsFiniteSet(stg[s]) /\ IsFiniteSet(after)
               /\ Cardinality(stg[s]) <= Cardinality(StagedFiles(stg))
               /\ Cardinality(after)
                    = Cardinality(StagedFiles(stg)) - Cardinality(stg[s]) + Cardinality(new)
<1> DEFINE files == StagedFiles(stg)
           here == {s} \X stg[s]
           rest == files \ here
           after == StagedFiles([stg EXCEPT ![s] = new])
<1>1. here \in SUBSET files
    BY DEF StagedFiles
<1>2. after = rest \cup ({s} \X new) /\ rest \cap ({s} \X new) = {}
    <2>1. rest = {f \in Scopes \X Batches : f[2] \in stg[f[1]] /\ f[1] # s}
        BY DEF StagedFiles
    <2>2. after = {f \in Scopes \X Batches :
                     (f[1] = s /\ f[2] \in new) \/ (f[1] # s /\ f[2] \in stg[f[1]])}
        BY DEF StagedFiles
    <2> HIDE DEF rest, after
    <2> QED BY <2>1, <2>2
<1>3. files \cap here = here
    BY <1>1
<1> HIDE DEF files, here, rest, after
<1>4. IsFiniteSet(files)
    BY DEF files
<1>5. IsFiniteSet(here) /\ Cardinality(here) <= Cardinality(files)
    BY <1>1, <1>4, FS_Subset
<1>6. IsFiniteSet(stg[s]) /\ Cardinality(here) = Cardinality(stg[s])
    <2>1. stg[s] \in SUBSET Batches /\ IsFiniteSet({s} \X stg[s])
        BY <1>5 DEF here
    <2> QED BY <2>1, FilesOfScope DEF here
<1>7. IsFiniteSet(rest) /\ Cardinality(rest) = Cardinality(files) - Cardinality(stg[s])
    <2>1. IsFiniteSet(rest) /\ Cardinality(rest) = Cardinality(files) - Cardinality(files \cap here)
        BY <1>4, FS_Difference DEF rest
    <2> QED BY <2>1, <1>3, <1>6
<1>8. IsFiniteSet({s} \X new) /\ Cardinality({s} \X new) = Cardinality(new)
    BY FilesOfScope
<1>9. /\ IsFiniteSet(after)
      /\ Cardinality(after) = Cardinality(rest) + Cardinality(new) - Cardinality({})
    <2> DEFINE added == {s} \X new
    <2>1. IsFiniteSet(rest) /\ IsFiniteSet(added)
        BY <1>7, <1>8
    <2> HIDE DEF added
    <2>2. /\ IsFiniteSet(rest \cup added)
          /\ Cardinality(rest \cup added) = Cardinality(rest) + Cardinality(added) - Cardinality(rest \cap added)
        BY <2>1, FS_Union
    <2> QED BY <1>2, <1>8, <2>2 DEF added
<1>10. Cardinality(after) = Cardinality(files) - Cardinality(stg[s]) + Cardinality(new)
    <2>1. /\ Cardinality(files) \in Nat /\ Cardinality(stg[s]) \in Nat
          /\ Cardinality(new) \in Nat
        BY <1>4, <1>6, FS_CardinalityType
    <2> QED BY <2>1, <1>7, <1>9, FS_EmptySet
<1> QED BY <1>5, <1>6, <1>9, <1>10 DEF files, after

\* A complete set of batches of one content has a file for every number.
LEMMA CompleteCount ==
    ASSUME Shape, Target \in Scopes, Complete, Verified
    PROVE  Cardinality(staging[Target]) = BatchCount
<1> DEFINE f == [i \in 0..BatchCount - 1 |-> [number |-> i, content |-> current.content]]
<1>1. \A b \in staging[Target] :
        b = [number |-> b.number, content |-> current.content] /\ b.number \in 0..BatchCount - 1
    BY DEF Shape, Batches, Verified
<1>2. \A i \in 0..BatchCount - 1 : [number |-> i, content |-> current.content] \in staging[Target]
    <2> SUFFICES ASSUME NEW i \in 0..BatchCount - 1
                 PROVE  [number |-> i, content |-> current.content] \in staging[Target]
        OBVIOUS
    <2>1. PICK b \in staging[Target] : b.number = i
        BY DEF Complete
    <2> QED BY <1>1, <2>1
<1>3. f \in Injection(0..BatchCount - 1, staging[Target])
    BY <1>2 DEF Injection, IsInjective
<1>4. f \in Surjection(0..BatchCount - 1, staging[Target])
    BY <1>1, <1>2 DEF Surjection
<1>5. IsFiniteSet(0..BatchCount - 1) /\ Cardinality(0..BatchCount - 1) = BatchCount
    <2>1. /\ IsFiniteSet(0..BatchCount - 1)
          /\ Cardinality(0..BatchCount - 1) =
                IF 0 > BatchCount - 1 THEN 0 ELSE (BatchCount - 1) - 0 + 1
        BY FS_Interval
    <2> QED BY <2>1
<1> HIDE DEF f
<1>6. f \in Bijection(0..BatchCount - 1, staging[Target])
    BY <1>3, <1>4 DEF Bijection
<1> QED BY <1>5, <1>6, FS_Bijection DEF ExistsBijection

\* Only these steps touch the files of the document store or their counter.
LEMMA DocumentSteps ==
    ASSUME Phases, Next
    PROVE  \/ StageNew /\ UNCHANGED <<life, current>>
                       /\ step = "staging" /\ step' # "clearing"
           \/ (FinalizeWrite \/ FinalizeAgain \/ ClearStaging) /\ UNCHANGED <<life, current>>
           \/ Maintain /\ PruneDocuments /\ UNCHANGED <<life, step>>
           \/ Boot /\ UNCHANGED <<staging, final, step>>
           \/ Tick \/ Crash
           \/ /\ UNCHANGED <<staging, final, documentsUsed>>
              /\ step # "clearing" /\ step' # "clearing"
              /\ life' # "down" => life # "down"
<1> USE DEF documents, indexes, runner, upkeep, Outside
<1>1. CASE StageNew
    BY <1>1 DEF StageNew, Reach, Raise
<1>2. CASE StageAgain \/ FinalizeRefused \/ BuildRefused \/ BuildStranded \/ PublishFails
             \/ AnswerQuery
    BY <1>2 DEF StageAgain, FinalizeRefused, BuildRefused, BuildStranded, PublishFails,
                AnswerQuery, Reach, Raise
<1>3. CASE BuildCandidate \/ CommitCandidate \/ ActivateIndexes \/ DiscardCandidates \/ Conclude
    BY <1>3 DEF BuildCandidate, CommitCandidate, ActivateIndexes, DiscardCandidates, Conclude,
                Reach
<1>4. CASE FinalizeWrite \/ FinalizeAgain \/ ClearStaging
    <2>1. UNCHANGED <<life, current>>
        BY <1>4 DEF FinalizeWrite, FinalizeAgain, ClearStaging, Reach
    <2> QED BY <1>4, <2>1
<1>5. CASE \E o \in Operations : Claim(o)
    <2>1. PICK o \in Operations : Claim(o)
        BY <1>5
    <2> QED BY <2>1, KindOfOperation DEF Claim, FirstStep
<1>6. CASE Maintain
    BY <1>6 DEF Maintain, PruneDocuments, PruneIndexes, RoomDone, Phases
<1>7. CASE StartMaintenance \/ Serve
    BY <1>7 DEF StartMaintenance, Serve, Phases
<1>8. CASE Boot \/ Tick \/ Crash
    BY <1>8 DEF Boot
<1> QED BY <1>1, <1>2, <1>3, <1>4, <1>5, <1>6, <1>7, <1>8 DEF Next, Execute

\* A finalized document weighs as much as its batches.
LEMMA DocumentWeight ==
    ASSUME NEW k \in Nat
    PROVE  /\ BatchCount * k \in Nat
           /\ BatchCount * (k + 1) = BatchCount * k + BatchCount
OBVIOUS

\* A document more, or less.
LEMMA FinalScopesUpdate ==
    ASSUME NEW fin \in [Scopes -> Contents \cup {NoContent}], IsFiniteSet(FinalScopes(fin)),
           NEW s \in Scopes
    PROVE  /\ \A c \in Contents : fin[s] = NoContent =>
                /\ IsFiniteSet(FinalScopes([fin EXCEPT ![s] = c]))
                /\ Cardinality(FinalScopes([fin EXCEPT ![s] = c]))
                     = Cardinality(FinalScopes(fin)) + 1
           /\ fin[s] # NoContent =>
                /\ IsFiniteSet(FinalScopes([fin EXCEPT ![s] = NoContent]))
                /\ Cardinality(FinalScopes([fin EXCEPT ![s] = NoContent])) + 1
                     = Cardinality(FinalScopes(fin))
<1>1. ASSUME NEW c \in Contents, fin[s] = NoContent
      PROVE  /\ IsFiniteSet(FinalScopes([fin EXCEPT ![s] = c]))
             /\ Cardinality(FinalScopes([fin EXCEPT ![s] = c]))
                  = Cardinality(FinalScopes(fin)) + 1
    <2>1. FinalScopes([fin EXCEPT ![s] = c]) = FinalScopes(fin) \cup {s}
        BY <1>1 DEF FinalScopes
    <2>2. s \notin FinalScopes(fin)
        BY <1>1 DEF FinalScopes
    <2>3. /\ IsFiniteSet(FinalScopes(fin) \cup {s})
          /\ Cardinality(FinalScopes(fin) \cup {s}) = Cardinality(FinalScopes(fin)) + 1
        BY <2>2, FS_AddElement
    <2> QED BY <2>1, <2>3
<1>2. ASSUME fin[s] # NoContent
      PROVE  /\ IsFiniteSet(FinalScopes([fin EXCEPT ![s] = NoContent]))
             /\ Cardinality(FinalScopes([fin EXCEPT ![s] = NoContent])) + 1
                  = Cardinality(FinalScopes(fin))
    <2> DEFINE fewer == FinalScopes([fin EXCEPT ![s] = NoContent])
    <2>1. fewer = FinalScopes(fin) \ {s}
        BY DEF FinalScopes
    <2>2. s \in FinalScopes(fin)
        BY <1>2 DEF FinalScopes
    <2>3. /\ IsFiniteSet(FinalScopes(fin) \ {s})
          /\ Cardinality(FinalScopes(fin) \ {s}) = Cardinality(FinalScopes(fin)) - 1
        BY <2>2, FS_RemoveElement
    <2>4. Cardinality(FinalScopes(fin)) \in Nat
        BY FS_CardinalityType
    <2> HIDE DEF fewer
    <2>5. IsFiniteSet(fewer) /\ Cardinality(fewer) + 1 = Cardinality(FinalScopes(fin))
        BY <2>1, <2>3, <2>4
    <2> QED BY <2>5 DEF fewer
<1> QED BY <1>1, <1>2

\* The byte counter of the document store follows every change of the disk, also
\* the removal that goes file by file, and the quota bounds both.
LEMMA DocumentsCountedStep ==
    ASSUME Shape, Phases, FiniteDocuments, DocumentsCounted, Next
    PROVE  FiniteDocuments' /\ DocumentsCounted'
<1> DEFINE files == Cardinality(StagedFiles(staging))
           scopes == Cardinality(FinalScopes(final))
<1>1. files \in Nat /\ scopes \in Nat /\ BatchCount * scopes \in Nat
    BY FS_CardinalityType, DocumentWeight DEF FiniteDocuments
<1>2. DocumentsOnDisk(staging, final) = files + BatchCount * scopes
    BY DEF DocumentsOnDisk
<1>3. staging \in [Scopes -> SUBSET Batches] /\ final \in [Scopes -> Contents \cup {NoContent}]
    BY DEF Shape
<1>4. CASE StageNew /\ UNCHANGED <<life, current>> /\ step = "staging" /\ step' # "clearing"
    <2>1. CASE documentsUsed + 1 > DocumentQuota
        <3>1. UNCHANGED documents
            BY <1>4, <2>1 DEF StageNew
        <3> QED BY <1>4, <3>1 DEF DocumentsCounted, FiniteDocuments, documents, HalfCleared
    <2>2. CASE ~(documentsUsed + 1 > DocumentQuota)
        <3>1. current \in BatchOps /\ life = "up"
            BY <1>4 DEF Phases, StepTypes
        <3>2. Target \in Scopes /\ ThisBatch \in Batches
            BY <3>1, OneScope DEF ThisBatch, Batches, BatchOps
        <3>3. ThisBatch \notin staging[Target]
            BY <1>4 DEF StageNew, StagedHere, ThisBatch
        <3> DEFINE new == staging[Target] \cup {ThisBatch}
        <3>4. new \in SUBSET Batches /\ staging' = [staging EXCEPT ![Target] = new]
              /\ final' = final /\ documentsUsed' = documentsUsed + 1
            BY <1>3, <1>4, <2>2, <3>2 DEF StageNew
        <3>5. IsFiniteSet(staging[Target])
            BY <1>3, <3>2, FS_EmptySet, StagedFilesUpdate DEF FiniteDocuments
        <3>6. IsFiniteSet(new) /\ Cardinality(new) = Cardinality(staging[Target]) + 1
            BY <3>3, <3>5, FS_AddElement
        <3> HIDE DEF new
        <3>7. /\ IsFiniteSet(StagedFiles(staging'))
              /\ Cardinality(StagedFiles(staging'))
                    = files - Cardinality(staging[Target]) + Cardinality(new)
            BY <1>3, <3>2, <3>4, <3>6, StagedFilesUpdate DEF FiniteDocuments
        <3>8. Cardinality(StagedFiles(staging')) = files + 1
            BY <1>1, <3>5, <3>6, <3>7, FS_CardinalityType
        <3>9. DocumentsOnDisk(staging', final') = files + 1 + BatchCount * scopes
            BY <3>4, <3>8 DEF DocumentsOnDisk
        <3>10. documentsUsed = files + BatchCount * scopes
            BY <1>1, <1>2, <1>4, <3>1 DEF DocumentsCounted, HalfCleared
        <3>11. DocumentsCounted'
            <4>1. documentsUsed' \in Nat
                BY <3>4 DEF DocumentsCounted
            <4>2. /\ DocumentsOnDisk(staging', final') <= DocumentQuota
                  /\ documentsUsed' = DocumentsOnDisk(staging', final')
                BY <1>1, <2>2, <3>4, <3>9, <3>10
            <4> QED BY <1>4, <4>1, <4>2 DEF DocumentsCounted, HalfCleared
        <3> QED BY <3>4, <3>7, <3>11 DEF FiniteDocuments
    <2> QED BY <2>1, <2>2
<1>5. CASE FinalizeWrite /\ UNCHANGED <<life, current>>
    <2>1. current \in FinalizeOps /\ life = "up" /\ step = "checking" /\ step' = "clearing"
        BY <1>5 DEF FinalizeWrite, Reach, Phases, StepTypes
    <2>2. Target \in Scopes /\ current.content \in Contents
        BY <2>1, OneScope DEF FinalizeOps
    <2>3. /\ final' = [final EXCEPT ![Target] = current.content] /\ staging' = staging
          /\ final[Target] = NoContent
          /\ documentsUsed' = documentsUsed + BatchCount
          /\ documentsUsed + BatchCount <= DocumentQuota
        BY <1>5 DEF FinalizeWrite
    <2>4. IsFiniteSet(FinalScopes(final')) /\ Cardinality(FinalScopes(final')) = scopes + 1
        BY <1>3, <2>2, <2>3, FinalScopesUpdate DEF FiniteDocuments
    <2>5. DocumentsOnDisk(staging', final') = files + (BatchCount * scopes + BatchCount)
        BY <1>1, <2>3, <2>4, DocumentWeight DEF DocumentsOnDisk
    <2>6. documentsUsed = files + BatchCount * scopes
        BY <1>1, <1>2, <2>1 DEF DocumentsCounted, HalfCleared
    <2>7. Cardinality(staging[Target]) = BatchCount
        BY <1>5, <2>2, CompleteCount DEF FinalizeWrite
    <2>8. Target' = Target
        BY <1>5 DEF Target
    <2>9. DocumentsCounted'
        <3>1. Cardinality((staging[Target])') = BatchCount /\ HalfCleared' = 0
            BY <2>1, <2>3, <2>7, <2>8 DEF HalfCleared
        <3>2. documentsUsed' \in Nat
            BY <2>3 DEF DocumentsCounted
        <3>3. /\ DocumentsOnDisk(staging', final') <= DocumentQuota
              /\ documentsUsed' = DocumentsOnDisk(staging', final')
            BY <1>1, <2>3, <2>5, <2>6
        <3> QED BY <3>1, <3>2, <3>3 DEF DocumentsCounted
    <2> QED BY <2>3, <2>4, <2>9 DEF FiniteDocuments
<1>6. CASE FinalizeAgain /\ UNCHANGED <<life, current>>
    <2>1. current \in FinalizeOps /\ step = "checking" /\ step' = "clearing"
        BY <1>6 DEF FinalizeAgain, Reach, Phases, StepTypes
    <2>2. UNCHANGED documents
        BY <1>6 DEF FinalizeAgain
    <2>3. Cardinality(staging[Target]) = BatchCount
        BY <1>6, <2>1, OneScope, CompleteCount DEF FinalizeAgain
    <2>4. Target' = Target
        BY <1>6 DEF Target
    <2>5. Cardinality((staging[Target])') = BatchCount /\ HalfCleared' = 0 /\ HalfCleared = 0
        BY <2>1, <2>2, <2>3, <2>4 DEF HalfCleared, documents
    <2> QED BY <1>6, <2>1, <2>2, <2>5 DEF DocumentsCounted, FiniteDocuments, documents
<1>7. CASE ClearStaging /\ UNCHANGED <<life, current>>
    <2>1. current \in FinalizeOps /\ life = "up" /\ step = "clearing"
        BY <1>7 DEF ClearStaging, Phases, StepTypes
    <2>2. Target \in Scopes
        BY <2>1, OneScope
    <2>3. PICK rest \in SUBSET staging[Target] :
            /\ rest # staging[Target]
            /\ staging' = [staging EXCEPT ![Target] = rest]
            /\ IF rest = {} THEN Reach("done") /\ documentsUsed' = documentsUsed - BatchCount
                            ELSE Reach("clearing") /\ UNCHANGED documentsUsed
        BY <1>7 DEF ClearStaging
    <2>4. final' = final /\ Target' = Target
        BY <1>7 DEF ClearStaging, Target
    <2>5. IsFiniteSet(staging[Target]) /\ Cardinality(staging[Target]) <= files
        BY <1>3, <2>2, FS_EmptySet, StagedFilesUpdate DEF FiniteDocuments
    <2>6. IsFiniteSet(rest) /\ Cardinality(rest) <= Cardinality(staging[Target])
        BY <2>5, FS_Subset
    <2>7. rest \in SUBSET Batches
        BY <1>3, <2>2
    <2>8. /\ IsFiniteSet(StagedFiles(staging'))
          /\ Cardinality(StagedFiles(staging'))
                = files - Cardinality(staging[Target]) + Cardinality(rest)
        BY <1>3, <2>2, <2>3, <2>6, <2>7, StagedFilesUpdate DEF FiniteDocuments
    <2>9. DocumentsOnDisk(staging', final')
            = files - Cardinality(staging[Target]) + Cardinality(rest) + BatchCount * scopes
        BY <2>4, <2>8 DEF DocumentsOnDisk
    <2>10. /\ documentsUsed = files + BatchCount * scopes
                                + (BatchCount - Cardinality(staging[Target]))
           /\ Cardinality(staging[Target]) <= BatchCount
           /\ files + BatchCount * scopes <= DocumentQuota
        BY <1>1, <1>2, <2>1 DEF DocumentsCounted, HalfCleared
    <2>11. /\ Cardinality(staging[Target]) \in Nat /\ Cardinality(rest) \in Nat
           /\ rest = {} => Cardinality(rest) = 0
        BY <2>5, <2>6, FS_CardinalityType, FS_EmptySet
    <2>12. (staging[Target])' = rest
        BY <1>3, <2>2, <2>3, <2>4
    <2>13. DocumentsCounted'
        <3>1. DocumentsOnDisk(staging', final') <= DocumentQuota
            BY <1>1, <2>6, <2>9, <2>10, <2>11
        <3>2. CASE rest = {}
            <4>1. step' = "done" /\ documentsUsed' = documentsUsed - BatchCount
                BY <2>3, <3>2 DEF Reach
            <4>2. documentsUsed' = DocumentsOnDisk(staging', final') /\ documentsUsed' \in Nat
                BY <1>1, <2>5, <2>9, <2>10, <2>11, <3>2, <4>1
            <4> QED BY <3>1, <4>1, <4>2 DEF DocumentsCounted, HalfCleared
        <3>3. CASE rest # {}
            <4>1. step' = "clearing" /\ documentsUsed' = documentsUsed
                BY <2>3, <3>3 DEF Reach
            <4>2. /\ documentsUsed' = DocumentsOnDisk(staging', final')
                                        + (BatchCount - Cardinality(rest))
                  /\ documentsUsed' \in Nat /\ Cardinality(rest) <= BatchCount
                BY <1>1, <2>5, <2>6, <2>9, <2>10, <2>11, <4>1
            <4> QED BY <2>12, <3>1, <4>1, <4>2 DEF DocumentsCounted, HalfCleared
        <3> QED BY <3>2, <3>3
    <2> QED BY <2>4, <2>8, <2>13 DEF FiniteDocuments
<1>8. CASE Maintain /\ PruneDocuments /\ UNCHANGED <<life, step>>
    <2>1. step # "clearing" /\ step' # "clearing"
        BY <1>8 DEF PruneDocuments, Phases
    <2>2. /\ IsFiniteSet(StagedFiles(staging')) /\ IsFiniteSet(FinalScopes(final'))
          /\ Cardinality(StagedFiles(staging')) \in Nat
          /\ Cardinality(StagedFiles(staging')) <= files
          /\ \/ Cardinality(FinalScopes(final')) = scopes
             \/ Cardinality(FinalScopes(final')) \in Nat
                /\ Cardinality(FinalScopes(final')) + 1 = scopes
        <3>1. CASE maint = "staging"
            <4>1. PICK s \in Scopes : staging' = [staging EXCEPT ![s] = {}] /\ final' = final
                BY <1>8, <3>1 DEF PruneDocuments, StaleStaging
            <4>2. {} \in SUBSET Batches /\ IsFiniteSet({}) /\ Cardinality({}) = 0
                BY FS_EmptySet
            <4>3. /\ IsFiniteSet(staging[s]) /\ IsFiniteSet(StagedFiles(staging'))
                  /\ Cardinality(StagedFiles(staging')) = files - Cardinality(staging[s]) + 0
                  /\ Cardinality(staging[s]) <= files
                BY <1>3, <4>1, <4>2, StagedFilesUpdate DEF FiniteDocuments
            <4> QED BY <1>1, <4>1, <4>3, FS_CardinalityType DEF FiniteDocuments
        <3>2. CASE maint = "finalized"
            <4>1. PICK s \in Scopes : /\ final[s] # NoContent /\ staging' = staging
                                      /\ final' = [final EXCEPT ![s] = NoContent]
                BY <1>8, <3>2 DEF PruneDocuments, StaleFinal
            <4>2. /\ IsFiniteSet(FinalScopes(final'))
                  /\ Cardinality(FinalScopes(final')) + 1 = scopes
                BY <1>3, <4>1, FinalScopesUpdate DEF FiniteDocuments
            <4> QED BY <1>1, <4>1, <4>2, FS_CardinalityType DEF FiniteDocuments
        <3> QED BY <1>8, <3>1, <3>2 DEF PruneDocuments
    <2> DEFINE left == Cardinality(FinalScopes(final'))
    <2>3. left \in Nat /\ BatchCount * left \in Nat /\ BatchCount * left <= BatchCount * scopes
        BY <1>1, <2>2, DocumentWeight
    <2>4. documentsUsed' = DocumentsOnDisk(staging', final')
        BY <1>8 DEF PruneDocuments
    <2>5. DocumentsOnDisk(staging', final') \in Nat
          /\ DocumentsOnDisk(staging', final') <= DocumentsOnDisk(staging, final)
        <3>1. DocumentsOnDisk(staging', final')
                = Cardinality(StagedFiles(staging')) + BatchCount * left
            BY DEF DocumentsOnDisk
        <3> HIDE DEF left
        <3> QED BY <1>1, <1>2, <2>2, <2>3, <3>1
    <2>6. DocumentsCounted'
        <3>1. DocumentsOnDisk(staging', final') <= DocumentQuota
            BY <1>1, <1>2, <2>5 DEF DocumentsCounted
        <3> QED BY <2>1, <2>4, <2>5, <3>1 DEF DocumentsCounted, HalfCleared
    <2> QED BY <2>2, <2>6 DEF FiniteDocuments
<1>9. CASE Boot /\ UNCHANGED <<staging, final, step>>
    <2>1. step # "clearing"
        BY <1>9 DEF Boot, Phases
    <2>2. documentsUsed' = DocumentsOnDisk(staging, final)
        BY <1>9 DEF Boot
    <2>3. DocumentsOnDisk(staging, final) \in Nat
        BY <1>1, <1>2
    <2>4. DocumentsOnDisk(staging', final') = DocumentsOnDisk(staging, final)
        BY <1>9 DEF DocumentsOnDisk
    <2> QED BY <1>9, <2>1, <2>2, <2>3, <2>4 DEF DocumentsCounted, FiniteDocuments, HalfCleared
<1>10. CASE Tick
    BY <1>10 DEF Tick, runner, DocumentsCounted, FiniteDocuments, HalfCleared, Target
<1>11. CASE Crash
    BY <1>11 DEF Crash, documents, DocumentsCounted, FiniteDocuments, HalfCleared
<1>12. CASE /\ UNCHANGED <<staging, final, documentsUsed>>
            /\ step # "clearing" /\ step' # "clearing"
            /\ life' # "down" => life # "down"
    BY <1>12 DEF DocumentsCounted, FiniteDocuments, HalfCleared
<1> QED BY <1>4, <1>5, <1>6, <1>7, <1>8, <1>9, <1>10, <1>11, <1>12, DocumentSteps

-----------------------------------------------------------------------------
(* A rebuild and what it has built.                                        *)

\* Only these steps write the catalog.
LEMMA CatalogSteps ==
    ASSUME Phases, Next
    PROVE  \/ UNCHANGED catalog
           \/ ActivateIndexes \/ Tick
           \/ Snapshot /\ step = "idle" /\ interrupted = NoOperation
              /\ UNCHANGED <<documents, runner>>
<1> USE DEF indexes, Outside
<1>1. CASE Execute
    BY <1>1 DEF Execute, StageAgain, StageNew, FinalizeRefused, FinalizeAgain, FinalizeWrite,
                ClearStaging, BuildRefused, BuildCandidate, BuildStranded, CommitCandidate,
                PublishFails, DiscardCandidates, AnswerQuery, Conclude
<1>2. CASE Maintain
    BY <1>2 DEF Maintain, PruneDocuments, PruneIndexes, RoomDone
<1>3. CASE (\E o \in Operations : Claim(o)) \/ Boot \/ Crash
    BY <1>3 DEF Claim, Boot, Crash
<1>4. CASE StartMaintenance \/ Serve
    BY <1>4 DEF StartMaintenance, Serve, Phases
<1> QED BY <1>1, <1>2, <1>3, <1>4 DEF Next

\* Time leaves a pointer where it points.
LEMMA TickCatalog ==
    ASSUME Shape, Tick, NEW n \in Notebooks
    PROVE  /\ catalog[n] = NoPointer => catalog'[n] = NoPointer
           /\ catalog[n] # NoPointer =>
                /\ catalog'[n] # NoPointer
                /\ catalog'[n].artifact = catalog[n].artifact
                /\ catalog'[n].revision = catalog[n].revision
<1>1. CASE catalog[n] = NoPointer
    BY <1>1 DEF Tick, Pointed
<1>2. CASE catalog[n] # NoPointer
    <2>1. catalog[n] \in Pointers
        BY <1>2 DEF Shape
    <2>2. catalog'[n] = [catalog[n] EXCEPT !.age = Older(@)]
        BY <1>2 DEF Tick, Pointed
    <2>3. catalog'[n] \in Pointers
        BY <2>1, <2>2, OlderType DEF Pointers
    <2> QED BY <1>2, <2>1, <2>2, <2>3 DEF Pointers
<1> QED BY <1>1, <1>2

\* Only these steps leave a rebuild before its activation.
LEMMA PublishingSteps ==
    ASSUME Phases, Next, step' \in Publishing
    PROVE  \/ \E o \in Operations : Claim(o)
           \/ BuildCandidate \/ CommitCandidate
           \/ Tick /\ step \in Publishing
<1> USE DEF Publishing, Reach, Raise, runner
<1>1. CASE Execute
    <2>1. ~(StageAgain \/ StageNew \/ FinalizeRefused \/ BuildRefused \/ BuildStranded)
        BY DEF StageAgain, StageNew, FinalizeRefused, BuildRefused, BuildStranded
    <2>2. ~(FinalizeAgain \/ FinalizeWrite \/ ClearStaging \/ ActivateIndexes)
        BY DEF FinalizeAgain, FinalizeWrite, ClearStaging, ActivateIndexes
    <2>3. ~(PublishFails \/ DiscardCandidates \/ AnswerQuery \/ Conclude)
        BY DEF PublishFails, DiscardCandidates, AnswerQuery, Conclude
    <2> QED BY <1>1, <2>1, <2>2, <2>3 DEF Execute
<1>2. ~Maintain
    BY DEF Maintain, PruneDocuments, PruneIndexes, RoomDone, Phases
<1>3. ~(StartMaintenance \/ Boot \/ Crash \/ Serve)
    BY DEF StartMaintenance, Boot, Crash, Serve, Phases
<1>4. CASE Tick
    BY <1>4 DEF Tick
<1> QED BY <1>1, <1>2, <1>3, <1>4 DEF Next

\* What a rebuild has built stays exactly its own: one directory for each scope
\* it reached, with the document of that scope, and no pointer names it yet.
LEMMA WorkStep ==
    ASSUME Shape, Phases, Distinct, Work, Next
    PROVE  Work'
<1> SUFFICES ASSUME step' \in Publishing PROVE Work'
    BY DEF Work
<1>1. CASE \E o \in Operations : Claim(o)
    <2>1. PICK o \in Operations : Claim(o)
        BY <1>1
    <2>2. mine' = {} /\ todo' = current'.scopes /\ step' \notin {"committing", "activating"}
        BY <2>1, KindOfOperation DEF Claim, FirstStep, Phases
    <2>3. Mine' = {} /\ Reached' = {}
        BY <2>2 DEF Mine, Reached
    <2> QED BY <2>2, <2>3 DEF Work, Publishing
<1>2. CASE BuildCandidate
    <2>1. PICK s \in todo, id \in ArtifactIds :
            /\ final[s] # NoContent
            /\ Unused(id)
            /\ candidates' = candidates \cup
                 {[id |-> id, scope |-> s, content |-> final[s], age |-> 0]}
            /\ mine' = mine \cup {id}
            /\ todo' = todo \ {s}
        BY <1>2 DEF BuildCandidate
    <2> DEFINE new == [id |-> id, scope |-> s, content |-> final[s], age |-> 0]
    <2>2. /\ UNCHANGED <<final, artifacts, catalog, current>> /\ step = "building"
          /\ step' = IF todo' = {} THEN "committing" ELSE "building"
        BY <1>2 DEF BuildCandidate, Reach, documents
    <2>3. /\ Mine' = Mine \cup {new}
          /\ new \notin Mine /\ new.id = id /\ new.scope = s /\ new.content = final[s]
          /\ id \notin mine
        BY <2>1, <2>2 DEF Mine, Directories, Unused
    <2>4. s \in current.scopes /\ s \notin Reached /\ Reached' = Reached \cup {s}
        BY <2>1, <2>2 DEF Work, Publishing, Reached
    <2>5. \A n \in Pointed : catalog[n].artifact # id
        BY <2>1 DEF Unused
    <2> HIDE DEF new
    <2>6. /\ todo' \subseteq current'.scopes
          /\ \A d \in Mine' : d.scope \in Reached' /\ d.content = final'[d.scope]
                               /\ d.content # NoContent
          /\ \A t \in Reached' : \E d \in Mine' : d.scope = t
        BY <2>1, <2>2, <2>3, <2>4 DEF Work, Publishing
    <2>7. \A d, e \in Mine' : d.scope = e.scope => d = e
        BY <2>2, <2>3, <2>4 DEF Work, Publishing
    <2>8. \A i \in mine' : \E d \in Mine' : d.id = i
        BY <2>1, <2>2, <2>3 DEF Work, Publishing
    <2>9. \A n \in Pointed' : catalog'[n].artifact \notin mine'
        BY <2>1, <2>2, <2>5 DEF Work, Publishing, Pointed
    <2> QED BY <2>2, <2>6, <2>7, <2>8, <2>9 DEF Work
<1>3. CASE CommitCandidate
    <2>1. /\ Directories' = Directories
          /\ UNCHANGED <<final, catalog, current, todo, mine>> /\ step = "committing"
          /\ step' = IF \E c \in candidates' : c.id \in mine THEN "committing" ELSE "activating"
        BY <1>3 DEF CommitCandidate, Directories, Reach, documents
    <2>2. Mine' = Mine /\ Reached' = Reached /\ Pointed' = Pointed
        BY <2>1 DEF Mine, Reached, Pointed
    <2>3. step' = "activating" => Mine' \subseteq artifacts'
        BY <2>1, <2>2 DEF Mine, Directories
    <2>4. todo' = {}
        BY <2>1 DEF Work, Publishing
    <2> HIDE DEF Mine, Reached, Pointed, Directories
    <2> QED BY <2>1, <2>2, <2>3, <2>4 DEF Work, Publishing
<1>4. CASE Tick /\ step \in Publishing
    <2>1. UNCHANGED <<final, current, todo, mine, step>>
        BY <1>4 DEF Tick, runner
    <2>2. Directories' = Aged(Directories)
        BY <1>4 DEF Tick, Aged, Directories
    <2>3. /\ Directories \in SUBSET Artifacts
          /\ \A d, e \in Directories : d.id = e.id => d = e
        BY DEF Shape, Distinct, Directories
    <2>4. /\ \A t \in Directories' : \E c \in Directories :
                t.id = c.id /\ t.scope = c.scope /\ t.content = c.content
          /\ \A c \in Directories : \E t \in Directories' :
                t.id = c.id /\ t.scope = c.scope /\ t.content = c.content
          /\ \A t, u \in Directories' : t.id = u.id => t = u
        BY <2>2, <2>3, AgedSame
    <2>5. /\ \A t \in Mine' : \E c \in Mine :
                t.id = c.id /\ t.scope = c.scope /\ t.content = c.content
          /\ \A c \in Mine : \E t \in Mine' :
                t.id = c.id /\ t.scope = c.scope /\ t.content = c.content
        BY <2>1, <2>4 DEF Mine
    <2>6. Reached' = Reached
        BY <2>1 DEF Reached
    <2>7. /\ todo' \subseteq current'.scopes
          /\ \A d \in Mine' : d.scope \in Reached' /\ d.content = final'[d.scope]
                               /\ d.content # NoContent
          /\ \A t \in Reached' : \E d \in Mine' : d.scope = t
          /\ \A i \in mine' : \E d \in Mine' : d.id = i
        BY <1>4, <2>1, <2>5, <2>6 DEF Work
    <2>8. \A d, e \in Mine' : d.scope = e.scope => d = e
        <3> SUFFICES ASSUME NEW d \in Mine', NEW e \in Mine', d.scope = e.scope PROVE d = e
            OBVIOUS
        <3>1. PICK c \in Mine : d.id = c.id /\ d.scope = c.scope
            BY <2>5
        <3>2. PICK b \in Mine : e.id = b.id /\ e.scope = b.scope
            BY <2>5
        <3>3. \A p, q \in Mine : p.scope = q.scope => p = q
            BY <1>4 DEF Work
        <3>4. c = b
            BY <3>1, <3>2, <3>3
        <3> QED BY <2>4, <3>1, <3>2, <3>4 DEF Mine
    <2>9. \A n \in Pointed' : catalog'[n].artifact \notin mine'
        BY <1>4, <2>1, TickCatalog DEF Work, Pointed
    <2>10. step' = "activating" => Mine' \subseteq artifacts'
        <3> SUFFICES ASSUME step = "activating", NEW t \in Mine' PROVE t \in artifacts'
            BY <2>1
        <3>1. PICK c \in Mine : t.id = c.id
            BY <2>5
        <3>2. c \in artifacts
            BY <1>4, <3>1 DEF Work
        <3>3. PICK u \in artifacts' : u.id = c.id
            <4>1. artifacts' = Aged(artifacts) /\ artifacts \in SUBSET Artifacts
                BY <1>4 DEF Tick, Aged, Shape
            <4>2. \A d, e \in artifacts : d.id = e.id => d = e
                BY <2>3 DEF Directories
            <4> QED BY <3>2, <4>1, <4>2, AgedSame
        <3>4. t \in Directories' /\ u \in Directories'
            BY <3>3 DEF Mine, Directories
        <3> QED BY <2>4, <3>1, <3>3, <3>4
    <2>11. step' # "building" => todo' = {}
        BY <1>4, <2>1 DEF Work
    <2> HIDE DEF Mine, Reached, Pointed
    <2> QED BY <2>7, <2>8, <2>9, <2>10, <2>11 DEF Work
<1> QED BY <1>1, <1>2, <1>3, <1>4, PublishingSteps

-----------------------------------------------------------------------------
(* What the catalog refers to.                                             *)

\* A maintenance pass keeps what the pointers need, those of the snapshot it
\* was started with being all there are until it ends.
LEMMA KeptStep ==
    ASSUME Shape, Phases, Kept, Next
    PROVE  Kept'
<1> SUFFICES ASSUME maint' # "none" PROVE Kept'
    BY DEF Kept
<1> USE DEF Kept, Pointed, PointerScope
<1>1. CASE Snapshot
    <2>1. \A n \in Pointed' : /\ n \in Pointed /\ catalog[n].age <= Retention
                              /\ catalog'[n] = catalog[n]
        <3>1. \A n \in Pointed : catalog[n].age \in Nat
            BY DEF Shape, Pointers, Ages
        <3> QED BY <1>1, <3>1 DEF Snapshot
    <2>2. \A n \in Pointed : catalog[n].age <= Retention =>
            PointerScope(n) \in keepScopes' /\ catalog[n].artifact \in keepArtifacts'
        BY <1>1 DEF Snapshot
    <2> QED BY <2>1, <2>2
<1>2. CASE Maintain
    <2>1. maint # "none" /\ UNCHANGED <<catalog, keepScopes, keepArtifacts>>
        BY <1>2 DEF Maintain, PruneDocuments, PruneIndexes, RoomDone, upkeep, indexes
    <2> QED BY <2>1
<1>3. ~(Execute \/ Tick \/ Crash \/ Boot \/ \E o \in Operations : Claim(o))
    <2>1. ~(Tick \/ Crash \/ Boot \/ \E o \in Operations : Claim(o))
        BY DEF Tick, Crash, Boot, Claim, upkeep, Phases
    <2>2. Execute => step # "idle" /\ maint' = maint
        BY DEF Execute, StageAgain, StageNew, FinalizeRefused, FinalizeAgain, FinalizeWrite,
               ClearStaging, BuildRefused, BuildCandidate, BuildStranded, CommitCandidate,
               ActivateIndexes, PublishFails, DiscardCandidates, AnswerQuery, Conclude, Outside, upkeep
    <2> QED BY <2>1, <2>2 DEF Phases
<1>4. CASE Serve /\ UNCHANGED <<indexes, upkeep>>
    BY <1>4 DEF Serve, indexes, upkeep, Phases
<1>5. Serve => Snapshot \/ UNCHANGED <<indexes, upkeep>>
    BY DEF Serve
<1> QED BY <1>1, <1>2, <1>3, <1>4, <1>5 DEF Next, StartMaintenance

\* Every pointer keeps its artifact and its document.
LEMMA CatalogBackedStep ==
    ASSUME Shape, Phases, Distinct, Work, Kept, CatalogBacked, Next
    PROVE  CatalogBacked'
<1> USE DEF CatalogBacked, PointerScope, Pointed
<1>1. \A n \in Pointed : /\ catalog[n] \in Pointers
                         /\ PointerScope(n) \in Scopes
                         /\ final[PointerScope(n)] # NoContent
    <2> SUFFICES ASSUME NEW n \in Pointed
                 PROVE  /\ catalog[n] \in Pointers /\ PointerScope(n) \in Scopes
                        /\ final[PointerScope(n)] # NoContent
        OBVIOUS
    <2>1. catalog[n] \in Pointers
        BY DEF Shape
    <2>2. PICK a \in artifacts : a.content = final[PointerScope(n)]
        OBVIOUS
    <2> QED BY <2>1, <2>2 DEF Pointers, Scopes, Shape, Artifacts
<1>2. CASE ActivateIndexes
    <2>1. UNCHANGED <<artifacts, final>> /\ step = "activating"
        BY <1>2 DEF ActivateIndexes, documents
    <2> SUFFICES ASSUME NEW n \in Pointed'
                 PROVE  \E a \in artifacts : /\ a.id = catalog'[n].artifact
                                             /\ a.scope = PointerScope(n)'
                                             /\ a.content = final[PointerScope(n)']
        BY <2>1
    <2>2. CASE \E s \in current.scopes : s.notebook = n
        <3>1. PICK s \in current.scopes : s.notebook = n
            BY <2>2
        <3>2. catalog'[n] = [revision |-> s.revision, artifact |-> Built(s).id, age |-> 0]
            BY <1>2, <3>1, Activated
        <3>3. s \in Scopes
            BY <2>1, KindOfOperation DEF Phases
        <3>4. PointerScope(n)' = s
            BY <3>1, <3>2, <3>3 DEF Scopes
        <3> QED BY <2>1, <3>2, <3>4, BuiltIsMine
    <2>3. CASE \A s \in current.scopes : s.notebook # n
        BY <1>2, <2>3, Activated
    <2> QED BY <2>2, <2>3
<1>3. CASE Tick
    <2>1. final' = final /\ artifacts' = Aged(artifacts) /\ artifacts \in SUBSET Artifacts
        BY <1>3 DEF Tick, Aged, Shape
    <2>2. \A c, d \in artifacts : c.id = d.id => c = d
        BY DEF Distinct, Directories
    <2>3. \A c \in artifacts : \E t \in artifacts' :
            t.id = c.id /\ t.scope = c.scope /\ t.content = c.content
        BY <2>1, <2>2, AgedSame
    <2>4. \A n \in Pointed' : /\ n \in Pointed
                              /\ catalog'[n].artifact = catalog[n].artifact
                              /\ catalog'[n].revision = catalog[n].revision
        BY <1>3, TickCatalog
    <2> QED BY <2>1, <2>3, <2>4
<1>4. CASE Snapshot /\ UNCHANGED <<documents, runner>>
    <2>1. UNCHANGED <<artifacts, final>>
        BY <1>4 DEF Snapshot, documents
    <2>2. \A n \in Pointed' : n \in Pointed /\ catalog'[n] = catalog[n]
        BY <1>4 DEF Snapshot
    <2> QED BY <2>1, <2>2
<1>5. CASE UNCHANGED catalog
    <2>1. CASE CommitCandidate
        BY <1>5, <2>1 DEF CommitCandidate, documents
    <2>2. CASE FinalizeWrite
        <3>1. \A n \in Pointed : final'[PointerScope(n)] = final[PointerScope(n)]
            BY <1>1, <2>2 DEF FinalizeWrite, Shape
        <3> QED BY <1>5, <2>2, <3>1 DEF FinalizeWrite, indexes
    <2>3. CASE Maintain /\ PruneIndexes
        <3>1. \A a \in artifacts : (\E n \in Pointed : a.id = catalog[n].artifact) => a \in artifacts'
            BY <2>3 DEF PruneIndexes, StaleArtifacts, Kept
        <3>2. final' = final
            BY <2>3 DEF PruneIndexes, documents
        <3> QED BY <1>5, <3>1, <3>2
    <2>4. CASE Maintain /\ PruneDocuments
        <3>1. \A n \in Pointed : final'[PointerScope(n)] = final[PointerScope(n)]
            BY <1>1, <2>4 DEF PruneDocuments, StaleFinal, Kept, Shape
        <3>2. artifacts' = artifacts
            BY <2>4 DEF PruneDocuments, indexes
        <3> QED BY <1>5, <3>1, <3>2
    <2>5. CASE UNCHANGED <<artifacts, final>>
        BY <1>5, <2>5
    <2>6. \/ CommitCandidate \/ FinalizeWrite \/ Tick
          \/ Maintain /\ (PruneIndexes \/ PruneDocuments)
          \/ UNCHANGED <<artifacts, final>>
        <3>1. CASE Execute
            BY <3>1 DEF Execute, StageAgain, StageNew, FinalizeRefused, FinalizeAgain,
                ClearStaging, BuildRefused, BuildCandidate, BuildStranded, ActivateIndexes,
                PublishFails, DiscardCandidates, AnswerQuery, Conclude, documents, indexes
        <3>2. CASE (\E o \in Operations : Claim(o)) \/ StartMaintenance \/ Boot \/ Crash \/ Serve
            BY <3>2 DEF Claim, StartMaintenance, Snapshot, Boot, Crash, Serve, documents, indexes
        <3>3. CASE Maintain /\ RoomDone
            BY <3>3 DEF RoomDone, documents, indexes
        <3> QED BY <3>1, <3>2, <3>3 DEF Next, Maintain
    <2> QED BY <1>3, <2>1, <2>2, <2>3, <2>4, <2>5, <2>6
<1> QED BY <1>2, <1>3, <1>4, <1>5, CatalogSteps

\* A rebuild or a query is done only with exactly what was asked for.
LEMMA SuccessStep ==
    ASSUME Shape, Phases, Distinct, Work, SuccessMeansReady, Next
    PROVE  SuccessMeansReady'
<1> SUFFICES ASSUME step' = "done", current'.type \in {"index_rebuild", "query"}
             PROVE  SuccessMeansReady'
    BY DEF SuccessMeansReady
<1>1. CASE ActivateIndexes
    <2>1. /\ UNCHANGED <<artifacts, final, current, mine>> /\ step = "activating"
        BY <1>1 DEF ActivateIndexes, documents, Reach
    <2>2. \A s \in current.scopes :
            /\ catalog'[s.notebook].revision = s.revision
            /\ catalog'[s.notebook].artifact = Built(s).id
        <3>1. \A s \in current.scopes : catalog'[s.notebook] =
                [revision |-> s.revision, artifact |-> Built(s).id, age |-> 0]
            BY <1>1, Activated
        <3> SUFFICES ASSUME NEW s \in current.scopes
                     PROVE  /\ catalog'[s.notebook].revision = s.revision
                            /\ catalog'[s.notebook].artifact = Built(s).id
            OBVIOUS
        <3>2. catalog'[s.notebook] =
                [revision |-> s.revision, artifact |-> Built(s).id, age |-> 0]
            BY <3>1
        <3> HIDE DEF Built
        <3> QED BY <3>2
    <2>3. \A s \in current.scopes :
            Built(s) \in artifacts /\ Built(s).scope = s /\ Built(s).id \in mine
        BY <2>1, BuiltIsMine
    <2>4. \A id \in mine : \E s \in current.scopes : id = Built(s).id
        <3> SUFFICES ASSUME NEW id \in mine PROVE \E s \in current.scopes : id = Built(s).id
            OBVIOUS
        <3>1. PICK d \in Mine : d.id = id
            BY <2>1 DEF Work, Publishing
        <3>2. d.scope \in current.scopes
            BY <2>1 DEF Work, Publishing, Reached
        <3>3. Built(d.scope) \in Mine /\ Built(d.scope).scope = d.scope
            BY <2>3, <3>2 DEF Mine, Directories
        <3>4. \A p, q \in Mine : p.scope = q.scope => p = q
            BY <2>1 DEF Work, Publishing
        <3>5. Built(d.scope) = d
            BY <3>3, <3>4
        <3> QED BY <3>1, <3>2, <3>5
    <2>5. mine = {catalog'[s.notebook].artifact : s \in current.scopes}
        BY <2>2, <2>3, <2>4
    <2> QED BY <2>1, <2>2, <2>3, <2>5 DEF SuccessMeansReady
<1>2. CASE AnswerQuery
    <2>1. /\ \A s \in current.scopes : ExactReady(s)
          /\ mine' = {catalog[s.notebook].artifact : s \in current.scopes}
          /\ UNCHANGED <<catalog, artifacts, current>> /\ current \in Operations
        BY <1>2 DEF AnswerQuery, Raise, Reach, indexes, Phases
    <2>2. current.scopes \subseteq Scopes
        BY <2>1, KindOfOperation
    <2>3. \A s \in current.scopes : \E a \in artifacts :
            a.scope = s /\ a.id = catalog[s.notebook].artifact
            /\ catalog[s.notebook].revision = s.revision
        <3> SUFFICES ASSUME NEW s \in current.scopes
                     PROVE  \E a \in artifacts :
                              a.scope = s /\ a.id = catalog[s.notebook].artifact
                              /\ catalog[s.notebook].revision = s.revision
            OBVIOUS
        <3>1. s = [notebook |-> s.notebook, revision |-> s.revision]
            BY <2>2 DEF Scopes
        <3> QED BY <2>1, <3>1 DEF ExactReady, ActiveIndex, PointerScope
    <2> QED BY <2>1, <2>3 DEF SuccessMeansReady
<1>3. CASE Tick
    <2>1. /\ UNCHANGED <<current, step, mine>> /\ artifacts' = Aged(artifacts)
          /\ artifacts \in SUBSET Artifacts /\ step = "done" /\ current \in Operations
        BY <1>3 DEF Tick, runner, Aged, Shape, Phases
    <2>2. \A c, d \in artifacts : c.id = d.id => c = d
        BY DEF Distinct, Directories
    <2>3. \A c \in artifacts : \E t \in artifacts' : t.id = c.id /\ t.scope = c.scope
        BY <2>1, <2>2, AgedSame
    <2>4. \A s \in current.scopes : s.notebook \in Notebooks
        BY <2>1, KindOfOperation DEF Scopes
    <2> QED BY <1>3, <2>1, <2>3, <2>4, TickCatalog DEF SuccessMeansReady
<1>4. ~((Execute /\ ~ActivateIndexes /\ ~AnswerQuery) \/ (\E o \in Operations : Claim(o)))
    <2>1. ~\E o \in Operations : Claim(o)
        BY KindOfOperation DEF Claim, FirstStep
    <2>2. ~(StageAgain \/ StageNew \/ FinalizeRefused \/ FinalizeAgain \/ FinalizeWrite
              \/ ClearStaging)
        BY DEF StageAgain, StageNew, FinalizeRefused, FinalizeAgain, FinalizeWrite,
               ClearStaging, Reach, Raise, Phases, StepTypes, BatchOps, FinalizeOps
    <2>3. ~(BuildRefused \/ BuildCandidate \/ BuildStranded \/ CommitCandidate
              \/ PublishFails \/ DiscardCandidates \/ Conclude)
        BY DEF BuildRefused, BuildCandidate, BuildStranded, CommitCandidate, PublishFails,
               DiscardCandidates, Conclude, Reach, Raise
    <2> QED BY <2>1, <2>2, <2>3 DEF Execute
<1>5. ~(StartMaintenance \/ Maintain \/ Crash \/ Boot \/ Serve)
    BY DEF StartMaintenance, Maintain, PruneDocuments, PruneIndexes, RoomDone, Crash, Boot,
           Serve, runner, Phases
<1> QED BY <1>1, <1>2, <1>3, <1>4, <1>5 DEF Next

-----------------------------------------------------------------------------
(* The inductive invariant, and what follows from it.                      *)

\* An empty worker.
LEMMA InitIInv == Init => IInv
<1> SUFFICES ASSUME Init PROVE IInv
    OBVIOUS
<1>1. Shape /\ Phases
    BY InitShape
<1>2. Distinct
    BY DEF Init, Distinct, Directories
<1>3. /\ StagedFiles(staging) = {} /\ FinalScopes(final) = {}
      /\ candidates = {} /\ artifacts = {}
    BY DEF Init, StagedFiles, FinalScopes
<1>4. IsFiniteSet({}) /\ Cardinality({}) = 0
    BY FS_EmptySet
<1>5. FiniteIndexes /\ FiniteDocuments
    BY <1>3, <1>4 DEF FiniteIndexes, FiniteDocuments
<1>6. IndexesCounted
    BY <1>3, <1>4 DEF Init, IndexesCounted, IndexesOnDisk
<1>7. DocumentsCounted
    <2>1. DocumentsOnDisk(staging, final) = 0
        BY <1>3, <1>4 DEF DocumentsOnDisk
    <2> QED BY <2>1 DEF Init, DocumentsCounted, HalfCleared
<1>8. Work /\ Kept /\ CatalogBacked /\ SuccessMeansReady
    BY DEF Init, Work, Publishing, Kept, CatalogBacked, SuccessMeansReady, Pointed
<1> QED BY <1>1, <1>2, <1>5, <1>6, <1>7, <1>8 DEF IInv

\* Every step keeps it, one conjunct after the other.
LEMMA IInvStep == IInv /\ [Next]_vars => IInv'
<1> SUFFICES ASSUME IInv, [Next]_vars PROVE IInv'
    OBVIOUS
<1>1. CASE Next
    <2>1. Shape' /\ Phases'
        BY <1>1, ShapeStep DEF IInv
    <2>2. Distinct' /\ FiniteIndexes'
        BY <1>1, DistinctStep, FiniteIndexesStep DEF IInv
    <2>3. IndexesCounted'
        BY <1>1, IndexesCountedStep DEF IInv
    <2>4. FiniteDocuments' /\ DocumentsCounted'
        BY <1>1, DocumentsCountedStep DEF IInv
    <2>5. Work' /\ Kept'
        BY <1>1, WorkStep, KeptStep DEF IInv
    <2>6. CatalogBacked'
        BY <1>1, CatalogBackedStep DEF IInv
    <2>7. SuccessMeansReady'
        BY <1>1, SuccessStep DEF IInv
    <2> QED BY <2>1, <2>2, <2>3, <2>4, <2>5, <2>6, <2>7 DEF IInv
<1>2. CASE UNCHANGED vars
    <2> USE <1>2 DEF vars, documents, indexes, runner, upkeep
    <2>1. Shape' /\ Phases'
        BY DEF IInv, Shape, Phases, StepTypes
    <2>2. /\ Directories' = Directories /\ Pointed' = Pointed
          /\ Mine' = Mine /\ Reached' = Reached /\ Target' = Target
        BY DEF Directories, Pointed, Mine, Reached, Target
    <2>3. Distinct' /\ FiniteIndexes' /\ IndexesCounted'
        BY <2>2 DEF IInv, Distinct, FiniteIndexes, IndexesCounted
    <2>4. FiniteDocuments' /\ DocumentsCounted'
        BY <2>2 DEF IInv, FiniteDocuments, DocumentsCounted, HalfCleared
    <2>5. Work'
        BY <2>2 DEF IInv, Work
    <2>6. Kept' /\ CatalogBacked'
        BY <2>2 DEF IInv, Kept, CatalogBacked, PointerScope
    <2>7. SuccessMeansReady'
        BY DEF IInv, SuccessMeansReady
    <2> QED BY <2>1, <2>3, <2>4, <2>5, <2>6, <2>7 DEF IInv
<1> QED BY <1>1, <1>2

\* The invariant holds in every reachable state.
THEOREM Invariance == Spec => []IInv
<1>1. Init => IInv
    BY InitIInv
<1>2. IInv /\ [Next]_vars => IInv'
    BY IInvStep
<1> QED BY <1>1, <1>2, PTL DEF Spec

\* For any notebooks, revisions, contents and quotas the variables keep their
\* types; the byte counters of the two stores are never negative.
THEOREM TypeCorrect == Spec => []TypeOK
<1>1. IInv => TypeOK
    BY DEF IInv, IndexesCounted, DocumentsCounted, TypeOK
<1> QED BY <1>1, Invariance, PTL

\* Whatever is interrupted and whatever maintenance removes, the artifact of an
\* active pointer is on disk, of that revision and made from its document.
THEOREM PointersAreBacked == Spec => []CatalogBacked
<1>1. IInv => CatalogBacked
    BY DEF IInv
<1> QED BY <1>1, Invariance, PTL

\* A rebuild succeeds, and a query answers, only with the exact revisions asked for.
THEOREM SuccessIsExact == Spec => []SuccessMeansReady
<1>1. IInv => SuccessMeansReady
    BY DEF IInv
<1> QED BY <1>1, Invariance, PTL

\* The counters _bytes_used are never below the disk, so the quotas hold there;
\* what they may be above it by is what QuotasAccounted names.
THEOREM QuotasHold == Spec => []QuotasAccounted
<1>1. IInv => QuotasAccounted
    <2> SUFFICES ASSUME IInv PROVE QuotasAccounted
        OBVIOUS
    <2>1. DocumentsOnDisk(staging, final) \in Nat
        BY FS_CardinalityType, DocumentWeight DEF IInv, FiniteDocuments, DocumentsOnDisk
    <2>2. CASE step = "clearing"
        <3>1. Target \in Scopes
            BY <2>2, OneScope DEF IInv, Phases, StepTypes
        <3>2. IsFiniteSet(staging[Target])
            BY <3>1, StagedFilesUpdate, FS_EmptySet DEF IInv, Shape, FiniteDocuments
        <3>3. BatchCount - Cardinality(staging[Target]) \in Nat
            BY <2>2, <3>2, FS_CardinalityType, NotebookStoreAssumption DEF IInv, DocumentsCounted
        <3> QED BY <2>1, <2>2, <3>3
                DEF IInv, IndexesCounted, DocumentsCounted, HalfCleared, QuotasAccounted
    <2>3. CASE step # "clearing"
        BY <2>1, <2>3 DEF IInv, IndexesCounted, DocumentsCounted, HalfCleared, QuotasAccounted
    <2> QED BY <2>2, <2>3
<1> QED BY <1>1, Invariance, PTL

\* The document of a revision is written once: after that a step keeps it or,
\* in storage maintenance, removes it.
THEOREM DocumentsAreImmutable == Spec => FinalizedImmutable
<1>1. IInv /\ [Next]_vars =>
        [\A s \in Scopes : final[s] # NoContent => final'[s] \in {final[s], NoContent}]_vars
    <2> SUFFICES ASSUME IInv, Next, NEW s \in Scopes, final[s] # NoContent
                 PROVE  final'[s] \in {final[s], NoContent}
        OBVIOUS
    <2>1. Shape /\ Phases
        BY DEF IInv
    <2>2. CASE FinalizeWrite
        BY <2>1, <2>2 DEF FinalizeWrite, Shape
    <2>3. CASE Maintain /\ PruneDocuments
        BY <2>1, <2>3 DEF PruneDocuments, Shape
    <2>4. CASE UNCHANGED final
        BY <2>4
    <2>5. \/ FinalizeWrite
          \/ Maintain /\ PruneDocuments
          \/ UNCHANGED final
        BY <2>1, DocumentSteps DEF StageNew, FinalizeAgain, ClearStaging, Tick, Crash, documents
    <2> QED BY <2>2, <2>3, <2>4, <2>5
<1> QED BY <1>1, Invariance, PTL DEF Spec, FinalizedImmutable

\* A rebuild publishes the pointers of all its revisions in one step, and a
\* pointer disappears only past its retention, between two operations.
THEOREM PointersPublishTogether == Spec => PublishedTogether
<1> DEFINE Rows == {[notebook |-> n, revision |-> catalog'[n].revision] : n \in Published}
           Expired == \A n \in Pointed : catalog'[n] = NoPointer =>
                        catalog[n].age > Retention /\ step = "idle" /\ interrupted = NoOperation
<1>1. ASSUME IInv, Next
      PROVE  (Published # {} => Rows = current.scopes) /\ Expired
    <2>1. Shape /\ Phases /\ Work
        BY <1>1 DEF IInv
    <2>2. CASE ActivateIndexes
        <3>1. /\ step = "activating" /\ current \in Operations /\ todo = {}
              /\ \A n \in Pointed : catalog[n].artifact \notin mine
            BY <2>1, <2>2 DEF ActivateIndexes, Phases, Work, Publishing
        <3>2. \A s \in current.scopes : s.notebook \in Notebooks
            BY <3>1, KindOfOperation DEF Scopes
        <3>3. \A s \in current.scopes : s = [notebook |-> s.notebook, revision |-> s.revision]
            BY <3>1, KindOfOperation DEF Scopes
        <3>4. ASSUME NEW s \in current.scopes
              PROVE  /\ catalog'[s.notebook] # NoPointer
                     /\ catalog'[s.notebook].revision = s.revision
                     /\ catalog'[s.notebook].artifact \in mine
            <4>1. catalog'[s.notebook] =
                    [revision |-> s.revision, artifact |-> Built(s).id, age |-> 0]
                BY <2>1, <2>2, Activated
            <4>2. Built(s).id \in mine /\ Built(s).id \in ArtifactIds
                BY <2>1, <3>1, BuiltIsMine
            <4>3. s.revision \in Revisions
                BY <3>1, KindOfOperation DEF Scopes
            <4> HIDE DEF Built
            <4>4. catalog'[s.notebook] \in Pointers
                BY <4>1, <4>2, <4>3 DEF Pointers, Ages
            <4> QED BY <4>1, <4>2, <4>4
        <3>5. \A n \in Notebooks :
                (\A s \in current.scopes : s.notebook # n) => catalog'[n] = catalog[n]
            BY <2>1, <2>2, Activated
        <3>6. Published = {s.notebook : s \in current.scopes}
            BY <3>1, <3>2, <3>4, <3>5 DEF Published, Pointed
        <3>7. Rows = {[notebook |-> s.notebook, revision |-> s.revision] : s \in current.scopes}
            BY <3>4, <3>6
        <3>8. Rows = current.scopes
            BY <3>3, <3>7
        <3>9. \A n \in Pointed : catalog'[n] # NoPointer
            BY <3>4, <3>5 DEF Pointed
        <3> QED BY <3>8, <3>9
    <2>3. CASE Tick
        <3>1. \A n \in Notebooks : /\ catalog[n] = NoPointer <=> catalog'[n] = NoPointer
                                   /\ catalog[n] # NoPointer =>
                                        catalog'[n].artifact = catalog[n].artifact
            BY <2>1, <2>3, TickCatalog
        <3> QED BY <3>1 DEF Published, Pointed
    <2>4. CASE Snapshot /\ step = "idle" /\ interrupted = NoOperation
        <3>1. \A n \in Notebooks :
                catalog'[n] = IF n \in Pointed /\ catalog[n].age > Retention
                              THEN NoPointer ELSE catalog[n]
            BY <2>4 DEF Snapshot
        <3> QED BY <2>4, <3>1 DEF Published, Pointed
    <2>5. CASE UNCHANGED catalog
        BY <2>5 DEF Published, Pointed
    <2> QED BY <1>1, <2>1, <2>2, <2>3, <2>4, <2>5, CatalogSteps
<1>2. IInv /\ [Next]_vars => [(Published # {} => Rows = current.scopes) /\ Expired]_vars
    BY <1>1
<1> QED BY <1>2, Invariance, PTL DEF Spec, PublishedTogether
=============================================================================
