--------------------------- MODULE BrowserClient ---------------------------
(***************************************************************************)
(* The page of Novo Chat (novo_chat/gateway/web/app.js): one thread of     *)
(* events over the object `state`, and any number of fetches under way     *)
(* whose answers arrive in any order.  The handler of an event runs to its *)
(* next await without interruption, so it is one action.                   *)
(*                                                                         *)
(* The gateway, the worker and the grants behind the answers are external: *)
(* an answer says what was true when it was made, at some moment since the *)
(* fetch was sent, which need not be true any more when it arrives.        *)
(***************************************************************************)
EXTENDS Naturals, FiniteSets

CONSTANTS
    Corpora,
    NoCorpus,     \* "": nothing selected
    NoStatus,     \* null: the index panel says "Checking"
    MaxEvents,    \* bound: what the timer and the user did
    MaxChanges    \* bound: changes of the grants and of the worker's health

ASSUME BrowserAssumption ==
    /\ NoCorpus \notin Corpora
    /\ MaxEvents \in Nat /\ MaxChanges \in Nat
    /\ NoStatus \notin [corpus : Corpora, version : Nat]

VARIABLES
    state,         \* the state object of app.js
    fetches,       \* fetches under way outside of jobs, with what their handlers hold
    waits,         \* calls of submitAndWait that have not returned
    events,        \* what the timer and the user did so far
    granted,       \* gateway: the corpora of the session
    up,            \* gateway: the worker is available
    version,       \* worker: how often each corpus was rebuilt
    changes,       \* changes of granted and up so far
    known          \* history: the newest version of each corpus the page was told of

gateway == <<granted, up, changes>>
vars == <<state, fetches, waits, events, gateway, version, known>>

Statuses == [corpus : Corpora, version : Nat]
Operations == {"ask", "index", "model"}
JobStates == {"running", "succeeded", "failed"}

-----------------------------------------------------------------------------
(* The state object. *)

\* Mutant: fetches under way are disowned, but what is shown stays.
ForgetAnswers(s) == [s EXCEPT !.generation = @ + 1]

ResetStatus(s) == [s EXCEPT !.indexStatus = NoStatus, !.generation = @ + 1]

\* Mutant: a selection is kept whether the session still has it or not.
KeptSelection(s, corpora) ==
    IF s.corpus # NoCorpus \/ corpora = {} THEN s.corpus ELSE CHOOSE c \in corpora : TRUE

\* What is selected once the corpora are replaced.
Selected(s, corpora) ==
    IF s.corpus \in corpora THEN s.corpus
    ELSE IF corpora = {} THEN NoCorpus
    ELSE CHOOSE c \in corpora : TRUE

\* What a fetch is answered while the gateway and the worker are so: the set of
\* its possible answers is empty when index-status is refused, without the
\* worker or for a corpus that is not the session's.
Truth(kind, corpus, grants, alive, versions) ==
    IF kind = "context" THEN {[corpora |-> grants, up |-> alive]}
    ELSE IF kind = "worker" THEN {alive}
    ELSE IF alive /\ corpus \in grants THEN {versions[corpus]}
    ELSE {}

\* The answers to the fetches under way may say what has become true as well.
Learned(fs, grants, alive, versions) ==
    {[f EXCEPT !.answers = @ \cup Truth(f.kind, f.corpus, grants, alive, versions)] : f \in fs}

\* The fetches, with the locals their handlers hold across the await: of a
\* context the previous corpus, of a worker its previous availability, of a
\* status its corpus and generation.  `then` says who awaits the handler:
\* initialize ("start"), submitAndWait ("wait") or nobody ("nothing").
FreshId == CHOOSE i \in 1..(Cardinality(fetches) + 1) : \A f \in fetches : f.id # i
Fetch(kind, corpus, generation, wasAvailable, then) ==
    [id |-> FreshId, kind |-> kind, corpus |-> corpus, generation |-> generation,
     wasAvailable |-> wasAvailable, then |-> then, answers |-> Truth(kind, corpus, granted, up, version)]
ContextFetch == Fetch("context", state.corpus, 0, FALSE, "nothing")
WorkerFetch(s, then) == Fetch("worker", NoCorpus, 0, s.available, then)
StatusFetch(s, then) == Fetch("status", s.corpus, s.generation, FALSE, then)

Continue(s, fs, ws) == state' = s /\ fetches' = fs /\ waits' = ws
Happens == events < MaxEvents /\ events' = events + 1
Go(s, fs, ws, f) == Continue(s, fs \cup {f}, ws)

\* Mutant: the mark of a rebuild outlives its job.
MarkStays(s, w) == [s EXCEPT !.busy = FALSE]

\* The finally of submitAndWait.
Released(s, w) ==
    [s EXCEPT !.busy = FALSE, !.rebuildingCorpus = IF w.operation = "index" THEN NoCorpus ELSE @]

\* A handler returns.  If it was awaited by submitAndWait, that returns too,
\* and the finally of controlRuntime looks at the worker once more.
Return(s, fs, ws, then) ==
    \/ /\ then = "wait"
       /\ \E w \in ws :
            /\ w.step = "refreshing"
            /\ Go(Released(s, w), fs, ws \ {w}, WorkerFetch(s, "nothing"))
    \/ /\ then # "wait"
       /\ Continue(s, fs, ws)

\* refreshIndexStatus, up to its fetch.
RefreshIndexStatus(s, fs, ws, then) ==
    IF s.corpus # NoCorpus /\ s.available
    THEN LET t == [s EXCEPT !.generation = @ + 1] IN Go(t, fs, ws, StatusFetch(t, then))
    ELSE Return(ResetStatus(s), fs, ws, then)

-----------------------------------------------------------------------------
(* refreshContext *)

\* The button of the banner that says the worker is not available.
RetryContext ==
    /\ ~state.busy /\ ~state.available
    /\ Happens
    /\ Go(state, fetches, waits, ContextFetch)
    /\ UNCHANGED <<gateway, version, known>>

ContextArrives(f, a) ==
    LET s == [state EXCEPT !.loaded = TRUE, !.corpora = a.corpora, !.corpus = Selected(state, a.corpora)]
        stale == \/ ~a.up
                 \/ s.corpus # f.corpus
                 \/ s.indexStatus = NoStatus
                 \/ s.indexStatus.corpus # s.corpus
        t == [IF stale THEN ResetStatus(s) ELSE s EXCEPT !.available = a.up]
    IN  /\ f.kind = "context"
        /\ IF a.up THEN RefreshIndexStatus(t, fetches \ {f}, waits, f.then)
           ELSE Return(t, fetches \ {f}, waits, f.then)
        /\ UNCHANGED <<events, gateway, version, known>>

ContextFails(f) ==
    /\ f.kind = "context"
    /\ Return(state, fetches \ {f}, waits, f.then)
    /\ UNCHANGED <<events, gateway, version, known>>

-----------------------------------------------------------------------------
(* refreshWorker *)

\* The interval is set when the first refreshContext has returned.
PollWorker ==
    /\ \A f \in fetches : f.then # "start"
    /\ Happens
    /\ Go(state, fetches, waits, WorkerFetch(state, "nothing"))
    /\ UNCHANGED <<gateway, version, known>>

WorkerArrives(f, available) ==
    LET s == [IF available THEN state ELSE ResetStatus(state) EXCEPT !.available = available]
        due == available /\ (~f.wasAvailable \/ s.indexStatus = NoStatus \/ s.indexStatus.corpus # s.corpus)
    IN  /\ f.kind = "worker"
        /\ IF ~state.loaded THEN Return(state, fetches \ {f}, waits, f.then)
           ELSE IF due THEN RefreshIndexStatus(s, fetches \ {f}, waits, f.then)
           ELSE Return(s, fetches \ {f}, waits, f.then)
        /\ UNCHANGED <<events, gateway, version, known>>

\* The last models and their states are kept: only banner and panel change.
WorkerFails(f) ==
    /\ f.kind = "worker"
    /\ Return(IF state.loaded THEN ResetStatus([state EXCEPT !.available = FALSE]) ELSE state,
              fetches \ {f}, waits, f.then)
    /\ UNCHANGED <<events, gateway, version, known>>

-----------------------------------------------------------------------------
(* refreshIndexStatus, from the answer on *)

\* Mutant: the corpus alone decides whether an answer is still wanted.
CurrentCorpus(f) == f.corpus = state.corpus

Current(f) == f.corpus = state.corpus /\ f.generation = state.generation

Newer(m, n) == IF m < n THEN n ELSE m

StatusArrives(f, a) ==
    /\ f.kind = "status"
    /\ Return(IF Current(f) THEN [state EXCEPT !.indexStatus = [corpus |-> f.corpus, version |-> a]] ELSE state,
              fetches \ {f}, waits, f.then)
    /\ known' = IF Current(f) THEN [known EXCEPT ![f.corpus] = Newer(@, a)] ELSE known
    /\ UNCHANGED <<events, gateway, version>>

StatusFails(f) ==
    /\ f.kind = "status"
    /\ Return(IF Current(f) THEN [state EXCEPT !.indexStatus = NoStatus] ELSE state, fetches \ {f}, waits, f.then)
    /\ UNCHANGED <<events, gateway, version, known>>

\* The change event of the corpus list, which setBusy disables during a job.
SelectCorpus(c) ==
    /\ ~state.busy
    /\ c \in state.corpora \ {state.corpus}
    /\ Happens
    /\ RefreshIndexStatus(ResetStatus([state EXCEPT !.corpus = c]), fetches, waits, "nothing")
    /\ UNCHANGED <<gateway, version, known>>

-----------------------------------------------------------------------------
(* ask, rebuildIndex, controlRuntime and submitAndWait *)

\* The page refuses to submit while a job is awaited or the worker is known to
\* be away; which models there are, and whether one is ready, is left out.
MaySubmit(operation) ==
    /\ ~state.busy
    /\ state.available
    /\ operation # "model" => state.corpus # NoCorpus

Submit(operation) ==
    /\ MaySubmit(operation)
    /\ Happens
    /\ waits' = waits \cup {[operation |-> operation, corpus |-> state.corpus,
                             step |-> "posting", job |-> "running", built |-> 0]}
    /\ state' = [state EXCEPT !.busy = TRUE,
                              !.rebuildingCorpus = IF operation = "index" THEN state.corpus ELSE @]
    /\ UNCHANGED <<fetches, gateway, version, known>>

Accepted(w) ==
    /\ w.step = "posting"
    /\ waits' = (waits \ {w}) \cup {[w EXCEPT !.step = "polling"]}
    /\ UNCHANGED <<state, fetches, events, gateway, version, known>>

\* Mutant: the controls are released where the job succeeds, not where it throws.
LockedThrow(w) ==
    \/ w.operation = "ask" /\ RefreshIndexStatus(state, fetches, waits \ {w}, "nothing")
    \/ w.operation = "index" /\ Continue(state, fetches, waits \ {w})
    \/ w.operation = "model" /\ Go(state, fetches, waits \ {w}, WorkerFetch(state, "nothing"))

\* submitAndWait throws: ask and controlRuntime have something to refresh in
\* their finally, rebuildIndex has not.
Throw(w) ==
    LET s == Released(state, w)
    IN  \/ w.operation = "ask" /\ RefreshIndexStatus(s, fetches, waits \ {w}, "nothing")
        \/ w.operation = "index" /\ Continue(s, fetches, waits \ {w})
        \/ w.operation = "model" /\ Go(s, fetches, waits \ {w}, WorkerFetch(s, "nothing"))

\* The answer to the submission does not arrive, or says no; any poll or the
\* fetch of the result fails; or a poll says that the job failed.  The worker
\* goes on with a job it accepted: Change has the rebuilds nobody awaits.
WaitFails(w) ==
    /\ w.step # "refreshing"
    /\ Throw(w)
    /\ UNCHANGED <<events, gateway, version, known>>

\* A poll that shows progress changes nothing that is modelled.
JobDone(w) ==
    /\ w.step = "polling" /\ w.job = "succeeded"
    /\ waits' = (waits \ {w}) \cup {[w EXCEPT !.step = "fetching"]}
    /\ UNCHANGED <<state, fetches, events, gateway, version, known>>

\* Whether the answer is shown, as one to what is still selected, is left out.
AskAnswered(w) ==
    /\ w.step = "fetching" /\ w.operation = "ask"
    /\ RefreshIndexStatus(Released(state, w), fetches, waits \ {w}, "nothing")
    /\ UNCHANGED <<events, gateway, version, known>>

IndexRebuilt(w) ==
    /\ w.step = "fetching" /\ w.operation = "index"
    /\ LET s == Released(state, w)
       IN  IF state.corpus = w.corpus
           THEN RefreshIndexStatus(s, fetches, waits \ {w}, "nothing")
           ELSE Continue(s, fetches, waits \ {w})
    /\ known' = [known EXCEPT ![w.corpus] = Newer(@, w.built)]
    /\ UNCHANGED <<events, gateway, version>>

ModelSwitched(w) ==
    /\ w.step = "fetching" /\ w.operation = "model"
    /\ Go(state, fetches, (waits \ {w}) \cup {[w EXCEPT !.step = "refreshing"]}, WorkerFetch(state, "wait"))
    /\ UNCHANGED <<events, gateway, version, known>>

Wait(w) ==
    Accepted(w) \/ WaitFails(w) \/ JobDone(w) \/ AskAnswered(w) \/ IndexRebuilt(w) \/ ModelSwitched(w)

Arrives(f) ==
    \E a \in f.answers : ContextArrives(f, a) \/ WorkerArrives(f, a) \/ StatusArrives(f, a)
Fails(f) == ContextFails(f) \/ WorkerFails(f) \/ StatusFails(f)

-----------------------------------------------------------------------------
(* What the answers are about. *)

\* The worker ends the job: it was built, or it failed.
JobEnds(w, outcome) ==
    /\ w.step = "polling" /\ w.job = "running"
    /\ LET rebuilt == w.operation = "index" /\ outcome = "succeeded"
           v == IF rebuilt THEN [version EXCEPT ![w.corpus] = @ + 1] ELSE version
       IN  /\ version' = v
           /\ fetches' = Learned(fetches, granted, up, v)
           /\ waits' = (waits \ {w}) \cup
                       {[w EXCEPT !.job = outcome, !.built = IF rebuilt THEN v[w.corpus] ELSE 0]}
    /\ UNCHANGED <<state, events, gateway, known>>

\* The grants change, the worker comes or goes, or it rebuilds an index for
\* somebody else.
Change ==
    /\ changes < MaxChanges
    /\ changes' = changes + 1
    /\ \/ up' = ~up /\ UNCHANGED <<granted, version>>
       \/ granted' \in SUBSET Corpora \ {granted} /\ UNCHANGED <<up, version>>
       \/ \E c \in Corpora : version' = [version EXCEPT ![c] = @ + 1] /\ UNCHANGED <<granted, up>>
    /\ fetches' = Learned(fetches, granted', up', version')
    /\ UNCHANGED <<state, waits, events, known>>

-----------------------------------------------------------------------------

\* initialize has sent the first refreshContext.
Init ==
    /\ state = [loaded |-> FALSE, corpora |-> {}, corpus |-> NoCorpus, available |-> FALSE,
                indexStatus |-> NoStatus, generation |-> 0, busy |-> FALSE, rebuildingCorpus |-> NoCorpus]
    /\ events = 0
    /\ fetches = {[id |-> 1, kind |-> "context", corpus |-> NoCorpus, generation |-> 0, wasAvailable |-> FALSE,
                   then |-> "start", answers |-> {[corpora |-> Corpora, up |-> TRUE]}]}
    /\ waits = {}
    /\ granted = Corpora
    /\ up = TRUE
    /\ version = [c \in Corpora |-> 0]
    /\ changes = 0
    /\ known = [c \in Corpora |-> 0]

Next ==
    \/ RetryContext \/ PollWorker \/ Change
    \/ \E c \in Corpora : SelectCorpus(c)
    \/ \E operation \in Operations : Submit(operation)
    \/ \E f \in fetches : Arrives(f) \/ Fails(f)
    \/ \E w \in waits : Wait(w)
    \/ \E w \in waits, outcome \in {"succeeded", "failed"} : JobEnds(w, outcome)

\* What submitAndWait awaits is there, unless the job is still running.
Settled(w) == w.step = "polling" => w.job # "running"

\* The fetches submitAndWait depends on are settled, answered or failed, and
\* the worker ends its jobs.  Nobody needs to press a button, no poll needs to
\* fail, and other fetches may hang for ever.
Fairness ==
    /\ WF_vars(\E f \in fetches : f.then = "wait" /\ (Arrives(f) \/ Fails(f)))
    /\ WF_vars(\E w \in waits : Settled(w) /\ Wait(w))
    /\ WF_vars(\E w \in waits, outcome \in {"succeeded", "failed"} : JobEnds(w, outcome))

Spec == Init /\ [][Next]_vars /\ Fairness

-----------------------------------------------------------------------------

\* Every variable has its type, and so have the fields of state.
TypeOK ==
    /\ state \in [loaded : BOOLEAN, corpora : SUBSET Corpora, corpus : Corpora \cup {NoCorpus},
                  available : BOOLEAN, indexStatus : Statuses \cup {NoStatus},
                  generation : Nat, busy : BOOLEAN, rebuildingCorpus : Corpora \cup {NoCorpus}]
    /\ state.corpus \in state.corpora \/ (state.corpus = NoCorpus /\ state.corpora = {})
    /\ \A f \in fetches : f.kind \in {"context", "worker", "status"} /\ f.then \in {"start", "wait", "nothing"}
    /\ waits \subseteq [operation : Operations, corpus : Corpora \cup {NoCorpus},
                        step : {"posting", "polling", "fetching", "refreshing"}, job : JobStates, built : Nat]
    /\ events \in Nat
    /\ granted \subseteq Corpora
    /\ up \in BOOLEAN
    /\ version \in [Corpora -> Nat]
    /\ changes \in Nat
    /\ known \in [Corpora -> Nat]

\* The index panel never shows the status of a corpus that is not selected, nor
\* any status while the worker is known to be away, in whatever order the
\* answers to polls, retries and selections arrive.
StatusOfSelection ==
    state.indexStatus # NoStatus =>
        state.available /\ state.indexStatus.corpus = state.corpus

\* What the panel comes to show is never older than what the page already knew:
\* than a status shown before, or a rebuild that this page saw succeed.
StatusNeverOlder ==
    [][(state'.indexStatus # state.indexStatus /\ state'.indexStatus # NoStatus)
          => state'.indexStatus.version >= known[state'.indexStatus.corpus]]_vars

\* The page awaits one job at a time, and its flags are that job's: they are
\* set as long as it is awaited, and cleared on every way out.
FlagsOfOneJob ==
    /\ Cardinality(waits) <= 1
    /\ state.busy <=> waits # {}
    /\ \A c \in Corpora :
           state.rebuildingCorpus = c <=> \E w \in waits : w.operation = "index" /\ w.corpus = c

\* The controls do not stay locked: every job that is awaited is settled.
ControlsUnlock == []<>~state.busy
=============================================================================
