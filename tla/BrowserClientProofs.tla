------------------------ MODULE BrowserClientProofs ------------------------
(***************************************************************************)
(* Theorems about BrowserClient for any corpora, any number of fetches     *)
(* under way and any order of their answers.                               *)
(***************************************************************************)
EXTENDS BrowserClient, FiniteSetTheorems, TLAPS

-----------------------------------------------------------------------------
(* The invariant.  Its parts are predicates of a state object s, a set of  *)
(* fetches fs, the known versions k and the versions vs, because a handler *)
(* hands these on before they are assigned.                                *)

States ==
    [loaded : BOOLEAN, corpora : SUBSET Corpora, corpus : Corpora \cup {NoCorpus},
     available : BOOLEAN, indexStatus : Statuses \cup {NoStatus},
     generation : Nat, busy : BOOLEAN, rebuildingCorpus : Corpora \cup {NoCorpus}]

\* What is selected is there to be selected.
Selectable(s) == s.corpus \in s.corpora \/ (s.corpus = NoCorpus /\ s.corpora = {})

\* The panel shows the selected corpus, of a worker that is available.
Shown(s) == s.indexStatus # NoStatus => s.available /\ s.indexStatus.corpus = s.corpus

Thens == {"start", "wait", "nothing"}

\* A fetch has the locals and the answers of its handler.
TypedFetch(f, vs) ==
    /\ f = [id |-> f.id, kind |-> f.kind, corpus |-> f.corpus, generation |-> f.generation,
            wasAvailable |-> f.wasAvailable, then |-> f.then, answers |-> f.answers]
    /\ f.kind \in {"context", "worker", "status"}
    /\ f.then \in Thens
    /\ f.kind = "context" => f.answers \subseteq [corpora : SUBSET Corpora, up : BOOLEAN]
    /\ f.kind = "worker" => f.answers \subseteq BOOLEAN
    /\ f.kind = "status" =>
          /\ f.corpus \in Corpora /\ f.generation \in Nat
          /\ \A a \in f.answers : a \in Nat /\ a <= vs[f.corpus]

\* No status fetch is ahead of the state object, and no two are of one
\* generation.
Ordered(s, fs) ==
    \A f \in fs : f.kind = "status" =>
        /\ f.generation <= s.generation
        /\ \A g \in fs : g.kind = "status" /\ g.generation = f.generation => f = g

\* A status fetch of the present generation is about what is selected, and no
\* answer to it is older than what is known.
Wanted(s, fs, k) ==
    \A f \in fs : f.kind = "status" /\ f.generation = s.generation =>
        /\ s.available /\ f.corpus = s.corpus
        /\ \A a \in f.answers : k[f.corpus] <= a

\* What is left of Page while a handler is about to advance the generation.
Loose(s, fs, vs) ==
    /\ s \in States /\ Selectable(s) /\ Shown(s)
    /\ \A f \in fs : TypedFetch(f, vs)
    /\ Ordered(s, fs)

Page(s, fs, k, vs) == Loose(s, fs, vs) /\ Wanted(s, fs, k)

Versions(k, vs) ==
    /\ k \in [Corpora -> Nat] /\ vs \in [Corpora -> Nat]
    /\ \A c \in Corpora : k[c] <= vs[c]

\* The gateway and the bounds.
World ==
    /\ granted \subseteq Corpora /\ up \in BOOLEAN
    /\ events \in Nat /\ changes \in Nat

Waits ==
    [operation : Operations, corpus : Corpora \cup {NoCorpus},
     step : {"posting", "polling", "fetching", "refreshing"}, job : JobStates, built : Nat]

Mark(w) == IF w.operation = "index" THEN w.corpus ELSE NoCorpus

\* The flags of the state object are those of the job awaited, if any.
Flags(s, ws, vs) ==
    /\ \A v, w \in ws : v = w
    /\ s.busy <=> ws # {}
    /\ ws = {} => s.rebuildingCorpus = NoCorpus
    /\ \A w \in ws :
          /\ w \in Waits
          /\ s.rebuildingCorpus = Mark(w)
          /\ w.operation = "index" => w.corpus \in Corpora /\ w.built <= vs[w.corpus]

IInv ==
    /\ World
    /\ Versions(known, version)
    /\ Page(state, fetches, known, version)
    /\ Flags(state, waits, version)

-----------------------------------------------------------------------------
(* The fetches that are sent.                                              *)

\* A fetch of the worker or of the context is typed and is no status fetch.
LEMMA OtherFetchType ==
    ASSUME World, NEW s, NEW then \in Thens, NEW vs
    PROVE  /\ TypedFetch(WorkerFetch(s, then), vs) /\ WorkerFetch(s, then).kind = "worker"
           /\ TypedFetch(ContextFetch, vs) /\ ContextFetch.kind = "context"
<1>1. WorkerFetch(s, then).answers = {up}
  BY DEF WorkerFetch, Fetch, Truth
<1>2. ContextFetch.answers = {[corpora |-> granted, up |-> up]}
  BY DEF ContextFetch, Fetch, Truth
<1>3. TypedFetch(WorkerFetch(s, then), vs) /\ WorkerFetch(s, then).kind = "worker"
  <2>1. WorkerFetch(s, then).answers \subseteq BOOLEAN
    BY <1>1 DEF World
  <2>2. QED
    BY <2>1 DEF WorkerFetch, Fetch, TypedFetch, Thens
<1>4. TypedFetch(ContextFetch, vs) /\ ContextFetch.kind = "context"
  <2>1. ContextFetch.answers \subseteq [corpora : SUBSET Corpora, up : BOOLEAN]
    BY <1>2 DEF World
  <2>2. QED
    BY <2>1 DEF ContextFetch, Fetch, TypedFetch, Thens
<1>5. QED
  BY <1>3, <1>4

\* A status fetch is about the selection, and its answers are up to date.
LEMMA StatusFetchType ==
    ASSUME NEW s \in States, s.corpus \in Corpora, NEW then \in Thens,
           NEW k, Versions(k, version)
    PROVE  LET f == StatusFetch(s, then)
           IN  /\ TypedFetch(f, version) /\ f.kind = "status"
               /\ f.corpus = s.corpus /\ f.generation = s.generation
               /\ \A a \in f.answers : k[f.corpus] <= a
<1> DEFINE f == StatusFetch(s, then)
<1>1. f.answers \subseteq {version[s.corpus]}
  BY DEF StatusFetch, Fetch, Truth
<1>2. version[s.corpus] \in Nat /\ k[s.corpus] <= version[s.corpus]
  BY DEF Versions
<1>3. s.generation \in Nat
  BY DEF States
<1>4. f.kind = "status" /\ f.then = then /\ f.corpus = s.corpus /\ f.generation = s.generation
  BY DEF StatusFetch, Fetch
<1>5. f = [id |-> f.id, kind |-> f.kind, corpus |-> f.corpus, generation |-> f.generation,
           wasAvailable |-> f.wasAvailable, then |-> f.then, answers |-> f.answers]
  BY DEF StatusFetch, Fetch
<1>6. \A a \in f.answers : a \in Nat /\ a <= version[f.corpus] /\ k[f.corpus] <= a
  BY <1>1, <1>2, <1>4
<1>7. TypedFetch(f, version)
  BY <1>3, <1>4, <1>5, <1>6 DEF TypedFetch
<1>8. QED
  BY <1>4, <1>6, <1>7

LEMMA ResetKeeps ==
    ASSUME NEW s \in States
    PROVE  LET t == ResetStatus(s)
           IN  /\ t \in States /\ t.generation = s.generation + 1
               /\ t.loaded = s.loaded /\ t.corpora = s.corpora /\ t.corpus = s.corpus
               /\ t.available = s.available /\ t.indexStatus = NoStatus
               /\ t.busy = s.busy /\ t.rebuildingCorpus = s.rebuildingCorpus
<1> DEFINE n == s.generation + 1
           t == ResetStatus(s)
<1>1. n \in Nat /\ NoStatus \in Statuses \cup {NoStatus}
  BY DEF States
<1>2. t = [s EXCEPT !.indexStatus = NoStatus, !.generation = n]
  BY DEF ResetStatus
<1> HIDE DEF n, t
<1>3. /\ t \in States /\ t.generation = n /\ t.loaded = s.loaded /\ t.corpora = s.corpora
      /\ t.corpus = s.corpus /\ t.available = s.available /\ t.indexStatus = NoStatus
      /\ t.busy = s.busy /\ t.rebuildingCorpus = s.rebuildingCorpus
  BY <1>1, <1>2 DEF States
<1>4. QED
  BY <1>3 DEF n, t

\* Once the generation is advanced, no fetch under way is wanted.
LEMMA Disowned ==
    ASSUME NEW s \in States, NEW t \in States, NEW fs, NEW vs, NEW k, Loose(s, fs, vs),
           t.generation = s.generation + 1, Selectable(t), Shown(t)
    PROVE  /\ Page(t, fs, k, vs)
           /\ \A f \in fs : f.kind = "status" => f.generation # t.generation
<1>1. \A f \in fs : f.kind = "status" => f.generation \in Nat /\ f.generation <= s.generation
  BY DEF Loose, Ordered, TypedFetch
<1>2. s.generation \in Nat
  BY DEF States
<1>3. \A f \in fs : f.kind = "status" => f.generation < t.generation
  BY <1>1, <1>2
<1>4. \A f \in fs : f.kind = "status" => f.generation # t.generation
  BY <1>1, <1>2
<1>5. Ordered(t, fs)
  BY <1>1, <1>2 DEF Loose, Ordered
<1>6. QED
  BY <1>4, <1>5 DEF Page, Loose, Wanted

\* A fetch that is no status fetch may be sent at any time.
LEMMA OtherFetchSent ==
    ASSUME NEW s, NEW fs, NEW k, NEW vs, NEW f, Page(s, fs, k, vs), TypedFetch(f, vs), f.kind # "status"
    PROVE  Page(s, fs \cup {f}, k, vs)
BY DEF Page, Loose, Ordered, Wanted

\* A fetch may be taken away at any time.
LEMMA FetchGone ==
    ASSUME NEW s, NEW fs, NEW k, NEW vs, NEW f, Page(s, fs, k, vs)
    PROVE  Page(s, fs \ {f}, k, vs)
BY DEF Page, Loose, Ordered, Wanted

-----------------------------------------------------------------------------
(* What a handler leaves behind when it returns.                           *)

Left(k, vs) == Page(state', fetches', k, vs) /\ Flags(state', waits', vs)

\* Releasing the flags of the job leaves those of no job.
LEMMA ReleasedKeeps ==
    ASSUME NEW s, NEW fs, NEW ws, NEW k, NEW vs, NEW w \in ws, Page(s, fs, k, vs), Flags(s, ws, vs)
    PROVE  /\ Page(Released(s, w), fs, k, vs)
           /\ Flags(Released(s, w), ws \ {w}, vs)
           /\ Released(s, w).corpus = s.corpus /\ Released(s, w).available = s.available
           /\ Released(s, w).indexStatus = s.indexStatus /\ Released(s, w).generation = s.generation
<1> DEFINE r == Released(s, w)
<1>1. s \in States /\ w \in Waits /\ s.rebuildingCorpus = Mark(w) /\ ws \ {w} = {}
  BY DEF Page, Loose, Flags
<1>2. /\ r \in States /\ ~r.busy /\ r.rebuildingCorpus = NoCorpus
      /\ r.corpora = s.corpora /\ r.corpus = s.corpus /\ r.available = s.available
      /\ r.indexStatus = s.indexStatus /\ r.generation = s.generation
  BY <1>1 DEF Released, States, Mark
<1>3. Page(r, fs, k, vs)
  BY <1>2 DEF Page, Loose, Selectable, Shown, Ordered, Wanted
<1>4. Flags(r, ws \ {w}, vs)
  BY <1>1, <1>2 DEF Flags
<1>5. QED
  BY <1>2, <1>3, <1>4

LEMMA ReturnKeeps ==
    ASSUME World, NEW s, NEW fs, NEW ws, NEW then, NEW k, NEW vs,
           Page(s, fs, k, vs), Flags(s, ws, vs), Return(s, fs, ws, then)
    PROVE  Left(k, vs) /\ state'.indexStatus = s.indexStatus
<1>1. CASE Continue(s, fs, ws)
  BY <1>1 DEF Continue, Left
<1>2. CASE \E w \in ws : Go(Released(s, w), fs, ws \ {w}, WorkerFetch(s, "nothing"))
  <2>1. PICK w \in ws : Go(Released(s, w), fs, ws \ {w}, WorkerFetch(s, "nothing"))
    BY <1>2
  <2>2. /\ state' = Released(s, w) /\ waits' = ws \ {w}
        /\ fetches' = fs \cup {WorkerFetch(s, "nothing")}
    BY <2>1 DEF Go, Continue
  <2>3. /\ Page(state', fs, k, vs) /\ Flags(state', waits', vs)
        /\ state'.indexStatus = s.indexStatus
    BY <2>2, ReleasedKeeps
  <2>4. TypedFetch(WorkerFetch(s, "nothing"), vs) /\ WorkerFetch(s, "nothing").kind = "worker"
    BY OtherFetchType DEF Thens
  <2>5. Page(state', fetches', k, vs)
    BY <2>2, <2>3, <2>4, OtherFetchSent
  <2>6. QED
    BY <2>3, <2>5 DEF Left
<1>3. QED
  BY <1>1, <1>2 DEF Return

\* refreshIndexStatus disowns the fetches under way, so it repairs a page that
\* is only loose.
LEMMA RefreshKeeps ==
    ASSUME World, NEW s, NEW fs, NEW ws, NEW then \in Thens, NEW k, Versions(k, version),
           Loose(s, fs, version), Flags(s, ws, version), RefreshIndexStatus(s, fs, ws, then)
    PROVE  /\ Left(k, version)
           /\ state'.indexStatus = s.indexStatus \/ state'.indexStatus = NoStatus
<1>1. s \in States /\ Selectable(s) /\ Shown(s)
  BY DEF Loose
<1>2. CASE s.corpus # NoCorpus /\ s.available
  <2> DEFINE t == [s EXCEPT !.generation = @ + 1]
             f == StatusFetch(t, then)
  <2>1. Go(t, fs, ws, f)
    BY <1>2 DEF RefreshIndexStatus
  <2>2. /\ t \in States /\ t.generation = s.generation + 1 /\ t.corpora = s.corpora
        /\ t.corpus = s.corpus /\ t.available = s.available /\ t.indexStatus = s.indexStatus
        /\ t.busy = s.busy /\ t.rebuildingCorpus = s.rebuildingCorpus
    BY <1>1 DEF States
  <2>3. Selectable(t) /\ Shown(t) /\ Flags(t, ws, version)
    BY <1>1, <2>2 DEF Selectable, Shown, Flags
  <2>4. Page(t, fs, k, version) /\ \A g \in fs : g.kind = "status" => g.generation # t.generation
    BY <1>1, <2>2, <2>3, Disowned
  <2>5. t.corpus \in Corpora
    BY <1>1, <1>2, <2>2 DEF States
  <2>6. /\ TypedFetch(f, version) /\ f.kind = "status" /\ f.corpus = t.corpus
        /\ f.generation = t.generation /\ \A a \in f.answers : k[f.corpus] <= a
    BY <2>2, <2>5, StatusFetchType
  <2>7. t.available
    BY <1>2, <2>2
  <2> HIDE DEF t, f
  <2>8. t.generation <= t.generation
    BY <2>2 DEF States
  <2>9. Page(t, fs \cup {f}, k, version)
    BY <2>4, <2>6, <2>7, <2>8 DEF Page, Loose, Ordered, Wanted
  <2>10. QED
    BY <2>1, <2>2, <2>3, <2>9 DEF Go, Continue, Left
<1>3. CASE ~(s.corpus # NoCorpus /\ s.available)
  <2> DEFINE t == ResetStatus(s)
  <2>1. Return(t, fs, ws, then)
    BY <1>3 DEF RefreshIndexStatus
  <2>2. /\ t \in States /\ t.generation = s.generation + 1 /\ t.corpora = s.corpora
        /\ t.corpus = s.corpus /\ t.indexStatus = NoStatus
        /\ t.busy = s.busy /\ t.rebuildingCorpus = s.rebuildingCorpus
    BY <1>1, ResetKeeps
  <2>3. Selectable(t) /\ Shown(t) /\ Flags(t, ws, version)
    BY <1>1, <2>2 DEF Selectable, Shown, Flags
  <2>4. Page(t, fs, k, version)
    BY <1>1, <2>2, <2>3, Disowned
  <2> HIDE DEF t
  <2>5. QED
    BY <2>1, <2>2, <2>3, <2>4, ReturnKeeps
<1>4. QED
  BY <1>2, <1>3

\* What becomes true is added to the answers of the fetches under way, and is
\* no older than what is known.
LEMMA LearnedKeeps ==
    ASSUME NEW s, NEW fs, NEW k, NEW vs, NEW us, NEW grants \in SUBSET Corpora, NEW alive \in BOOLEAN,
           Page(s, fs, k, vs), Versions(k, vs), us \in [Corpora -> Nat],
           \A c \in Corpora : vs[c] <= us[c]
    PROVE  Page(s, Learned(fs, grants, alive, us), k, us) /\ Versions(k, us)
<1> DEFINE More(f) == Truth(f.kind, f.corpus, grants, alive, us)
           Image(f) == [f EXCEPT !.answers = @ \cup More(f)]
<1>1. Versions(k, us)
  BY DEF Versions
<1>2. ASSUME NEW f \in fs
      PROVE  /\ TypedFetch(Image(f), us)
             /\ Image(f).kind = f.kind /\ Image(f).corpus = f.corpus
             /\ Image(f).generation = f.generation
             /\ Image(f).answers = f.answers \cup More(f)
             /\ f.kind = "status" => \A a \in More(f) : k[f.corpus] <= a
  <2>1. TypedFetch(f, vs)
    BY DEF Page, Loose
  <2>2. Image(f) = [id |-> f.id, kind |-> f.kind, corpus |-> f.corpus, generation |-> f.generation,
                    wasAvailable |-> f.wasAvailable, then |-> f.then, answers |-> f.answers \cup More(f)]
    <3> DEFINE m == f.answers \cup More(f)
    <3>1. Image(f) = [f EXCEPT !.answers = m]
      OBVIOUS
    <3> HIDE DEF m, Image
    <3>2. QED
      BY <2>1, <3>1 DEF TypedFetch, m
  <2>3. f.kind = "context" => More(f) \subseteq [corpora : SUBSET Corpora, up : BOOLEAN]
    BY DEF Truth
  <2>4. f.kind = "worker" => More(f) \subseteq BOOLEAN
    BY DEF Truth
  <2>5. f.kind = "status" => More(f) \subseteq {us[f.corpus]}
    BY DEF Truth
  <2>6. f.kind = "status" => /\ f.corpus \in Corpora /\ us[f.corpus] \in Nat /\ vs[f.corpus] \in Nat
                             /\ k[f.corpus] <= us[f.corpus] /\ vs[f.corpus] <= us[f.corpus]
    BY <1>1, <2>1 DEF TypedFetch, Versions
  <2>7. f.kind = "status" => \A a \in More(f) : a \in Nat /\ a <= us[f.corpus] /\ k[f.corpus] <= a
    BY <2>5, <2>6
  <2>8. f.kind = "status" => \A a \in f.answers : a \in Nat /\ a <= us[f.corpus]
    BY <2>1, <2>6 DEF TypedFetch
  <2> DEFINE m == More(f)
  <2> HIDE DEF m, Image
  <2>9. TypedFetch(Image(f), us)
    BY <2>1, <2>2, <2>3, <2>4, <2>7, <2>8 DEF TypedFetch, m
  <2>10. QED
    BY <2>2, <2>7, <2>9
<1> HIDE DEF More, Image
<1>3. \A g \in Learned(fs, grants, alive, us) : \E f \in fs : g = Image(f)
  BY DEF Learned, Image, More
<1>4. \A g \in Learned(fs, grants, alive, us) : TypedFetch(g, us)
  BY <1>2, <1>3
<1>5. Ordered(s, Learned(fs, grants, alive, us))
  BY <1>2, <1>3 DEF Page, Loose, Ordered
<1>6. Wanted(s, Learned(fs, grants, alive, us), k)
  BY <1>2, <1>3 DEF Page, Wanted
<1>7. QED
  BY <1>1, <1>4, <1>5, <1>6 DEF Page, Loose

-----------------------------------------------------------------------------
(* The steps.                                                              *)

\* What StatusNeverOlder says of a step.
NotOlder ==
    (state'.indexStatus # state.indexStatus /\ state'.indexStatus # NoStatus)
        => state'.indexStatus.version >= known[state'.indexStatus.corpus]

\* A step that leaves the versions alone and shows nothing new.
LEMMA StepKeeps ==
    ASSUME IInv, UNCHANGED <<gateway, version, known>>, events' \in Nat, Left(known, version),
           state'.indexStatus = state.indexStatus \/ state'.indexStatus = NoStatus
    PROVE  IInv' /\ NotOlder
BY DEF IInv, World, gateway, Left, NotOlder

\* The same of a step that ends in refreshIndexStatus, or in a return.
LEMMA RefreshStep ==
    ASSUME IInv, UNCHANGED <<gateway, version, known>>, events' \in Nat,
           NEW s, NEW fs, NEW ws, NEW then \in Thens, Loose(s, fs, version), Flags(s, ws, version),
           s.indexStatus = state.indexStatus \/ s.indexStatus = NoStatus,
           RefreshIndexStatus(s, fs, ws, then)
    PROVE  IInv' /\ NotOlder
<1>1. Left(known, version) /\ (state'.indexStatus = s.indexStatus \/ state'.indexStatus = NoStatus)
  BY RefreshKeeps DEF IInv
<1>2. QED
  BY <1>1, StepKeeps

LEMMA ReturnStep ==
    ASSUME IInv, UNCHANGED <<gateway, version, known>>, events' \in Nat,
           NEW s, NEW fs, NEW ws, NEW then, Page(s, fs, known, version), Flags(s, ws, version),
           s.indexStatus = state.indexStatus \/ s.indexStatus = NoStatus,
           Return(s, fs, ws, then)
    PROVE  IInv' /\ NotOlder
<1>1. Left(known, version) /\ state'.indexStatus = s.indexStatus
  BY ReturnKeeps DEF IInv
<1>2. QED
  BY <1>1, StepKeeps

LEMMA RetryContextStep ==
    ASSUME IInv, RetryContext \/ PollWorker
    PROVE  IInv' /\ NotOlder
<1>1. PICK f : /\ TypedFetch(f, version) /\ f.kind # "status"
               /\ Go(state, fetches, waits, f)
  <2>1. /\ TypedFetch(WorkerFetch(state, "nothing"), version) /\ WorkerFetch(state, "nothing").kind = "worker"
        /\ TypedFetch(ContextFetch, version) /\ ContextFetch.kind = "context"
    BY OtherFetchType DEF IInv, Thens
  <2>2. QED
    BY <2>1 DEF RetryContext, PollWorker
<1>2. state' = state /\ fetches' = fetches \cup {f} /\ waits' = waits
  BY <1>1 DEF Go, Continue
<1>3. Page(state, fetches \cup {f}, known, version)
  BY <1>1, OtherFetchSent DEF IInv
<1>4. events' \in Nat
  BY DEF RetryContext, PollWorker, Happens, IInv, World
<1>5. Left(known, version)
  BY <1>2, <1>3 DEF Left, IInv
<1>6. UNCHANGED <<gateway, version, known>>
  BY DEF RetryContext, PollWorker
<1>7. QED
  BY <1>2, <1>4, <1>5, <1>6, StepKeeps

LEMMA SelectedType ==
    ASSUME NEW s, NEW corpora \in SUBSET Corpora
    PROVE  LET c == Selected(s, corpora)
           IN  /\ c \in Corpora \cup {NoCorpus}
               /\ c \in corpora \/ (c = NoCorpus /\ corpora = {})
BY DEF Selected

LEMMA ContextArrivesStep ==
    ASSUME IInv, NEW f \in fetches, NEW a \in f.answers, ContextArrives(f, a)
    PROVE  IInv' /\ NotOlder
<1> DEFINE c == Selected(state, a.corpora)
           s == [state EXCEPT !.loaded = TRUE, !.corpora = a.corpora, !.corpus = c]
           stale == \/ ~a.up
                    \/ s.corpus # f.corpus
                    \/ s.indexStatus = NoStatus
                    \/ s.indexStatus.corpus # s.corpus
           t == [IF stale THEN ResetStatus(s) ELSE s EXCEPT !.available = a.up]
<1>1. World /\ Versions(known, version) /\ Page(state, fetches, known, version) /\ Flags(state, waits, version)
  BY DEF IInv
<1>2. a.corpora \in SUBSET Corpora /\ a.up \in BOOLEAN /\ f.then \in Thens
  BY <1>1 DEF ContextArrives, Page, Loose, TypedFetch
<1>3. c \in Corpora \cup {NoCorpus} /\ (c \in a.corpora \/ (c = NoCorpus /\ a.corpora = {}))
  BY <1>2, SelectedType
<1>4. state \in States
  BY <1>1 DEF Page, Loose
<1>5. IF a.up THEN RefreshIndexStatus(t, fetches \ {f}, waits, f.then)
      ELSE Return(t, fetches \ {f}, waits, f.then)
  BY DEF ContextArrives
<1> HIDE DEF c
<1>6. /\ s \in States /\ s.loaded /\ s.corpora = a.corpora /\ s.corpus = c
      /\ s.available = state.available /\ s.indexStatus = state.indexStatus
      /\ s.generation = state.generation /\ s.busy = state.busy
      /\ s.rebuildingCorpus = state.rebuildingCorpus
  BY <1>2, <1>3, <1>4 DEF States
<1> HIDE DEF s
<1>7. ASSUME stale
      PROVE  /\ Loose(t, fetches \ {f}, version) /\ Flags(t, waits, version)
             /\ t.indexStatus = state.indexStatus \/ t.indexStatus = NoStatus
             /\ ~a.up => Page(t, fetches \ {f}, known, version)
  <2> DEFINE r == ResetStatus(s)
  <2>1. /\ r \in States /\ r.generation = s.generation + 1
        /\ r.corpora = s.corpora /\ r.corpus = s.corpus /\ r.indexStatus = NoStatus
        /\ r.busy = s.busy /\ r.rebuildingCorpus = s.rebuildingCorpus
    BY <1>6, ResetKeeps
  <2>2. t = [r EXCEPT !.available = a.up]
    BY <1>7
  <2> HIDE DEF r
  <2>3. /\ t \in States /\ t.generation = state.generation + 1
        /\ t.corpora = a.corpora /\ t.corpus = c /\ t.indexStatus = NoStatus
        /\ t.busy = state.busy /\ t.rebuildingCorpus = state.rebuildingCorpus
    BY <1>2, <1>6, <2>1, <2>2 DEF States
  <2> HIDE DEF t
  <2>4. Selectable(t) /\ Shown(t) /\ Flags(t, waits, version)
    BY <1>1, <1>3, <2>3 DEF Selectable, Shown, Flags
  <2>5. Loose(state, fetches \ {f}, version)
    BY <1>1, FetchGone DEF Page
  <2>6. Page(t, fetches \ {f}, known, version)
    BY <1>4, <2>3, <2>4, <2>5, Disowned
  <2>7. QED
    BY <2>3, <2>4, <2>6 DEF Page
<1>8. ASSUME ~stale
      PROVE  /\ Loose(t, fetches \ {f}, version) /\ Flags(t, waits, version)
             /\ t.indexStatus = state.indexStatus \/ t.indexStatus = NoStatus
             /\ ~a.up => Page(t, fetches \ {f}, known, version)
  <2>1. t = [s EXCEPT !.available = a.up]
    BY <1>8
  <2>2. a.up /\ s.indexStatus # NoStatus /\ s.indexStatus.corpus = s.corpus
    BY <1>8
  <2>3. /\ t \in States /\ t.available /\ t.generation = state.generation
        /\ t.corpora = a.corpora /\ t.corpus = c /\ t.indexStatus = s.indexStatus
        /\ t.busy = state.busy /\ t.rebuildingCorpus = state.rebuildingCorpus
    BY <1>2, <1>6, <2>1, <2>2 DEF States
  <2> HIDE DEF t
  <2>4. Selectable(t) /\ Shown(t) /\ Flags(t, waits, version)
    BY <1>1, <1>3, <1>6, <2>2, <2>3 DEF Selectable, Shown, Flags
  <2>5. Loose(t, fetches \ {f}, version)
    BY <1>1, <2>3, <2>4 DEF Page, Loose, Ordered
  <2>6. QED
    BY <1>6, <2>2, <2>3, <2>4, <2>5
<1>9. /\ Loose(t, fetches \ {f}, version) /\ Flags(t, waits, version)
      /\ t.indexStatus = state.indexStatus \/ t.indexStatus = NoStatus
      /\ ~a.up => Page(t, fetches \ {f}, known, version)
  BY <1>7, <1>8
<1> HIDE DEF t
<1>10. UNCHANGED <<gateway, version, known>> /\ events' \in Nat
  BY <1>1 DEF ContextArrives, World
<1>11. QED
  BY <1>2, <1>5, <1>9, <1>10, RefreshStep, ReturnStep

LEMMA WorkerArrivesStep ==
    ASSUME IInv, NEW f \in fetches, NEW a \in f.answers, WorkerArrives(f, a)
    PROVE  IInv' /\ NotOlder
<1> DEFINE r == IF a THEN state ELSE ResetStatus(state)
           s == [IF a THEN state ELSE ResetStatus(state) EXCEPT !.available = a]
<1>1. World /\ Versions(known, version) /\ Page(state, fetches, known, version) /\ Flags(state, waits, version)
  BY DEF IInv
<1>2. a \in BOOLEAN /\ f.then \in Thens /\ state \in States
  BY <1>1 DEF WorkerArrives, Page, Loose, TypedFetch
<1>3. Page(state, fetches \ {f}, known, version)
  BY <1>1, FetchGone
<1>4. UNCHANGED <<gateway, version, known>> /\ events' \in Nat
  BY <1>1 DEF WorkerArrives, World
<1>5. \/ Return(state, fetches \ {f}, waits, f.then)
      \/ a /\ RefreshIndexStatus(s, fetches \ {f}, waits, f.then)
      \/ Return(s, fetches \ {f}, waits, f.then)
  BY DEF WorkerArrives
<1>6. /\ r \in States /\ r.corpora = state.corpora /\ r.corpus = state.corpus
      /\ r.busy = state.busy /\ r.rebuildingCorpus = state.rebuildingCorpus
      /\ IF a THEN r.indexStatus = state.indexStatus /\ r.generation = state.generation
         ELSE r.indexStatus = NoStatus /\ r.generation = state.generation + 1
  BY <1>2, ResetKeeps
<1>7. s = [r EXCEPT !.available = a]
  OBVIOUS
<1> HIDE DEF r, s
<1>8. /\ s \in States /\ s.corpora = state.corpora /\ s.corpus = state.corpus /\ s.available = a
      /\ s.busy = state.busy /\ s.rebuildingCorpus = state.rebuildingCorpus
      /\ IF a THEN s.indexStatus = state.indexStatus /\ s.generation = state.generation
         ELSE s.indexStatus = NoStatus /\ s.generation = state.generation + 1
  BY <1>2, <1>6, <1>7 DEF States
<1>9. Selectable(s) /\ Shown(s) /\ Flags(s, waits, version)
  BY <1>1, <1>8 DEF Page, Loose, Selectable, Shown, Flags
<1>10. Page(s, fetches \ {f}, known, version)
  <2>1. CASE a
    BY <1>3, <1>8, <1>9, <2>1 DEF Page, Loose, Ordered, Wanted
  <2>2. CASE ~a
    BY <1>2, <1>3, <1>8, <1>9, <2>2, Disowned DEF Page
  <2>3. QED
    BY <2>1, <2>2
<1>11. s.indexStatus = state.indexStatus \/ s.indexStatus = NoStatus
  BY <1>8
<1>12. CASE Return(state, fetches \ {f}, waits, f.then)
  BY <1>1, <1>3, <1>4, <1>12, ReturnStep
<1>13. CASE RefreshIndexStatus(s, fetches \ {f}, waits, f.then)
  BY <1>2, <1>4, <1>9, <1>10, <1>11, <1>13, RefreshStep DEF Page
<1>14. CASE Return(s, fetches \ {f}, waits, f.then)
  BY <1>4, <1>9, <1>10, <1>11, <1>14, ReturnStep
<1>15. QED
  BY <1>5, <1>12, <1>13, <1>14

\* A fetch of the context or of the worker fails.
LEMMA OtherFailsStep ==
    ASSUME IInv, NEW f \in fetches, ContextFails(f) \/ WorkerFails(f)
    PROVE  IInv' /\ NotOlder
<1> DEFINE r == [state EXCEPT !.available = FALSE]
           s == ResetStatus(r)
<1>1. World /\ Page(state, fetches, known, version) /\ Flags(state, waits, version) /\ state \in States
  BY DEF IInv, Page, Loose
<1>2. Page(state, fetches \ {f}, known, version)
  BY <1>1, FetchGone
<1>3. UNCHANGED <<gateway, version, known>> /\ events' \in Nat
  BY <1>1 DEF ContextFails, WorkerFails, World
<1>4. Return(state, fetches \ {f}, waits, f.then) \/ Return(s, fetches \ {f}, waits, f.then)
  BY DEF ContextFails, WorkerFails
<1>5. /\ r \in States /\ r.corpora = state.corpora /\ r.corpus = state.corpus
      /\ r.busy = state.busy /\ r.rebuildingCorpus = state.rebuildingCorpus
      /\ r.generation = state.generation
  BY <1>1 DEF States
<1> HIDE DEF r
<1>6. /\ s \in States /\ s.corpora = state.corpora /\ s.corpus = state.corpus
      /\ s.busy = state.busy /\ s.rebuildingCorpus = state.rebuildingCorpus
      /\ s.generation = state.generation + 1 /\ s.indexStatus = NoStatus
  BY <1>5, ResetKeeps
<1> HIDE DEF s
<1>7. Selectable(s) /\ Shown(s) /\ Flags(s, waits, version)
  BY <1>1, <1>6 DEF Page, Loose, Selectable, Shown, Flags
<1>8. Page(s, fetches \ {f}, known, version)
  BY <1>1, <1>2, <1>6, <1>7, Disowned DEF Page
<1>9. CASE Return(state, fetches \ {f}, waits, f.then)
  BY <1>1, <1>2, <1>3, <1>9, ReturnStep
<1>10. CASE Return(s, fetches \ {f}, waits, f.then)
  BY <1>3, <1>6, <1>7, <1>8, <1>10, ReturnStep
<1>11. QED
  BY <1>4, <1>9, <1>10

LEMMA NewerType ==
    ASSUME NEW m \in Nat, NEW n \in Nat
    PROVE  Newer(m, n) \in {m, n} /\ m <= Newer(m, n) /\ n <= Newer(m, n)
BY DEF Newer

\* What is known grows with an answer that is no newer than the truth.
LEMMA KnownGrows ==
    ASSUME NEW k, NEW vs, Versions(k, vs), NEW c \in Corpora, NEW a \in Nat, a <= vs[c]
    PROVE  LET m == [k EXCEPT ![c] = Newer(@, a)]
           IN  Versions(m, vs) /\ \A d \in Corpora : d # c => m[d] = k[d]
<1> DEFINE n == Newer(k[c], a)
           m == [k EXCEPT ![c] = n]
<1>1. k[c] \in Nat /\ k[c] <= vs[c] /\ vs[c] \in Nat
  BY DEF Versions
<1>2. n \in Nat /\ n <= vs[c]
  BY <1>1, NewerType
<1> HIDE DEF n
<1>3. Versions(m, vs) /\ \A d \in Corpora : d # c => m[d] = k[d]
  BY <1>2 DEF Versions
<1>4. QED
  BY <1>3 DEF n

\* The answer to a status fetch that is still wanted: it is the last such fetch,
\* so what becomes known disturbs no other.
LEMMA StatusArrivesStep ==
    ASSUME IInv, NEW f \in fetches, NEW a \in f.answers, StatusArrives(f, a)
    PROVE  IInv' /\ NotOlder
<1> DEFINE fs == fetches \ {f}
<1>1. World /\ Versions(known, version) /\ Page(state, fetches, known, version) /\ Flags(state, waits, version)
  BY DEF IInv
<1>2. f.kind = "status" /\ f.corpus \in Corpora /\ a \in Nat /\ a <= version[f.corpus] /\ state \in States
  BY <1>1 DEF StatusArrives, Page, Loose, TypedFetch
<1>3. Page(state, fs, known, version)
  BY <1>1, FetchGone
<1>4. UNCHANGED <<gateway, version>> /\ events' \in Nat
  BY <1>1 DEF StatusArrives, World
<1>5. CASE ~Current(f)
  <2>1. Return(state, fs, waits, f.then) /\ UNCHANGED known
    BY <1>5 DEF StatusArrives
  <2>2. QED
    BY <1>1, <1>3, <1>4, <2>1, ReturnStep
<1>6. CASE Current(f)
  <2> DEFINE status == [corpus |-> f.corpus, version |-> a]
             s == [state EXCEPT !.indexStatus = status]
             k == [known EXCEPT ![f.corpus] = Newer(@, a)]
  <2>1. Return(s, fs, waits, f.then) /\ known' = k
    BY <1>6 DEF StatusArrives
  <2>2. state.available /\ f.corpus = state.corpus /\ known[f.corpus] <= a /\ f.generation = state.generation
    BY <1>1, <1>2, <1>6 DEF Page, Wanted, Current
  <2>3. status \in Statuses
    BY <1>2 DEF Statuses
  <2> HIDE DEF status
  <2>4. /\ s \in States /\ s.corpora = state.corpora /\ s.corpus = state.corpus
        /\ s.available = state.available /\ s.indexStatus = status
        /\ s.generation = state.generation
        /\ s.busy = state.busy /\ s.rebuildingCorpus = state.rebuildingCorpus
    BY <1>2, <2>3 DEF States
  <2>5. Versions(k, version)
    BY <1>1, <1>2, KnownGrows
  <2> HIDE DEF s, k
  <2>6. status.corpus = state.corpus /\ status.version = a
    BY <2>2 DEF status
  <2>7. Selectable(s) /\ Shown(s) /\ Flags(s, waits, version)
    BY <1>1, <2>2, <2>4, <2>6 DEF Page, Loose, Selectable, Shown, Flags
  <2>8. \A g \in fs : g.kind = "status" => g.generation # s.generation
    BY <1>1, <1>2, <2>2, <2>4 DEF Page, Loose, Ordered
  <2>9. Page(s, fs, k, version)
    BY <1>3, <2>4, <2>7, <2>8 DEF Page, Loose, Ordered, Wanted
  <2>10. Left(k, version) /\ state'.indexStatus = status
    BY <1>1, <2>1, <2>4, <2>7, <2>9, ReturnKeeps
  <2>11. NotOlder
    BY <2>2, <2>6, <2>10, <1>2 DEF NotOlder, status
  <2>12. IInv'
    BY <1>1, <1>4, <2>1, <2>5, <2>10 DEF IInv, World, gateway, Left
  <2>13. QED
    BY <2>11, <2>12
<1>7. QED
  BY <1>5, <1>6

LEMMA StatusFailsStep ==
    ASSUME IInv, NEW f \in fetches, StatusFails(f)
    PROVE  IInv' /\ NotOlder
<1> DEFINE s == [state EXCEPT !.indexStatus = NoStatus]
<1>1. World /\ Page(state, fetches, known, version) /\ Flags(state, waits, version) /\ state \in States
  BY DEF IInv, Page, Loose
<1>2. Page(state, fetches \ {f}, known, version)
  BY <1>1, FetchGone
<1>3. UNCHANGED <<gateway, version, known>> /\ events' \in Nat
  BY <1>1 DEF StatusFails, World
<1>4. Return(state, fetches \ {f}, waits, f.then) \/ Return(s, fetches \ {f}, waits, f.then)
  BY DEF StatusFails
<1>5. /\ s \in States /\ s.corpora = state.corpora /\ s.corpus = state.corpus
      /\ s.available = state.available /\ s.indexStatus = NoStatus
      /\ s.generation = state.generation
      /\ s.busy = state.busy /\ s.rebuildingCorpus = state.rebuildingCorpus
  BY <1>1 DEF States
<1> HIDE DEF s
<1>6. Flags(s, waits, version) /\ Page(s, fetches \ {f}, known, version)
  BY <1>1, <1>2, <1>5 DEF Page, Loose, Selectable, Shown, Ordered, Wanted, Flags
<1>7. CASE Return(state, fetches \ {f}, waits, f.then)
  BY <1>1, <1>2, <1>3, <1>7, ReturnStep
<1>8. CASE Return(s, fetches \ {f}, waits, f.then)
  BY <1>3, <1>5, <1>6, <1>8, ReturnStep
<1>9. QED
  BY <1>4, <1>7, <1>8

LEMMA SelectCorpusStep ==
    ASSUME IInv, NEW c \in Corpora, SelectCorpus(c)
    PROVE  IInv' /\ NotOlder
<1> DEFINE r == [state EXCEPT !.corpus = c]
           s == ResetStatus(r)
<1>1. World /\ Page(state, fetches, known, version) /\ Flags(state, waits, version) /\ state \in States
  BY DEF IInv, Page, Loose
<1>2. /\ RefreshIndexStatus(s, fetches, waits, "nothing")
      /\ UNCHANGED <<gateway, version, known>> /\ events' \in Nat /\ c \in state.corpora
  BY <1>1 DEF SelectCorpus, Happens, World
<1>3. /\ r \in States /\ r.corpora = state.corpora /\ r.corpus = c
      /\ r.generation = state.generation
      /\ r.busy = state.busy /\ r.rebuildingCorpus = state.rebuildingCorpus
  BY <1>1 DEF States
<1> HIDE DEF r
<1>4. /\ s \in States /\ s.corpora = state.corpora /\ s.corpus = c
      /\ s.generation = state.generation + 1 /\ s.indexStatus = NoStatus
      /\ s.busy = state.busy /\ s.rebuildingCorpus = state.rebuildingCorpus
  BY <1>3, ResetKeeps
<1> HIDE DEF s
<1>5. Selectable(s) /\ Shown(s) /\ Flags(s, waits, version)
  BY <1>1, <1>2, <1>4 DEF Selectable, Shown, Flags
<1>6. Page(s, fetches, known, version)
  BY <1>1, <1>4, <1>5, Disowned DEF Page
<1>7. QED
  BY <1>2, <1>4, <1>5, <1>6, RefreshStep DEF Page, Thens

LEMMA SubmitStep ==
    ASSUME IInv, NEW operation \in Operations, Submit(operation)
    PROVE  IInv' /\ NotOlder
<1> DEFINE mark == IF operation = "index" THEN state.corpus ELSE state.rebuildingCorpus
           s == [state EXCEPT !.busy = TRUE, !.rebuildingCorpus = mark]
           w == [operation |-> operation, corpus |-> state.corpus,
                 step |-> "posting", job |-> "running", built |-> 0]
<1>1. /\ World /\ Versions(known, version) /\ Page(state, fetches, known, version)
      /\ Flags(state, waits, version) /\ state \in States
  BY DEF IInv, Page, Loose
<1>2. /\ state' = s /\ waits' = waits \cup {w} /\ ~state.busy
      /\ operation # "model" => state.corpus # NoCorpus
      /\ UNCHANGED <<fetches, gateway, version, known>> /\ events' \in Nat
  BY <1>1 DEF Submit, MaySubmit, Happens, World
<1>3. waits = {} /\ state.rebuildingCorpus = NoCorpus
  BY <1>1, <1>2 DEF Flags
<1>4. state.corpus \in Corpora \cup {NoCorpus} /\ mark \in Corpora \cup {NoCorpus}
  BY <1>1 DEF States
<1>5. operation = "index" => state.corpus \in Corpora /\ version[state.corpus] \in Nat
  BY <1>1, <1>2, <1>4 DEF Versions
<1>6. w \in Waits /\ w.operation = operation /\ w.corpus = state.corpus /\ w.built = 0
  BY <1>4 DEF Waits, JobStates
<1>7. mark = Mark(w)
  BY <1>3, <1>6 DEF Mark
<1> HIDE DEF mark, w
<1>8. /\ s \in States /\ s.corpora = state.corpora /\ s.corpus = state.corpus
      /\ s.available = state.available /\ s.indexStatus = state.indexStatus
      /\ s.generation = state.generation /\ s.busy /\ s.rebuildingCorpus = mark
  BY <1>1, <1>4 DEF States
<1> HIDE DEF s
<1>9. Page(s, fetches, known, version)
  BY <1>1, <1>8 DEF Page, Loose, Selectable, Shown, Ordered, Wanted
<1>10. waits' = {w}
  BY <1>2, <1>3
<1>11. Flags(s, {w}, version)
  BY <1>5, <1>6, <1>7, <1>8 DEF Flags
<1>12. Left(known, version)
  BY <1>2, <1>9, <1>10, <1>11 DEF Left
<1>13. QED
  BY <1>2, <1>8, <1>12, StepKeeps

\* The job awaited goes on.
LEMMA WaitGoesOn ==
    ASSUME NEW s, NEW ws, NEW vs, NEW us, Flags(s, ws, vs), NEW w \in ws, NEW x \in Waits,
           x.operation = w.operation, x.corpus = w.corpus,
           x.operation = "index" => x.built <= us[x.corpus]
    PROVE  Flags(s, (ws \ {w}) \cup {x}, us)
<1>1. (ws \ {w}) \cup {x} = {x}
  BY DEF Flags
<1>2. s.busy /\ s.rebuildingCorpus = Mark(x) /\ (x.operation = "index" => x.corpus \in Corpora)
  BY DEF Flags, Mark
<1>3. QED
  BY <1>1, <1>2 DEF Flags

LEMMA WaitType ==
    ASSUME NEW w \in Waits
    PROVE  \A step \in {"posting", "polling", "fetching", "refreshing"} :
              LET x == [w EXCEPT !.step = step]
              IN  x \in Waits /\ x.operation = w.operation /\ x.corpus = w.corpus /\ x.built = w.built
BY DEF Waits

\* The steps of submitAndWait between its awaits.
LEMMA WaitOnStep ==
    ASSUME IInv, NEW w \in waits, Accepted(w) \/ JobDone(w) \/ ModelSwitched(w)
    PROVE  IInv' /\ NotOlder
<1> DEFINE After(step) == (waits \ {w}) \cup {[w EXCEPT !.step = step]}
           worker == WorkerFetch(state, "wait")
<1>1. World /\ Page(state, fetches, known, version) /\ Flags(state, waits, version) /\ w \in Waits
  BY DEF IInv, Flags
<1>2. \A step \in {"posting", "polling", "fetching", "refreshing"} : Flags(state, After(step), version)
  <2> TAKE step \in {"posting", "polling", "fetching", "refreshing"}
  <2> DEFINE x == [w EXCEPT !.step = step]
  <2>1. x \in Waits /\ x.operation = w.operation /\ x.corpus = w.corpus /\ x.built = w.built
    BY <1>1, WaitType
  <2>2. w.operation = "index" => w.built <= version[w.corpus]
    BY <1>1 DEF Flags
  <2> HIDE DEF x
  <2>3. Flags(state, (waits \ {w}) \cup {x}, version)
    BY <1>1, <2>1, <2>2, WaitGoesOn
  <2>4. QED
    BY <2>3 DEF x
<1>3. Page(state, fetches \cup {worker}, known, version)
  <2>1. TypedFetch(worker, version) /\ worker.kind = "worker"
    BY <1>1, OtherFetchType DEF Thens
  <2>2. QED
    BY <1>1, <2>1, OtherFetchSent
<1> HIDE DEF After, worker
<1>4. /\ state' = state /\ UNCHANGED <<gateway, version, known>> /\ events' \in Nat
      /\ fetches' = fetches \/ fetches' = fetches \cup {worker}
      /\ \E step \in {"posting", "polling", "fetching", "refreshing"} : waits' = After(step)
  BY <1>1 DEF Accepted, JobDone, ModelSwitched, Go, Continue, World, After, worker
<1>5. Left(known, version)
  BY <1>1, <1>2, <1>3, <1>4 DEF Left
<1>6. QED
  BY <1>4, <1>5, StepKeeps

\* submitAndWait throws, or an answer is there.
LEMMA WaitFailsStep ==
    ASSUME IInv, NEW w \in waits, WaitFails(w) \/ AskAnswered(w)
    PROVE  IInv' /\ NotOlder
<1> DEFINE s == Released(state, w)
           worker == WorkerFetch(s, "nothing")
<1>1. World /\ Page(state, fetches, known, version) /\ Flags(state, waits, version)
  BY DEF IInv
<1>2. /\ Page(s, fetches, known, version) /\ Flags(s, waits \ {w}, version)
      /\ s.indexStatus = state.indexStatus
  BY <1>1, ReleasedKeeps
<1>3. UNCHANGED <<gateway, version, known>> /\ events' \in Nat
  BY <1>1 DEF WaitFails, AskAnswered, World
<1>4. Page(s, fetches \cup {worker}, known, version)
  <2>1. TypedFetch(worker, version) /\ worker.kind = "worker"
    BY <1>1, OtherFetchType DEF Thens
  <2>2. QED
    BY <1>2, <2>1, OtherFetchSent
<1> HIDE DEF s, worker
<1>5. \/ RefreshIndexStatus(s, fetches, waits \ {w}, "nothing")
      \/ Continue(s, fetches, waits \ {w})
      \/ Continue(s, fetches \cup {worker}, waits \ {w})
  BY DEF WaitFails, AskAnswered, Throw, Go, s, worker
<1>6. CASE RefreshIndexStatus(s, fetches, waits \ {w}, "nothing")
  BY <1>2, <1>3, <1>6, RefreshStep DEF Page, Thens
<1>7. CASE \E fs \in {fetches, fetches \cup {worker}} : Continue(s, fs, waits \ {w})
  <2>1. Left(known, version) /\ state'.indexStatus = state.indexStatus
    BY <1>2, <1>4, <1>7 DEF Continue, Left
  <2>2. QED
    BY <1>3, <2>1, StepKeeps
<1>8. QED
  BY <1>5, <1>6, <1>7

\* A rebuild this page waited for: either the status is read again, or the
\* fetches that are still wanted are about another corpus.
LEMMA IndexRebuiltStep ==
    ASSUME IInv, NEW w \in waits, IndexRebuilt(w)
    PROVE  IInv' /\ NotOlder
<1> DEFINE s == Released(state, w)
           k == [known EXCEPT ![w.corpus] = Newer(@, w.built)]
<1>1. World /\ Versions(known, version) /\ Page(state, fetches, known, version) /\ Flags(state, waits, version)
  BY DEF IInv
<1>2. w.corpus \in Corpora /\ w.built \in Nat /\ w.built <= version[w.corpus]
  BY <1>1 DEF IndexRebuilt, Flags, Waits
<1>3. Versions(k, version) /\ \A d \in Corpora : d # w.corpus => k[d] = known[d]
  BY <1>1, <1>2, KnownGrows
<1>4. /\ Page(s, fetches, known, version) /\ Flags(s, waits \ {w}, version)
      /\ s.corpus = state.corpus /\ s.indexStatus = state.indexStatus
  BY <1>1, ReleasedKeeps
<1>5. /\ UNCHANGED <<events, gateway, version>> /\ known' = k
      /\ IF state.corpus = w.corpus THEN RefreshIndexStatus(s, fetches, waits \ {w}, "nothing")
         ELSE Continue(s, fetches, waits \ {w})
  BY DEF IndexRebuilt
<1> HIDE DEF s, k
<1>6. Left(k, version) /\ (state'.indexStatus = state.indexStatus \/ state'.indexStatus = NoStatus)
  <2>1. CASE state.corpus = w.corpus
    BY <1>1, <1>3, <1>4, <1>5, <2>1, RefreshKeeps DEF Page, Thens
  <2>2. CASE state.corpus # w.corpus
    <3>1. \A f \in fetches : f.kind = "status" /\ f.generation = s.generation =>
             f.corpus \in Corpora /\ f.corpus # w.corpus
      BY <1>4, <2>2 DEF Page, Loose, TypedFetch, Wanted
    <3>2. Wanted(s, fetches, k)
      BY <1>3, <1>4, <3>1 DEF Page, Wanted
    <3>3. QED
      BY <1>4, <1>5, <2>2, <3>2 DEF Page, Continue, Left
  <2>3. QED
    BY <2>1, <2>2
<1>7. IInv'
  BY <1>1, <1>3, <1>5, <1>6 DEF IInv, World, gateway, Left
<1>8. QED
  BY <1>6, <1>7 DEF NotOlder

LEMMA JobEndsStep ==
    ASSUME IInv, NEW w \in waits, NEW outcome \in {"succeeded", "failed"}, JobEnds(w, outcome)
    PROVE  IInv' /\ NotOlder
<1> DEFINE rebuilt == w.operation = "index" /\ outcome = "succeeded"
           v == IF rebuilt THEN [version EXCEPT ![w.corpus] = @ + 1] ELSE version
           built == IF rebuilt THEN v[w.corpus] ELSE 0
           x == [w EXCEPT !.job = outcome, !.built = built]
<1>1. /\ World /\ Versions(known, version) /\ Page(state, fetches, known, version)
      /\ Flags(state, waits, version) /\ w \in Waits
  BY DEF IInv, Flags
<1>2. /\ version' = v /\ fetches' = Learned(fetches, granted, up, v)
      /\ waits' = (waits \ {w}) \cup {x}
      /\ UNCHANGED <<state, events, gateway, known>>
  BY DEF JobEnds
<1>3. version \in [Corpora -> Nat] /\ (w.operation = "index" => w.corpus \in Corpora)
  BY <1>1 DEF Versions, Flags
<1>4. v \in [Corpora -> Nat] /\ \A c \in Corpora : version[c] <= v[c]
  BY <1>3
<1>5. built \in Nat /\ (w.operation = "index" => built <= v[w.corpus])
  BY <1>3, <1>4
<1> HIDE DEF built, v
<1>6. x \in Waits /\ x.operation = w.operation /\ x.corpus = w.corpus /\ x.built = built
  BY <1>1, <1>5 DEF Waits, JobStates
<1> HIDE DEF x
<1>7. Flags(state, waits', v)
  BY <1>1, <1>2, <1>5, <1>6, WaitGoesOn
<1>8. Page(state, Learned(fetches, granted, up, v), known, v) /\ Versions(known, v)
  BY <1>1, <1>4, LearnedKeeps DEF World
<1>9. IInv'
  BY <1>1, <1>2, <1>7, <1>8 DEF IInv, World, gateway
<1>10. QED
  BY <1>2, <1>9 DEF NotOlder

LEMMA ChangeStep ==
    ASSUME IInv, Change
    PROVE  IInv' /\ NotOlder
<1>1. /\ World /\ Versions(known, version) /\ Page(state, fetches, known, version)
      /\ Flags(state, waits, version)
  BY DEF IInv
<1>2. /\ fetches' = Learned(fetches, granted', up', version') /\ changes' = changes + 1
      /\ UNCHANGED <<state, waits, events, known>>
  BY DEF Change
<1>3. version \in [Corpora -> Nat]
  BY <1>1 DEF Versions
<1>4. /\ granted' \in SUBSET Corpora /\ up' \in BOOLEAN /\ version' \in [Corpora -> Nat]
      /\ \A c \in Corpora : version[c] <= version'[c]
  <2>1. CASE up' = ~up /\ UNCHANGED <<granted, version>>
    BY <1>1, <1>3, <2>1 DEF World
  <2>2. CASE granted' \in SUBSET Corpora \ {granted} /\ UNCHANGED <<up, version>>
    BY <1>1, <1>3, <2>2 DEF World
  <2>3. CASE /\ \E c \in Corpora : version' = [version EXCEPT ![c] = @ + 1]
             /\ UNCHANGED <<granted, up>>
    BY <1>1, <1>3, <2>3 DEF World
  <2>4. QED
    BY <2>1, <2>2, <2>3 DEF Change
<1>5. Page(state, Learned(fetches, granted', up', version'), known, version') /\ Versions(known, version')
  BY <1>1, <1>4, LearnedKeeps
<1>6. Flags(state, waits, version')
  BY <1>1, <1>3, <1>4 DEF Flags, Waits
<1>7. IInv'
  BY <1>1, <1>2, <1>4, <1>5, <1>6 DEF IInv, World
<1>8. QED
  BY <1>2, <1>7 DEF NotOlder

LEMMA InitInv == Init => IInv
<1> SUFFICES ASSUME Init PROVE IInv
  OBVIOUS
<1> DEFINE f == [id |-> 1, kind |-> "context", corpus |-> NoCorpus, generation |-> 0, wasAvailable |-> FALSE,
                 then |-> "start", answers |-> {[corpora |-> Corpora, up |-> TRUE]}]
<1>1. World /\ Versions(known, version) /\ Flags(state, waits, version)
  BY DEF Init, World, Versions, Flags
<1>2. /\ state.corpora = {} /\ state.corpus = NoCorpus /\ ~state.available /\ state.indexStatus = NoStatus
      /\ state.generation = 0
  BY DEF Init
<1>3. state \in States
  BY DEF Init, States
<1>4. fetches = {f} /\ f.kind = "context"
  BY DEF Init
<1>5. TypedFetch(f, version)
  <2>1. f.answers \subseteq [corpora : SUBSET Corpora, up : BOOLEAN]
    OBVIOUS
  <2>2. QED
    BY <2>1 DEF TypedFetch, Thens
<1> HIDE DEF f
<1>6. Page(state, fetches, known, version)
  BY <1>2, <1>3, <1>4, <1>5 DEF Page, Loose, Selectable, Shown, Ordered, Wanted
<1>7. QED
  BY <1>1, <1>6 DEF IInv

LEMMA NextInv ==
    ASSUME IInv, [Next]_vars
    PROVE  IInv' /\ NotOlder
<1>1. CASE UNCHANGED vars
  <2>1. IInv'
    BY <1>1 DEF IInv, World, vars, gateway
  <2>2. QED
    BY <1>1, <2>1 DEF vars, NotOlder
<1>2. CASE RetryContext \/ PollWorker
  BY <1>2, RetryContextStep
<1>3. CASE Change
  BY <1>3, ChangeStep
<1>4. CASE \E c \in Corpora : SelectCorpus(c)
  BY <1>4, SelectCorpusStep
<1>5. CASE \E operation \in Operations : Submit(operation)
  BY <1>5, SubmitStep
<1>6. CASE \E f \in fetches : Arrives(f)
  BY <1>6, ContextArrivesStep, WorkerArrivesStep, StatusArrivesStep DEF Arrives
<1>7. CASE \E f \in fetches : Fails(f)
  BY <1>7, OtherFailsStep, StatusFailsStep DEF Fails
<1>8. CASE \E w \in waits : Wait(w)
  BY <1>8, WaitOnStep, WaitFailsStep, IndexRebuiltStep DEF Wait
<1>9. CASE \E w \in waits, outcome \in {"succeeded", "failed"} : JobEnds(w, outcome)
  BY <1>9, JobEndsStep
<1>10. QED
  BY <1>1, <1>2, <1>3, <1>4, <1>5, <1>6, <1>7, <1>8, <1>9 DEF Next

-----------------------------------------------------------------------------
(* The theorems.                                                           *)

\* The inductive invariant holds of every behaviour.
THEOREM Invariant == Spec => []IInv
<1>1. IInv /\ [Next]_vars => IInv'
  BY NextInv
<1>2. QED
  BY <1>1, InitInv, PTL DEF Spec

\* Every variable of the page, and every field of its state object, keeps its
\* type, and what is selected is among what may be selected.
THEOREM TypeCorrect == Spec => []TypeOK
<1>1. IInv => TypeOK
  BY DEF IInv, World, Versions, Page, Loose, Selectable, States, TypedFetch, Thens, Flags, Waits, TypeOK
<1>2. QED
  BY <1>1, Invariant, PTL

\* The index panel shows the selected corpus of a worker that is available,
\* whatever order the answers arrive in.
THEOREM PanelShowsSelection == Spec => []StatusOfSelection
<1>1. IInv => StatusOfSelection
  BY DEF IInv, Page, Loose, Shown, StatusOfSelection
<1>2. QED
  BY <1>1, Invariant, PTL

\* The flags that lock the controls are those of the one job awaited: set with
\* it, and cleared on every way out of submitAndWait.
THEOREM FlagsFollowJob == Spec => []FlagsOfOneJob
<1>1. ASSUME IInv PROVE FlagsOfOneJob
  <2>1. Flags(state, waits, version) /\ NoCorpus \notin Corpora
    BY <1>1, BrowserAssumption DEF IInv
  <2>2. Cardinality(waits) <= 1
    <3>1. CASE waits = {}
      <4>1. Cardinality(waits) = 0
        BY <3>1, FS_EmptySet
      <4>2. QED
        BY <4>1
    <3>2. CASE waits # {}
      <4>1. PICK w \in waits : TRUE
        BY <3>2
      <4>2. waits = {w}
        BY <2>1 DEF Flags
      <4>3. Cardinality(waits) = 1
        BY <4>2, FS_Singleton
      <4>4. QED
        BY <4>3
    <3>3. QED
      BY <3>1, <3>2
  <2>3. state.busy <=> waits # {}
    BY <2>1 DEF Flags
  <2>4. \A c \in Corpora :
           state.rebuildingCorpus = c <=> \E w \in waits : w.operation = "index" /\ w.corpus = c
    BY <2>1 DEF Flags, Mark
  <2>5. QED
    BY <2>2, <2>3, <2>4 DEF FlagsOfOneJob
<1>2. QED
  BY <1>1, Invariant, PTL

\* What the panel comes to show is never older than what the page knew, however
\* late an answer arrives and whatever was rebuilt in the meantime.
THEOREM PanelNeverGoesBack == Spec => StatusNeverOlder
<1>1. IInv /\ [Next]_vars => [NotOlder]_vars
  BY NextInv
<1>2. QED
  BY <1>1, Invariant, PTL DEF Spec, StatusNeverOlder, NotOlder
=============================================================================
