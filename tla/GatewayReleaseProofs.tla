------------------------ MODULE GatewayReleaseProofs ------------------------
(***************************************************************************)
(* For any numbers of users, notebooks, revisions, requests and jobs:      *)
(* types, the agreement of the ownership database with the worker, and     *)
(* that nothing is submitted or released which was not in order after the  *)
(* last answer it rests on.                                                *)
(***************************************************************************)
EXTENDS GatewayRelease, TLAPS

USE GatewayReleaseAssumption DEF GatewayReleaseAssumption

-----------------------------------------------------------------------------
(* Types of the operators on contexts and scopes.                          *)

\* A context response pairs readable notebooks with revisions.
LEMMA ContextType ==
    ASSUME NEW u \in Users \cup {SignedOut},
           NEW g \in [Users -> SUBSET Notebooks], NEW r \in [Notebooks -> Revisions]
    PROVE  Context(u, g, r) \in Scopes
<1>1. CASE u = SignedOut
    <2>1. NoScope \in [{} -> Revisions]
        BY DEF NoScope
    <2>2. {} \in SUBSET Notebooks
        OBVIOUS
    <2> QED BY <1>1, <2>1, <2>2 DEF Context, Scopes
<1>2. CASE u \in Users
    <2>1. g[u] \in SUBSET Notebooks
        BY <1>2
    <2>2. [n \in g[u] |-> r[n]] \in [g[u] -> Revisions]
        BY <2>1
    <2> QED BY <1>2, <2>1, <2>2 DEF Context, Scopes
<1> QED BY <1>1, <1>2

\* So is the part of it a request selects.
LEMMA ResolveType ==
    ASSUME NEW context \in Scopes, NEW request
    PROVE  Resolve(context, request) \in Scopes
<1>1. PICK S \in SUBSET Notebooks : context \in [S -> Revisions]
    BY DEF Scopes
<1> DEFINE T == S \cap request.corpus
<1>2. Resolve(context, request) \in [T -> Revisions]
    BY <1>1 DEF Resolve
<1>3. T \in SUBSET Notebooks
    BY <1>1
<1> HIDE DEF T
<1> QED BY <1>2, <1>3 DEF Scopes

\* The empty scope is a scope.
LEMMA NoScopeType == NoScope \in Scopes
<1>1. NoScope \in [{} -> Revisions]
    BY DEF NoScope
<1>2. {} \in SUBSET Notebooks
    OBVIOUS
<1> QED BY <1>1, <1>2 DEF Scopes

-----------------------------------------------------------------------------
(* Types.                                                                  *)

\* The phase of a handler tells what it holds.
LEMMA ByPhase ==
    ASSUME NEW k \in Calls
    PROVE  /\ k.pc \in {"preparing", "refreshing", "retrying", "submitting"} <=> k \in Submitting
           /\ k.pc \in {"recording", "accepted", "collided"} <=> k \in Recording
           /\ k.pc \in {"authorizing", "asking", "answered", "reauthorizing", "released"} <=> k \in Reading
           /\ k.pc \in {"checking", "checked", "reported"} <=> k \in Checking
           /\ k.pc = "idle" <=> k = Idle
<1>1. k \in Submitting => k.pc \in {"preparing", "refreshing", "retrying", "submitting"}
    BY DEF Submitting
<1>2. k \in Recording => k.pc \in {"recording", "accepted", "collided"}
    BY DEF Recording
<1>3. k \in Reading => k.pc \in {"authorizing", "asking", "answered", "reauthorizing", "released"}
    BY DEF Reading
<1>4. k \in Checking => k.pc \in {"checking", "checked", "reported"}
    BY DEF Checking
<1>5. k = Idle => k.pc = "idle"
    BY DEF Idle
<1> QED BY <1>1, <1>2, <1>3, <1>4, <1>5 DEF Calls

\* A handler goes on with something well typed.
LEMMA GoType ==
    ASSUME CallsType, NEW c \in Callers, NEW k \in Calls, Go(c, k),
           DOMAIN jobs \subseteq DOMAIN jobs',
           k \in Recording \cup Reading => k.job \in DOMAIN jobs'
    PROVE  CallsType'
BY DEF CallsType, Go

\* What Now(c) and a scope resolved from it are.
LEMMA NowType ==
    ASSUME NovoType, NEW c \in Callers, NEW request
    PROVE  Now(c) \in Scopes /\ Resolve(Now(c), request) \in Scopes
<1>1. Now(c) \in Scopes
    BY ContextType DEF NovoType, Now
<1> QED BY <1>1, ResolveType

\* The worker's purge changes the state of jobs and nothing else.
LEMMA KeptType ==
    ASSUME TablesType
    PROVE  /\ DOMAIN Kept = DOMAIN jobs
           /\ \A j \in DOMAIN jobs :
                /\ Kept[j] \in Jobs
                /\ Kept[j].actor = jobs[j].actor /\ Kept[j].key = jobs[j].key
                /\ Kept[j].request = jobs[j].request /\ Kept[j].scope = jobs[j].scope
<1>1. SUFFICES ASSUME NEW j \in DOMAIN jobs
               PROVE  /\ Kept[j] \in Jobs
                      /\ Kept[j].actor = jobs[j].actor /\ Kept[j].key = jobs[j].key
                      /\ Kept[j].request = jobs[j].request /\ Kept[j].scope = jobs[j].scope
    BY DEF Kept
<1>2. jobs[j] \in Jobs
    BY DEF TablesType
<1>3. Kept[j] \in {jobs[j], [jobs[j] EXCEPT !.state = "purged"]}
    BY DEF Kept
<1>4. [jobs[j] EXCEPT !.state = "purged"] \in Jobs
    BY <1>2 DEF Jobs
<1> QED BY <1>2, <1>3, <1>4 DEF Jobs

\* The gateway's purge removes rows and changes none.
LEMMA KeptOwnersType ==
    ASSUME TablesType, UNCHANGED <<now, jobs>>, owners' = KeptOwners
    PROVE  TablesType' /\ DOMAIN owners' \subseteq DOMAIN owners
           /\ \A j \in DOMAIN owners' : owners'[j] = owners[j]
<1>1. DOMAIN owners' = Unexpired /\ \A j \in Unexpired : owners'[j] = owners[j]
    BY DEF KeptOwners
<1>2. Unexpired \subseteq DOMAIN owners
    BY DEF Unexpired
<1> QED BY <1>1, <1>2 DEF TablesType

\* The handlers that create a job keep their types.
LEMMA SubmitTypes ==
    ASSUME TypeOK, NEW c \in Callers, Submit(c)
    PROVE  TypeOK'
<1> USE DEF TypeOK
<1> DEFINE k == call[c]
<1>0. k \in Calls
    BY DEF CallsType
<1>1. CASE BeginSubmit(c)
    <2>1. PICK request \in Requests, key \in Keys :
            Go(c, [pc |-> IF request.corpus = {} THEN "submitting" ELSE "preparing",
                   user |-> session[c], request |-> request, key |-> key,
                   scope |-> Resolve(Now(c), request), attempt |-> 0, vouched |-> FALSE])
        BY <1>1 DEF BeginSubmit
    <2> DEFINE new == [pc |-> IF request.corpus = {} THEN "submitting" ELSE "preparing",
                       user |-> session[c], request |-> request, key |-> key,
                       scope |-> Resolve(Now(c), request), attempt |-> 0, vouched |-> FALSE]
    <2>2. Resolve(Now(c), request) \in Scopes
        BY NowType
    <2>3. session[c] \in Users
        BY <1>1 DEF BeginSubmit, NovoType
    <2>4. new \in Submitting
        BY <2>2, <2>3 DEF Submitting
    <2>5. new \in Calls /\ new \notin Recording \cup Reading
        BY <2>4, ByPhase DEF Calls, Recording, Reading
    <2> HIDE DEF new
    <2>6. CallsType'
        BY <2>1, <2>5, <1>1, GoType DEF BeginSubmit, new
    <2> QED BY <2>6, <1>1 DEF BeginSubmit, NovoType, TablesType, novo
<1>2. CASE Prepared(c)
    <2> DEFINE new == [k EXCEPT !.pc = "refreshing", !.vouched = InOrder(k, session[c], Now(c))]
    <2>1. k \in Submitting
        BY <1>0, <1>2, ByPhase DEF Prepared
    <2>2. InOrder(k, session[c], Now(c)) \in BOOLEAN
        BY DEF InOrder, Covers
    <2>3. new \in Submitting
        BY <2>1, <2>2 DEF Submitting
    <2>4. new \in Calls /\ new \notin Recording \cup Reading
        BY <2>3 DEF Calls, Submitting, Recording, Reading
    <2>5. Go(c, new)
        BY <1>2 DEF Prepared
    <2> HIDE DEF new
    <2>6. CallsType'
        BY <2>4, <2>5, <1>2, GoType DEF Prepared
    <2> QED BY <2>6, <1>2 DEF Prepared, NovoType, TablesType, novo
<1>3. ASSUME Retry(c), k \in Submitting, UNCHANGED <<novo, now, jobs, owners>>
      PROVE  TypeOK'
    <2> DEFINE new == [k EXCEPT !.pc = "retrying", !.attempt = @ + 1, !.vouched = FALSE]
    <2>0. k.attempt + 1 \in 0..SyncRetries
        <3>1. k.attempt \in 0..SyncRetries
            BY <1>3 DEF Submitting
        <3>2. k.attempt < SyncRetries
            BY <1>3 DEF Retry
        <3> QED BY <3>1, <3>2
    <2>1. new \in Submitting
        BY <1>3, <2>0 DEF Submitting
    <2>2. new \in Calls /\ new \notin Recording \cup Reading
        BY <2>1 DEF Calls, Submitting, Recording, Reading
    <2>3. Go(c, new)
        BY <1>3 DEF Retry
    <2> HIDE DEF new
    <2>4. CallsType'
        BY <2>2, <2>3, <1>3, GoType
    <2> QED BY <2>4, <1>3 DEF NovoType, TablesType, novo
<1>4. CASE ExportStale(c) \/ RefreshStale(c)
    BY <1>0, <1>3, <1>4, ByPhase DEF ExportStale, RefreshStale
<1>5. CASE Refresh(c)
    <2> DEFINE new == [k EXCEPT !.pc = "submitting"]
    <2>1. k \in Submitting
        BY <1>0, <1>5, ByPhase DEF Refresh
    <2>2. new \in Submitting
        BY <2>1 DEF Submitting
    <2>3. new \in Calls /\ new \notin Recording \cup Reading
        BY <2>2 DEF Calls, Submitting, Recording, Reading
    <2>4. Go(c, new)
        BY <1>5 DEF Refresh
    <2> HIDE DEF new
    <2>5. CallsType'
        BY <2>3, <2>4, <1>5, GoType DEF Refresh
    <2> QED BY <2>5, <1>5 DEF Refresh, NovoType, TablesType, novo
<1>6. CASE StartOver(c)
    <2> DEFINE new == [k EXCEPT !.pc = "preparing", !.user = session[c],
                                !.scope = Resolve(Now(c), k.request)]
    <2>1. k \in Submitting
        BY <1>0, <1>6, ByPhase DEF StartOver
    <2>2. session[c] \in Users /\ Resolve(Now(c), k.request) \in Scopes
        BY <1>6, NowType DEF StartOver, NovoType
    <2>3. new \in Submitting
        BY <2>1, <2>2 DEF Submitting
    <2>4. new \in Calls /\ new \notin Recording \cup Reading
        BY <2>3 DEF Calls, Submitting, Recording, Reading
    <2>5. Go(c, new)
        BY <1>6 DEF StartOver
    <2> HIDE DEF new
    <2>6. CallsType'
        BY <2>4, <2>5, <1>6, GoType DEF StartOver
    <2> QED BY <2>6, <1>6 DEF StartOver, NovoType, TablesType, novo
<1>7. ASSUME NEW j \in DOMAIN jobs', Received(c, j), k \in Submitting, DOMAIN jobs \subseteq DOMAIN jobs',
             DOMAIN jobs' \subseteq JobIds
      PROVE  CallsType'
    <2> DEFINE new == [pc |-> "recording", user |-> k.user, request |-> k.request,
                       scope |-> k.scope, job |-> j]
    <2>1. new \in Recording
        BY <1>7 DEF Submitting, Recording
    <2>2. new \in Calls /\ new.job = j
        BY <2>1 DEF Calls
    <2>3. Go(c, new)
        BY <1>7 DEF Received
    <2> HIDE DEF new
    <2> QED BY <2>2, <2>3, <1>7, GoType
<1>8. ASSUME Go(c, Idle), DOMAIN jobs \subseteq DOMAIN jobs'
      PROVE  CallsType'
    <2>1. Idle \in Calls /\ Idle \notin Recording \cup Reading
        BY DEF Calls, Idle, Recording, Reading
    <2> QED BY <2>1, <1>8, GoType
<1>9. CASE SubmitRepeated(c)
    <2>1. k \in Submitting
        BY <1>0, <1>9, ByPhase DEF SubmitRepeated
    <2>2. TablesType' /\ DOMAIN jobs' = DOMAIN jobs
        BY <1>9, KeptType DEF SubmitRepeated, TablesType
    <2>3. PICK j \in Known(k) : Received(c, j)
        BY <1>9 DEF SubmitRepeated
    <2>4. j \in DOMAIN jobs'
        BY <2>2, <2>3, KeptType DEF Known
    <2>5. CallsType'
        BY <2>1, <2>2, <2>3, <2>4, <1>7 DEF TablesType
    <2> QED BY <2>2, <2>5, <1>9 DEF SubmitRepeated, NovoType, novo
<1>10. CASE SubmitNew(c)
    <2>1. k \in Submitting
        BY <1>0, <1>10, ByPhase DEF SubmitNew
    <2>2. PICK j \in JobIds \ DOMAIN jobs :
            /\ jobs' = [i \in DOMAIN jobs \cup {j} |->
                   IF i = j
                   THEN [actor |-> k.user, key |-> k.key, request |-> k.request,
                         scope |-> k.scope, state |-> "live", updatedAt |-> now]
                   ELSE Kept[i]]
            /\ Received(c, j) \/ Go(c, Idle)
        BY <1>10 DEF SubmitNew
    <2>3. jobs'[j] \in Jobs
        BY <2>1, <2>2 DEF Submitting, Jobs, NovoType
    <2>4. DOMAIN jobs' = DOMAIN jobs \cup {j} /\ \A i \in DOMAIN jobs : jobs'[i] = Kept[i]
        BY <2>2
    <2>5. TablesType'
        BY <2>3, <2>4, <1>10, KeptType DEF SubmitNew, TablesType
    <2>6. CallsType'
        BY <2>1, <2>2, <2>4, <2>5, <1>7, <1>8 DEF TablesType
    <2> QED BY <2>5, <2>6, <1>10 DEF SubmitNew, NovoType, novo
<1>11. CASE SubmitRefused(c)
    <2>1. TablesType' /\ DOMAIN jobs' = DOMAIN jobs
        BY <1>11, KeptType DEF SubmitRefused, TablesType
    <2>2. CallsType'
        BY <2>1, <1>11, <1>8 DEF SubmitRefused
    <2> QED BY <2>1, <2>2, <1>11 DEF SubmitRefused, NovoType, novo
<1>12. CASE Record(c)
    <2> DEFINE row == [user |-> k.user, operation |-> k.request.operation,
                       scope |-> k.scope, createdAt |-> now]
    <2>1. k \in Recording /\ k.job \in DOMAIN jobs
        BY <1>0, <1>12, ByPhase DEF Record, CallsType
    <2>2. k.request.operation \in Operations \cup {"model_start"}
        BY <2>1 DEF Recording, Requests
    <2>3. row \in OwnedJobs
        BY <2>1, <2>2 DEF Recording, OwnedJobs, NovoType
    <2>4. owners' = [j \in Unexpired \cup {k.job} |-> IF j \in Unexpired THEN owners[j] ELSE row]
        BY <1>12 DEF Record
    <2>5. Unexpired \subseteq DOMAIN owners
        BY DEF Unexpired
    <2> HIDE DEF row
    <2>6. TablesType'
        BY <2>1, <2>3, <2>4, <2>5, <1>12 DEF Record, TablesType
    <2>7. PICK pc \in {"accepted", "collided"} : Go(c, [k EXCEPT !.pc = pc])
        BY <1>12 DEF Record
    <2> DEFINE new == [k EXCEPT !.pc = pc]
    <2>8. new \in Recording /\ new.job = k.job
        BY <2>1 DEF Recording
    <2>9. new \in Calls
        BY <2>8 DEF Calls
    <2> HIDE DEF new
    <2>10. Go(c, new)
        BY <2>7 DEF new
    <2>11. CallsType'
        BY <2>1, <2>8, <2>9, <2>10, <1>12, GoType DEF Record
    <2> QED BY <2>6, <2>11, <1>12 DEF Record, NovoType, novo
<1> QED BY <1>1, <1>2, <1>4, <1>5, <1>6, <1>9, <1>10, <1>11, <1>12 DEF Submit

\* So do the handlers that release something.
LEMMA ReleaseTypes ==
    ASSUME TypeOK, NEW c \in Callers, Release(c)
    PROVE  TypeOK'
<1> USE DEF TypeOK
<1> DEFINE k == call[c]
<1>0. k \in Calls
    BY DEF CallsType
<1>1. ASSUME NEW new \in Reading, Go(c, new), new.job \in DOMAIN jobs, UNCHANGED <<novo, now, jobs>>,
             TablesType'
      PROVE  TypeOK'
    <2>1. CallsType'
        BY <1>1, GoType DEF Calls
    <2> QED BY <2>1, <1>1 DEF NovoType, novo
<1>2. ASSUME NEW new \in Checking, Go(c, new), UNCHANGED <<novo, now, jobs, owners>>
      PROVE  TypeOK'
    <2>1. new \in Calls /\ new \notin Recording \cup Reading
        BY <1>2 DEF Calls, Checking, Recording, Reading
    <2>2. CallsType'
        BY <2>1, <1>2, GoType
    <2> QED BY <2>2, <1>2 DEF NovoType, TablesType, novo
<1>3. ASSUME Go(c, Idle), UNCHANGED <<novo, now, jobs>>, TablesType'
      PROVE  TypeOK'
    <2>1. Idle \in Calls /\ Idle \notin Recording \cup Reading
        BY DEF Calls, Idle, Recording, Reading
    <2>2. CallsType'
        BY <2>1, <1>3, GoType
    <2> QED BY <2>2, <1>3 DEF NovoType, novo
<1>4. k \in Reading => k.job \in DOMAIN jobs
    BY DEF CallsType
<1>5. CASE BeginResult(c)
    <2>1. PICK j \in DOMAIN jobs :
            Go(c, [pc |-> "authorizing", user |-> session[c], context |-> Now(c),
                   job |-> j, vouched |-> FALSE])
        BY <1>5 DEF BeginResult
    <2>2. session[c] \in Users /\ Now(c) \in Scopes /\ j \in JobIds
        BY <1>5, NowType DEF BeginResult, NovoType, TablesType
    <2> DEFINE new == [pc |-> "authorizing", user |-> session[c], context |-> Now(c),
                       job |-> j, vouched |-> FALSE]
    <2>3. new \in Reading /\ new.job = j
        BY <2>2 DEF Reading
    <2> HIDE DEF new
    <2> QED BY <2>1, <2>3, <1>1, <1>5 DEF BeginResult, TablesType, new
<1>6. ASSUME NEW pc \in {"asking", "released"}, k \in Reading, owners' = KeptOwners,
             Go(c, IF Authorized(k) THEN [k EXCEPT !.pc = pc, !.context = NoScope] ELSE Idle),
             UNCHANGED <<novo, now, jobs>>
      PROVE  TypeOK'
    <2> DEFINE new == [k EXCEPT !.pc = pc, !.context = NoScope]
    <2>1. new \in Reading /\ new.job = k.job
        BY <1>6, NoScopeType DEF Reading
    <2>2. Go(c, new) \/ Go(c, Idle)
        BY <1>6
    <2>3. TablesType'
        BY <1>6, KeptOwnersType
    <2> HIDE DEF new
    <2> QED BY <2>1, <2>2, <2>3, <1>1, <1>3, <1>4, <1>6
<1>7. CASE Authorize(c)
    BY <1>0, <1>6, <1>7, ByPhase DEF Authorize
<1>8. CASE Reauthorize(c)
    BY <1>0, <1>6, <1>8, ByPhase DEF Reauthorize
<1>9. InOrder(k, session[c], Now(c)) \in BOOLEAN
    BY DEF InOrder, Covers
<1>10. CASE Answered(c)
    <2> DEFINE new == [k EXCEPT !.pc = "answered", !.vouched = InOrder(k, session[c], Now(c))]
    <2>1. k \in Reading
        BY <1>0, <1>10, ByPhase DEF Answered
    <2>2. new \in Reading /\ new.job = k.job
        BY <2>1, <1>9 DEF Reading
    <2>3. Go(c, new)
        BY <1>10 DEF Answered
    <2> HIDE DEF new
    <2> QED BY <2>1, <2>2, <2>3, <1>1, <1>4, <1>10 DEF Answered, TablesType
<1>11. CASE FetchAgain(c)
    <2> DEFINE new == [k EXCEPT !.pc = "reauthorizing", !.user = session[c], !.context = Now(c)]
    <2>1. k \in Reading
        BY <1>0, <1>11, ByPhase DEF FetchAgain
    <2>2. session[c] \in Users /\ Now(c) \in Scopes
        BY <1>11, NowType DEF FetchAgain, NovoType
    <2>3. new \in Reading /\ new.job = k.job
        BY <2>1, <2>2 DEF Reading
    <2>4. Go(c, new)
        BY <1>11 DEF FetchAgain
    <2> HIDE DEF new
    <2> QED BY <2>1, <2>3, <2>4, <1>1, <1>4, <1>11 DEF FetchAgain, TablesType
<1>12. CASE BeginStatus(c)
    <2>1. PICK request \in Requests :
            Go(c, [pc |-> "checking", user |-> session[c], request |-> request,
                   scope |-> Resolve(Now(c), request), vouched |-> FALSE])
        BY <1>12 DEF BeginStatus
    <2> DEFINE new == [pc |-> "checking", user |-> session[c], request |-> request,
                       scope |-> Resolve(Now(c), request), vouched |-> FALSE]
    <2>2. session[c] \in Users /\ Resolve(Now(c), request) \in Scopes
        BY <1>12, NowType DEF BeginStatus, NovoType
    <2>3. new \in Checking
        BY <2>2 DEF Checking
    <2>4. Go(c, new)
        BY <2>1
    <2> HIDE DEF new
    <2> QED BY <2>3, <2>4, <1>2, <1>12 DEF BeginStatus
<1>13. CASE Checked(c)
    <2> DEFINE new == [k EXCEPT !.pc = "checked", !.vouched = InOrder(k, session[c], Now(c))]
    <2>1. k \in Checking
        BY <1>0, <1>13, ByPhase DEF Checked
    <2>2. new \in Checking
        BY <2>1, <1>9 DEF Checking
    <2>3. Go(c, new)
        BY <1>13 DEF Checked
    <2> HIDE DEF new
    <2> QED BY <2>2, <2>3, <1>2, <1>13 DEF Checked
<1>14. CASE Report(c)
    <2> DEFINE new == [k EXCEPT !.pc = "reported"]
    <2>1. k \in Checking
        BY <1>0, <1>14, ByPhase DEF Report
    <2>2. new \in Checking
        BY <2>1 DEF Checking
    <2>3. Go(c, new)
        BY <1>14 DEF Report
    <2> HIDE DEF new
    <2> QED BY <2>2, <2>3, <1>2, <1>14 DEF Report
<1> QED BY <1>5, <1>7, <1>8, <1>10, <1>11, <1>12, <1>13, <1>14 DEF Release

\* A change at Novo touches nothing of a handler but its history.
LEMMA WitnessStep ==
    ASSUME CallsType, Witness, jobs' = jobs
    PROVE  /\ CallsType'
           /\ \A d \in Callers :
                /\ call[d].pc \notin Watched => call'[d] = call[d]
                /\ call[d].pc \in Watched =>
                     call'[d] = [call[d] EXCEPT !.vouched = @ \/
                         InOrder(call[d], session'[d], Context(session'[d], grants', revision'))]
<1> DEFINE order(d) == InOrder(call[d], session'[d], Context(session'[d], grants', revision'))
           new(d) == [call[d] EXCEPT !.vouched = @ \/ order(d)]
<1>1. call' = [d \in Callers |-> IF call[d].pc \in Watched THEN new(d) ELSE call[d]]
    BY DEF Witness
<1>2. ASSUME NEW d \in Callers, call[d].pc \in Watched
      PROVE  /\ new(d) \in Calls
             /\ new(d) \in Recording \cup Reading => new(d).job \in DOMAIN jobs
    <2> DEFINE k == call[d]
    <2>1. k \in Calls /\ (k \in Reading => k.job \in DOMAIN jobs)
        BY DEF CallsType
    <2>2. k \in Submitting \/ k \in Reading \/ k \in Checking
        BY <1>2, <2>1, ByPhase DEF Watched
    <2>3. order(d) \in BOOLEAN
        BY DEF InOrder, Covers
    <2> HIDE DEF order
    <2>4. k.vouched \in BOOLEAN
        BY <2>2 DEF Submitting, Reading, Checking
    <2>5. CASE k \in Submitting
        <3>1. new(d) \in Submitting
            BY <2>3, <2>4, <2>5 DEF Submitting
        <3> QED BY <3>1 DEF Calls, Submitting, Recording, Reading
    <2>6. CASE k \in Reading
        <3>1. new(d) \in Reading /\ new(d).job = k.job
            BY <2>3, <2>4, <2>6 DEF Reading
        <3> QED BY <3>1, <2>1, <2>6 DEF Calls
    <2>7. CASE k \in Checking
        <3>1. new(d) \in Checking
            BY <2>3, <2>4, <2>7 DEF Checking
        <3> QED BY <3>1 DEF Calls, Checking, Recording, Reading
    <2> QED BY <2>2, <2>5, <2>6, <2>7
<1> HIDE DEF new
<1>3. CallsType'
    BY <1>1, <1>2 DEF CallsType
<1> QED BY <1>1, <1>3 DEF new

\* The remaining steps keep the types: of Novo, of the worker, of the clock, and
\* the ends of requests.
LEMMA OtherTypes ==
    ASSUME TypeOK,
           \/ \E c \in Callers : Leave(c)
           \/ Novo
           \/ \E j \in DOMAIN jobs : JobEnds(j)
           \/ Restart
           \/ Tick
    PROVE  TypeOK'
<1> USE DEF TypeOK
<1>0. Idle \in Calls /\ Idle \notin Recording \cup Reading
    BY DEF Calls, Idle, Recording, Reading
<1>1. ASSUME NEW c \in Callers, Leave(c)
      PROVE  TypeOK'
    <2>1. CallsType'
        BY <1>0, <1>1, GoType DEF Leave
    <2> QED BY <2>1, <1>1 DEF Leave, NovoType, TablesType, novo
<1>2. CASE Novo
    <2>1. UNCHANGED <<now, jobs, owners>> /\ Witness
        BY <1>2 DEF Novo, SignIn, Share, Edit
    <2>2. NovoType'
        <3>1. changes' \in 0..MaxChanges
            BY <2>1 DEF Witness, NovoType
        <3>2. /\ session' \in [Callers -> Users \cup {SignedOut}]
              /\ grants' \in [Users -> SUBSET Notebooks]
              /\ revision' \in [Notebooks -> Revisions]
            BY <1>2 DEF Novo, SignIn, Share, Edit, NovoType
        <3> QED BY <2>1, <3>1, <3>2 DEF NovoType
    <2> QED BY <2>1, <2>2, WitnessStep DEF TablesType
<1>3. ASSUME NEW j \in DOMAIN jobs, JobEnds(j)
      PROVE  TypeOK'
    <2>1. PICK outcome \in {"succeeded", "failed"} :
            jobs' = [jobs EXCEPT ![j].state = outcome, ![j].updatedAt = now]
        BY <1>3 DEF JobEnds
    <2>2. DOMAIN jobs' = DOMAIN jobs /\ \A i \in DOMAIN jobs : i # j => jobs'[i] = jobs[i]
        BY <2>1
    <2>3. jobs'[j] = [jobs[j] EXCEPT !.state = outcome, !.updatedAt = now]
        BY <2>1
    <2>4. jobs[j] \in Jobs /\ now \in 0..MaxTime
        BY DEF TablesType, NovoType
    <2>5. jobs'[j] \in Jobs
        BY <2>3, <2>4 DEF Jobs
    <2> QED BY <2>2, <2>5, <1>3 DEF JobEnds, NovoType, TablesType, CallsType, novo
<1>4. CASE Restart
    <2>1. TablesType'
        BY <1>4, KeptOwnersType DEF Restart
    <2>2. CallsType'
        BY <1>0, <1>4 DEF Restart, CallsType
    <2> QED BY <2>1, <2>2, <1>4 DEF Restart, NovoType, novo
<1>5. CASE Tick
    BY <1>5 DEF Tick, NovoType, TablesType, CallsType, novo
<1> QED BY <1>1, <1>2, <1>3, <1>4, <1>5

\* The types hold initially and after every step.
LEMMA InitTypes == Init => TypeOK
<1> SUFFICES ASSUME Init PROVE TypeOK
    OBVIOUS
<1>1. DOMAIN NoScope = {}
    BY DEF NoScope
<1>2. Idle \in Calls /\ Idle \notin Recording \cup Reading
    BY DEF Calls, Idle, Recording, Reading
<1> QED BY <1>1, <1>2 DEF Init, TypeOK, NovoType, TablesType, CallsType

LEMMA NextTypes == TypeOK /\ [Next]_vars => TypeOK'
<1>1. TypeOK /\ Next => TypeOK'
    BY SubmitTypes, ReleaseTypes, OtherTypes DEF Next
<1>2. TypeOK /\ UNCHANGED vars => TypeOK'
    BY DEF TypeOK, NovoType, TablesType, CallsType, vars, novo
<1> QED BY <1>1, <1>2

\* Every reachable state is well typed: the tables, the handlers' locals, and
\* what a handler knows of a job is about a job the worker has or had.
THEOREM TypeCorrect == Spec => []TypeOK
BY InitTypes, NextTypes, PTL DEF Spec

-----------------------------------------------------------------------------
(* The worker's jobs as the gateway relies on them: what a job is for never *)
(* changes, its state does.                                                 *)

JobsKept ==
    /\ DOMAIN jobs \subseteq DOMAIN jobs'
    /\ \A j \in DOMAIN jobs :
         /\ jobs'[j].actor = jobs[j].actor
         /\ jobs'[j].request = jobs[j].request
         /\ jobs'[j].scope = jobs[j].scope

LEMMA JobsStep == TypeOK /\ Next => JobsKept
<1> SUFFICES ASSUME TypeOK, Next PROVE JobsKept
    OBVIOUS
<1>1. TablesType
    BY DEF TypeOK
<1>2. CASE jobs' = jobs
    BY <1>2 DEF JobsKept
<1>3. CASE jobs' = Kept
    BY <1>1, <1>3, KeptType DEF JobsKept
<1>4. ASSUME NEW c \in Callers, SubmitNew(c)
      PROVE  JobsKept
    BY <1>1, <1>4, KeptType DEF SubmitNew, JobsKept
<1>5. ASSUME NEW j \in DOMAIN jobs, JobEnds(j)
      PROVE  JobsKept
    <2>1. PICK outcome \in {"succeeded", "failed"} :
            jobs' = [jobs EXCEPT ![j].state = outcome, ![j].updatedAt = now]
        BY <1>5 DEF JobEnds
    <2>2. DOMAIN jobs' = DOMAIN jobs /\ \A i \in DOMAIN jobs : i # j => jobs'[i] = jobs[i]
        BY <2>1
    <2>3. jobs'[j] = [jobs[j] EXCEPT !.state = outcome, !.updatedAt = now]
        BY <2>1
    <2>4. jobs[j] \in Jobs
        BY <1>1 DEF TablesType
    <2>5. /\ jobs'[j].actor = jobs[j].actor
          /\ jobs'[j].request = jobs[j].request
          /\ jobs'[j].scope = jobs[j].scope
        BY <2>3, <2>4 DEF Jobs
    <2> QED BY <2>2, <2>5 DEF JobsKept
<1>6. \/ jobs' = jobs \/ jobs' = Kept
      \/ \E c \in Callers : SubmitNew(c)
      \/ \E j \in DOMAIN jobs : JobEnds(j)
    BY DEF Next, Submit, Release, Novo, Leave, SignIn, Share, Edit, Restart, Tick,
           BeginSubmit, Prepared, ExportStale, Refresh, RefreshStale, StartOver,
           SubmitRepeated, SubmitRefused, Record, BeginResult, Authorize, Answered,
           FetchAgain, Reauthorize, BeginStatus, Checked, Report
<1> QED BY <1>2, <1>3, <1>4, <1>5, <1>6

-----------------------------------------------------------------------------
(* The ownership database.  A handler that is about to record an owner      *)
(* holds the user, the operation and the scope of the job it names: that is *)
(* what makes the row it writes, and the row it may find, true.             *)

AnswersHeld ==
    \A c \in Callers : call[c].pc = "recording" =>
        /\ jobs[call[c].job].actor = call[c].user
        /\ jobs[call[c].job].request.operation = call[c].request.operation
        /\ jobs[call[c].job].scope = call[c].scope

OwnersInv == OwnersTrue /\ NeverCollides /\ AnswersHeld

\* It survives a step that adds no row and makes no handler record.
LEMMA OwnersKept ==
    ASSUME TypeOK, TypeOK', OwnersInv, JobsKept,
           DOMAIN owners' \subseteq DOMAIN owners,
           \A j \in DOMAIN owners' : owners'[j] = owners[j],
           \A d \in Callers : call'[d] = call[d] \/ call'[d].pc \notin {"recording", "collided"}
    PROVE  OwnersInv'
<1>1. OwnersTrue'
    BY DEF OwnersInv, OwnersTrue, JobsKept, TypeOK, TablesType
<1>2. NeverCollides'
    BY DEF OwnersInv, NeverCollides
<1>3. AnswersHeld'
    <2> SUFFICES ASSUME NEW d \in Callers, call'[d].pc = "recording"
                 PROVE  /\ jobs'[call'[d].job].actor = call'[d].user
                        /\ jobs'[call'[d].job].request.operation = call'[d].request.operation
                        /\ jobs'[call'[d].job].scope = call'[d].scope
        BY DEF AnswersHeld
    <2>1. call'[d] = call[d]
        OBVIOUS
    <2>2. call[d].job \in DOMAIN jobs
        BY <2>1, ByPhase DEF TypeOK, CallsType
    <2> QED BY <2>1, <2>2 DEF OwnersInv, AnswersHeld, JobsKept
<1> QED BY <1>1, <1>2, <1>3 DEF OwnersInv

\* What Go leaves of the other handlers.
LEMMA GoOthers ==
    ASSUME TypeOK, NEW c \in Callers, NEW k, Go(c, k)
    PROVE  call'[c] = k /\ \A d \in Callers \ {c} : call'[d] = call[d]
BY DEF Go, TypeOK, CallsType

\* A handler receives the worker's answer.
LEMMA ReceivedOwners ==
    ASSUME TypeOK, TypeOK', OwnersInv, JobsKept, owners' = owners,
           NEW c \in Callers, NEW j \in DOMAIN jobs', Received(c, j),
           call[c] \in Submitting,
           jobs'[j].actor = call[c].user,
           jobs'[j].request.operation = call[c].request.operation,
           jobs'[j].scope = call[c].scope
    PROVE  OwnersInv'
<1> DEFINE new == [pc |-> "recording", user |-> call[c].user, request |-> call[c].request,
                   scope |-> call[c].scope, job |-> j]
<1>1. call'[c] = new /\ \A d \in Callers \ {c} : call'[d] = call[d]
    BY GoOthers DEF Received
<1>2. OwnersTrue'
    BY DEF OwnersInv, OwnersTrue, JobsKept, TypeOK, TablesType
<1>3. NeverCollides'
    BY <1>1 DEF OwnersInv, NeverCollides
<1>4. AnswersHeld'
    <2> SUFFICES ASSUME NEW d \in Callers, call'[d].pc = "recording"
                 PROVE  /\ jobs'[call'[d].job].actor = call'[d].user
                        /\ jobs'[call'[d].job].request.operation = call'[d].request.operation
                        /\ jobs'[call'[d].job].scope = call'[d].scope
        BY DEF AnswersHeld
    <2>1. CASE d = c
        BY <1>1, <2>1
    <2>2. CASE d # c
        <3>1. call'[d] = call[d]
            BY <1>1, <2>2
        <3>2. call[d].job \in DOMAIN jobs
            BY <3>1, ByPhase DEF TypeOK, CallsType
        <3> QED BY <3>1, <3>2 DEF OwnersInv, AnswersHeld, JobsKept
    <2> QED BY <2>1, <2>2
<1> QED BY <1>2, <1>3, <1>4 DEF OwnersInv

\* A row is written, or one that is there is found to agree.
LEMMA RecordOwners ==
    ASSUME TypeOK, TypeOK', OwnersInv, NEW c \in Callers, Record(c)
    PROVE  OwnersInv'
<1> DEFINE k == call[c]
           row == [user |-> k.user, operation |-> k.request.operation, scope |-> k.scope, createdAt |-> now]
           Agrees(o) == o.user = row.user /\ o.operation = row.operation /\ o.scope = row.scope
<1>1. /\ k.pc = "recording"
      /\ owners' = [j \in Unexpired \cup {k.job} |-> IF j \in Unexpired THEN owners[j] ELSE row]
      /\ Go(c, [k EXCEPT !.pc = IF Agrees(owners'[k.job]) THEN "accepted" ELSE "collided"])
      /\ jobs' = jobs
    BY DEF Record
<1>2. k \in Recording /\ k.job \in DOMAIN jobs
    BY <1>1, ByPhase DEF TypeOK, CallsType
<1>3. /\ jobs[k.job].actor = k.user
      /\ jobs[k.job].request.operation = k.request.operation
      /\ jobs[k.job].scope = k.scope
    BY <1>1 DEF OwnersInv, AnswersHeld
<1>4. \A j \in Unexpired : /\ owners[j].user = jobs[j].actor
                           /\ owners[j].operation = jobs[j].request.operation
                           /\ owners[j].scope = jobs[j].scope
    BY DEF OwnersInv, OwnersTrue, Unexpired
<1>5. OwnersTrue'
    BY <1>1, <1>3, <1>4 DEF OwnersTrue
<1>6. k.job \in DOMAIN owners'
    BY <1>1
<1>7. Agrees(owners'[k.job])
    BY <1>1, <1>3, <1>5, <1>6 DEF OwnersTrue
<1> HIDE DEF Agrees
<1>8. call'[c] = [k EXCEPT !.pc = "accepted"] /\ \A d \in Callers \ {c} : call'[d] = call[d]
    BY <1>1, <1>7, GoOthers
<1>9. call'[c].pc = "accepted"
    BY <1>2, <1>8 DEF Recording
<1>10. NeverCollides'
    BY <1>8, <1>9 DEF OwnersInv, NeverCollides
<1>11. AnswersHeld'
    <2> SUFFICES ASSUME NEW d \in Callers, call'[d].pc = "recording"
                 PROVE  /\ jobs'[call'[d].job].actor = call'[d].user
                        /\ jobs'[call'[d].job].request.operation = call'[d].request.operation
                        /\ jobs'[call'[d].job].scope = call'[d].scope
        BY DEF AnswersHeld
    <2>1. d # c
        BY <1>9
    <2>2. call'[d] = call[d]
        BY <1>8, <2>1
    <2>3. call[d].pc = "recording" /\ AnswersHeld
        BY <2>2 DEF OwnersInv
    <2> QED BY <1>1, <2>2, <2>3 DEF AnswersHeld
<1> QED BY <1>5, <1>10, <1>11 DEF OwnersInv

LEMMA OwnersStep == TypeOK /\ TypeOK' /\ OwnersInv /\ [Next]_vars => OwnersInv'
<1> SUFFICES ASSUME TypeOK, TypeOK', OwnersInv, [Next]_vars PROVE OwnersInv'
    OBVIOUS
<1>0. TablesType /\ CallsType
    BY DEF TypeOK
<1>1. CASE UNCHANGED vars
    BY <1>1 DEF OwnersInv, OwnersTrue, NeverCollides, AnswersHeld, vars
<1> SUFFICES ASSUME Next PROVE OwnersInv'
    BY <1>1
<1>2. JobsKept
    BY JobsStep
<1>3. ASSUME NEW c \in Callers, NEW k, Go(c, k), k.pc \notin {"recording", "collided"}
      PROVE  \A d \in Callers : call'[d] = call[d] \/ call'[d].pc \notin {"recording", "collided"}
    BY <1>3, GoOthers
<1>4. Idle.pc \notin {"recording", "collided"}
    BY DEF Idle
<1>5. ASSUME NEW c \in Callers, Submit(c)
      PROVE  OwnersInv'
    <2>1. call[c] \in Calls
        BY <1>0 DEF CallsType
    <2>2. CASE BeginSubmit(c)
        <3>1. PICK request \in Requests, key \in Keys :
                Go(c, [pc |-> IF request.corpus = {} THEN "submitting" ELSE "preparing",
                       user |-> session[c], request |-> request, key |-> key,
                       scope |-> Resolve(Now(c), request), attempt |-> 0, vouched |-> FALSE])
            BY <2>2 DEF BeginSubmit
        <3> DEFINE k == [pc |-> IF request.corpus = {} THEN "submitting" ELSE "preparing",
                         user |-> session[c], request |-> request, key |-> key,
                         scope |-> Resolve(Now(c), request), attempt |-> 0, vouched |-> FALSE]
        <3>2. Go(c, k) /\ k.pc \notin {"recording", "collided"}
            BY <3>1
        <3> HIDE DEF k
        <3>3. \A d \in Callers : call'[d] = call[d] \/ call'[d].pc \notin {"recording", "collided"}
            BY <1>3, <3>2
        <3> QED BY <1>2, <2>2, <3>3, OwnersKept DEF BeginSubmit
    <2>3. CASE Prepared(c) \/ ExportStale(c) \/ Refresh(c) \/ RefreshStale(c) \/ StartOver(c)
        <3>1. call[c] \in Submitting
            BY <2>1, <2>3, ByPhase DEF Prepared, ExportStale, Refresh, RefreshStale, StartOver
        <3>2. CASE Prepared(c)
            <4> DEFINE k == [call[c] EXCEPT !.pc = "refreshing", !.vouched = InOrder(call[c], session[c], Now(c))]
            <4>1. k.pc = "refreshing"
                BY <3>1 DEF Submitting
            <4> HIDE DEF k
            <4> QED BY <1>2, <1>3, <3>2, <4>1, OwnersKept DEF Prepared, k
        <3>3. CASE ExportStale(c) \/ RefreshStale(c)
            <4> DEFINE k == [call[c] EXCEPT !.pc = "retrying", !.attempt = @ + 1, !.vouched = FALSE]
            <4>1. k.pc = "retrying"
                BY <3>1 DEF Submitting
            <4>2. Go(c, k)
                BY <3>3 DEF ExportStale, RefreshStale, Retry
            <4> HIDE DEF k
            <4> QED BY <1>2, <1>3, <3>3, <4>1, <4>2, OwnersKept DEF ExportStale, RefreshStale
        <3>4. CASE Refresh(c)
            <4> DEFINE k == [call[c] EXCEPT !.pc = "submitting"]
            <4>1. k.pc = "submitting"
                BY <3>1 DEF Submitting
            <4> HIDE DEF k
            <4> QED BY <1>2, <1>3, <3>4, <4>1, OwnersKept DEF Refresh, k
        <3>5. CASE StartOver(c)
            <4> DEFINE k == [call[c] EXCEPT !.pc = "preparing", !.user = session[c],
                                            !.scope = Resolve(Now(c), call[c].request)]
            <4>1. k.pc = "preparing"
                BY <3>1 DEF Submitting
            <4> HIDE DEF k
            <4> QED BY <1>2, <1>3, <3>5, <4>1, OwnersKept DEF StartOver, k
        <3> QED BY <2>3, <3>2, <3>3, <3>4, <3>5
    <2>4. CASE SubmitRepeated(c)
        <3>1. call[c] \in Submitting
            BY <2>1, <2>4, ByPhase DEF SubmitRepeated
        <3>2. PICK j \in Known(call[c]) : SameRequest(j, call[c]) /\ Received(c, j)
            BY <2>4 DEF SubmitRepeated
        <3>3. j \in DOMAIN jobs /\ j \in DOMAIN jobs'
            BY <1>0, <1>2, <3>2, KeptType DEF Known, JobsKept
        <3>4. jobs[j].actor = call[c].user
            BY <1>0, <3>2, <3>3, KeptType DEF Known
        <3> QED BY <1>2, <2>4, <3>1, <3>2, <3>3, <3>4, ReceivedOwners
                DEF SubmitRepeated, SameRequest, JobsKept
    <2>5. CASE SubmitNew(c)
        <3>1. call[c] \in Submitting
            BY <2>1, <2>5, ByPhase DEF SubmitNew
        <3>2. PICK j \in JobIds \ DOMAIN jobs :
                /\ jobs' = [i \in DOMAIN jobs \cup {j} |->
                       IF i = j
                       THEN [actor |-> call[c].user, key |-> call[c].key, request |-> call[c].request,
                             scope |-> call[c].scope, state |-> "live", updatedAt |-> now]
                       ELSE Kept[i]]
                /\ Received(c, j) \/ Go(c, Idle)
            BY <2>5 DEF SubmitNew
        <3>3. CASE Received(c, j)
            BY <1>2, <2>5, <3>1, <3>2, <3>3, ReceivedOwners DEF SubmitNew
        <3>4. CASE Go(c, Idle)
            BY <1>2, <1>3, <1>4, <2>5, <3>4, OwnersKept DEF SubmitNew
        <3> QED BY <3>2, <3>3, <3>4
    <2>6. CASE SubmitRefused(c)
        BY <1>2, <1>3, <1>4, <2>6, OwnersKept DEF SubmitRefused
    <2>7. CASE Record(c)
        BY <2>7, RecordOwners
    <2> QED BY <1>5, <2>2, <2>3, <2>4, <2>5, <2>6, <2>7 DEF Submit
<1>6. ASSUME NEW c \in Callers, Release(c)
      PROVE  OwnersInv'
    <2>1. call[c] \in Calls
        BY <1>0 DEF CallsType
    <2>2. /\ DOMAIN owners' \subseteq DOMAIN owners
          /\ \A j \in DOMAIN owners' : owners'[j] = owners[j]
        <3>1. UNCHANGED <<now, jobs>> /\ (owners' = owners \/ owners' = KeptOwners)
            BY <1>6 DEF Release, BeginResult, Authorize, Answered, FetchAgain, Reauthorize,
                        BeginStatus, Checked, Report
        <3> QED BY <1>0, <3>1, KeptOwnersType
    <2>3. call[c].pc = "idle" \/ call[c] \in Reading \/ call[c] \in Checking
        BY <1>6, <2>1, ByPhase DEF Release, BeginResult, Authorize, Answered, FetchAgain, Reauthorize,
                    BeginStatus, Checked, Report
    <2>4. \E k : Go(c, k) /\ k.pc \notin {"recording", "collided"}
        <3>1. CASE BeginResult(c)
            <4>1. PICK j \in DOMAIN jobs :
                    Go(c, [pc |-> "authorizing", user |-> session[c], context |-> Now(c),
                           job |-> j, vouched |-> FALSE])
                BY <3>1 DEF BeginResult
            <4> WITNESS [pc |-> "authorizing", user |-> session[c], context |-> Now(c),
                         job |-> j, vouched |-> FALSE]
            <4> QED BY <4>1
        <3>2. CASE BeginStatus(c)
            <4>1. PICK request \in Requests :
                    Go(c, [pc |-> "checking", user |-> session[c], request |-> request,
                           scope |-> Resolve(Now(c), request), vouched |-> FALSE])
                BY <3>2 DEF BeginStatus
            <4> WITNESS [pc |-> "checking", user |-> session[c], request |-> request,
                         scope |-> Resolve(Now(c), request), vouched |-> FALSE]
            <4> QED BY <4>1
        <3>3. CASE Authorize(c)
            <4> DEFINE k == [call[c] EXCEPT !.pc = "asking", !.context = NoScope]
            <4>1. call[c] \in Reading
                BY <2>1, <3>3, ByPhase DEF Authorize
            <4>2. k.pc = "asking"
                BY <4>1 DEF Reading
            <4> HIDE DEF k
            <4> QED BY <1>4, <3>3, <4>2 DEF Authorize, k
        <3>4. CASE Reauthorize(c)
            <4> DEFINE k == [call[c] EXCEPT !.pc = "released", !.context = NoScope]
            <4>1. call[c] \in Reading
                BY <2>1, <3>4, ByPhase DEF Reauthorize
            <4>2. k.pc = "released"
                BY <4>1 DEF Reading
            <4> HIDE DEF k
            <4> QED BY <1>4, <3>4, <4>2 DEF Reauthorize, k
        <3>5. CASE Answered(c)
            <4> DEFINE k == [call[c] EXCEPT !.pc = "answered", !.vouched = InOrder(call[c], session[c], Now(c))]
            <4>1. call[c] \in Reading
                BY <2>1, <3>5, ByPhase DEF Answered
            <4>2. k.pc = "answered"
                BY <4>1 DEF Reading
            <4> HIDE DEF k
            <4> QED BY <3>5, <4>2 DEF Answered, k
        <3>6. CASE FetchAgain(c)
            <4> DEFINE k == [call[c] EXCEPT !.pc = "reauthorizing", !.user = session[c], !.context = Now(c)]
            <4>1. call[c] \in Reading
                BY <2>1, <3>6, ByPhase DEF FetchAgain
            <4>2. k.pc = "reauthorizing"
                BY <4>1 DEF Reading
            <4> HIDE DEF k
            <4> QED BY <3>6, <4>2 DEF FetchAgain, k
        <3>7. CASE Checked(c)
            <4> DEFINE k == [call[c] EXCEPT !.pc = "checked", !.vouched = InOrder(call[c], session[c], Now(c))]
            <4>1. call[c] \in Checking
                BY <2>1, <3>7, ByPhase DEF Checked
            <4>2. k.pc = "checked"
                BY <4>1 DEF Checking
            <4> HIDE DEF k
            <4> QED BY <3>7, <4>2 DEF Checked, k
        <3>8. CASE Report(c)
            <4> DEFINE k == [call[c] EXCEPT !.pc = "reported"]
            <4>1. call[c] \in Checking
                BY <2>1, <3>8, ByPhase DEF Report
            <4>2. k.pc = "reported"
                BY <4>1 DEF Checking
            <4> HIDE DEF k
            <4> QED BY <3>8, <4>2 DEF Report, k
        <3> QED BY <1>6, <3>1, <3>2, <3>3, <3>4, <3>5, <3>6, <3>7, <3>8 DEF Release
    <2> QED BY <1>2, <1>3, <2>2, <2>4, OwnersKept
<1>7. ASSUME NEW c \in Callers, Leave(c)
      PROVE  OwnersInv'
    BY <1>2, <1>3, <1>4, <1>7, OwnersKept DEF Leave
<1>8. CASE Novo
    <2>1. UNCHANGED <<jobs, owners>> /\ Witness
        BY <1>8 DEF Novo, SignIn, Share, Edit
    <2>2. ASSUME NEW d \in Callers, call[d].pc \in Watched
          PROVE  call'[d].pc \notin {"recording", "collided"}
        <3>1. call[d] \in Submitting \/ call[d] \in Reading \/ call[d] \in Checking
            BY <1>0, <2>2, ByPhase DEF Watched, CallsType
        <3>2. call'[d].pc = call[d].pc
            BY <1>0, <2>1, <2>2, <3>1, WitnessStep DEF Submitting, Reading, Checking
        <3> QED BY <2>2, <3>2 DEF Watched
    <2>3. \A d \in Callers : call'[d] = call[d] \/ call'[d].pc \notin {"recording", "collided"}
        BY <1>0, <2>1, <2>2, WitnessStep
    <2> QED BY <1>2, <2>1, <2>3, OwnersKept
<1>9. ASSUME NEW j \in DOMAIN jobs, JobEnds(j)
      PROVE  OwnersInv'
    BY <1>2, <1>9, OwnersKept DEF JobEnds
<1>10. CASE Restart
    <2>1. /\ DOMAIN owners' \subseteq DOMAIN owners
          /\ \A j \in DOMAIN owners' : owners'[j] = owners[j]
        BY <1>0, <1>10, KeptOwnersType DEF Restart
    <2> QED BY <1>2, <1>4, <1>10, <2>1, OwnersKept DEF Restart
<1>11. CASE Tick
    BY <1>2, <1>11, OwnersKept DEF Tick
<1> QED BY <1>5, <1>6, <1>7, <1>8, <1>9, <1>10, <1>11 DEF Next

LEMMA OwnersInvariant == Spec => []OwnersInv
<1>1. Init => OwnersInv
    <2>1. DOMAIN NoScope = {}
        BY DEF NoScope
    <2> QED BY <2>1 DEF Init, Idle, OwnersInv, OwnersTrue, NeverCollides, AnswersHeld
<1>2. TypeOK /\ TypeOK' /\ OwnersInv /\ [Next]_vars => OwnersInv'
    BY OwnersStep
<1> QED BY <1>1, <1>2, TypeCorrect, PTL DEF Spec

\* Every row of the ownership database names the actor, operation and scope of
\* the worker's job it stands for.
THEOREM OwnersAgree == Spec => []OwnersTrue
<1>1. OwnersInv => OwnersTrue
    BY DEF OwnersInv
<1> QED BY <1>1, OwnersInvariant, PTL

\* The collision error of JobOwnershipStore.add is never raised.
THEOREM CollisionFree == Spec => []NeverCollides
<1>1. OwnersInv => NeverCollides
    BY DEF OwnersInv
<1> QED BY <1>1, OwnersInvariant, PTL

-----------------------------------------------------------------------------
(* What is submitted and released.  The history variable misses no moment:  *)
(* while a handler waits to use an answer, whatever it holds that is in     *)
(* order now has been recorded so, and so has what it read of a moment in   *)
(* the context it fetched.                                                  *)

Justified(d) ==
    LET k == call[d]
    IN  /\ k.pc \in Watched /\ InOrder(k, session[d], Now(d)) => k.vouched
        /\ k.pc = "reauthorizing" /\ InOrder(k, k.user, k.context) => k.vouched
        /\ k.pc = "submitting" /\ k.request.corpus # {} => k.vouched
        /\ k.pc \in {"released", "reported"} => k.vouched

JustInv == \A d \in Callers : Justified(d)

\* A handler that does not move stays justified while Novo does not.
LEMMA JustifiedKept ==
    ASSUME TypeOK, JobsKept, UNCHANGED <<session, grants, revision>>,
           NEW d \in Callers, Justified(d), call'[d] = call[d]
    PROVE  Justified(d)'
<1>1. Now(d)' = Now(d) /\ session'[d] = session[d]
    BY DEF Now, Context
<1> DEFINE k == call[d]
<1>2. k.pc \in {"asking", "answered", "reauthorizing"} => k.job \in DOMAIN jobs
    BY ByPhase DEF TypeOK, CallsType
<1>3. k.pc \in {"asking", "answered", "reauthorizing"} =>
          /\ jobs'[k.job].actor = jobs[k.job].actor
          /\ jobs'[k.job].scope = jobs[k.job].scope
    BY <1>2 DEF JobsKept
<1>4. InOrder(call[d], session[d], Now(d))' <=> InOrder(call[d], session[d], Now(d))
    BY <1>1, <1>3 DEF InOrder
<1>5. InOrder(call[d], call[d].user, call[d].context)' <=> InOrder(call[d], call[d].user, call[d].context)
    BY <1>3 DEF InOrder
<1> QED BY <1>4, <1>5 DEF Justified

\* A handler goes on; the others stay as they are.
LEMMA GoJustified ==
    ASSUME TypeOK, JobsKept, UNCHANGED <<session, grants, revision>>, JustInv,
           NEW c \in Callers, NEW k, Go(c, k), Justified(c)'
    PROVE  JustInv'
<1> SUFFICES ASSUME NEW d \in Callers PROVE Justified(d)'
    BY DEF JustInv
<1>1. CASE d = c
    BY <1>1
<1>2. CASE d # c
    <2>1. call'[d] = call[d]
        BY <1>2, GoOthers
    <2> QED BY <2>1, JustifiedKept DEF JustInv
<1> QED BY <1>1, <1>2

\* A phase in which nothing is claimed.
LEMMA NothingClaimed ==
    ASSUME NEW d \in Callers,
           call'[d].pc \notin Watched \cup {"submitting", "released", "reported"}
    PROVE  Justified(d)'
BY DEF Justified, Watched

LEMMA JustStep == TypeOK /\ TypeOK' /\ OwnersTrue /\ JustInv /\ [Next]_vars => JustInv'
<1> SUFFICES ASSUME TypeOK, TypeOK', OwnersTrue, JustInv, [Next]_vars PROVE JustInv'
    OBVIOUS
<1>0. TablesType /\ CallsType /\ NovoType
    BY DEF TypeOK
<1>1. CASE UNCHANGED vars
    <2>1. JobsKept /\ UNCHANGED <<session, grants, revision, call>>
        BY <1>1 DEF JobsKept, vars, novo
    <2> QED BY <2>1, JustifiedKept DEF JustInv
<1> SUFFICES ASSUME Next PROVE JustInv'
    BY <1>1
<1>2. JobsKept
    BY JobsStep
<1>3. ASSUME UNCHANGED <<session, grants, revision>>, NEW c \in Callers, NEW k, Go(c, k),
             k.pc \notin Watched \cup {"submitting", "released", "reported"}
      PROVE  JustInv'
    BY <1>2, <1>3, GoOthers, GoJustified, NothingClaimed
<1>4. Idle.pc \notin Watched \cup {"submitting", "released", "reported"}
    BY DEF Idle, Watched
<1>5. ASSUME NEW c \in Callers, Submit(c)
      PROVE  JustInv'
    <2> DEFINE k == call[c]
    <2>0. k \in Calls /\ UNCHANGED <<session, grants, revision>> /\ Justified(c)
        BY <1>0, <1>5 DEF CallsType, JustInv, Submit, BeginSubmit, Prepared, ExportStale, Refresh,
                      RefreshStale, StartOver, SubmitRepeated, SubmitNew, SubmitRefused, Record, novo
    <2>1. CASE BeginSubmit(c)
        <3>1. PICK request \in Requests, key \in Keys :
                Go(c, [pc |-> IF request.corpus = {} THEN "submitting" ELSE "preparing",
                       user |-> session[c], request |-> request, key |-> key,
                       scope |-> Resolve(Now(c), request), attempt |-> 0, vouched |-> FALSE])
            BY <2>1 DEF BeginSubmit
        <3> DEFINE new == [pc |-> IF request.corpus = {} THEN "submitting" ELSE "preparing",
                           user |-> session[c], request |-> request, key |-> key,
                           scope |-> Resolve(Now(c), request), attempt |-> 0, vouched |-> FALSE]
        <3>2. /\ new.pc \in {"submitting", "preparing"}
              /\ new.pc = "submitting" => new.request.corpus = {}
            OBVIOUS
        <3>3. Go(c, new)
            BY <3>1
        <3> HIDE DEF new
        <3>4. call'[c] = new
            BY <3>3, GoOthers
        <3>5. Justified(c)'
            BY <3>2, <3>4 DEF Justified, Watched
        <3> QED BY <1>2, <2>0, <3>3, <3>5, GoJustified
    <2>2. CASE Prepared(c)
        <3> DEFINE new == [k EXCEPT !.pc = "refreshing", !.vouched = InOrder(k, session[c], Now(c))]
        <3>1. k \in Submitting /\ k.pc = "preparing"
            BY <2>0, <2>2, ByPhase DEF Prepared
        <3>2. /\ new.pc = "refreshing" /\ new.user = k.user /\ new.request = k.request
              /\ new.scope = k.scope /\ new.vouched = InOrder(k, session[c], Now(c))
            BY <3>1 DEF Submitting
        <3>3. Go(c, new)
            BY <2>2 DEF Prepared
        <3> HIDE DEF new
        <3>4. call'[c] = new /\ session'[c] = session[c] /\ Now(c)' = Now(c)
            BY <2>0, <3>3, GoOthers DEF Now, Context
        <3>5. InOrder(call[c], session[c], Now(c))' <=> InOrder(k, session[c], Now(c))
            BY <3>1, <3>2, <3>4 DEF InOrder
        <3>6. Justified(c)'
            BY <3>2, <3>4, <3>5 DEF Justified
        <3> QED BY <1>2, <2>0, <3>3, <3>6, GoJustified
    <2>3. CASE ExportStale(c) \/ RefreshStale(c)
        <3> DEFINE new == [k EXCEPT !.pc = "retrying", !.attempt = @ + 1, !.vouched = FALSE]
        <3>1. k \in Submitting
            BY <2>0, <2>3, ByPhase DEF ExportStale, RefreshStale
        <3>2. new.pc \notin Watched \cup {"submitting", "released", "reported"}
            BY <3>1 DEF Submitting, Watched
        <3>3. Go(c, new)
            BY <2>3 DEF ExportStale, RefreshStale, Retry
        <3> HIDE DEF new
        <3> QED BY <1>3, <2>0, <3>2, <3>3
    <2>4. CASE Refresh(c)
        <3> DEFINE new == [k EXCEPT !.pc = "submitting"]
        <3>1. k \in Submitting /\ k.pc = "refreshing"
            BY <2>0, <2>4, ByPhase DEF Refresh
        <3>2. new.pc = "submitting" /\ new.vouched = k.vouched
            BY <3>1 DEF Submitting
        <3>3. k.vouched
            BY <2>0, <2>4, <3>1 DEF Refresh, Justified, InOrder, Watched
        <3>4. Go(c, new)
            BY <2>4 DEF Refresh
        <3> HIDE DEF new
        <3>5. call'[c] = new
            BY <3>4, GoOthers
        <3>6. Justified(c)'
            BY <3>2, <3>3, <3>5 DEF Justified, Watched
        <3> QED BY <1>2, <2>0, <3>4, <3>6, GoJustified
    <2>5. CASE StartOver(c)
        <3> DEFINE new == [k EXCEPT !.pc = "preparing", !.user = session[c],
                                    !.scope = Resolve(Now(c), k.request)]
        <3>1. k \in Submitting
            BY <2>0, <2>5, ByPhase DEF StartOver
        <3>2. new.pc \notin Watched \cup {"submitting", "released", "reported"}
            BY <3>1 DEF Submitting, Watched
        <3>3. Go(c, new)
            BY <2>5 DEF StartOver
        <3> HIDE DEF new
        <3> QED BY <1>3, <2>0, <3>2, <3>3
    <2>6. ASSUME NEW j, Received(c, j)
          PROVE  JustInv'
        <3> DEFINE new == [pc |-> "recording", user |-> k.user, request |-> k.request,
                           scope |-> k.scope, job |-> j]
        <3>1. new.pc \notin Watched \cup {"submitting", "released", "reported"}
            BY DEF Watched
        <3>2. Go(c, new)
            BY <2>6 DEF Received
        <3> HIDE DEF new
        <3> QED BY <1>3, <2>0, <3>1, <3>2
    <2>7. CASE SubmitRepeated(c) \/ SubmitNew(c) \/ SubmitRefused(c)
        BY <1>3, <1>4, <2>0, <2>6, <2>7 DEF SubmitRepeated, SubmitNew, SubmitRefused
    <2>8. CASE Record(c)
        <3>1. PICK pc \in {"accepted", "collided"} : Go(c, [k EXCEPT !.pc = pc])
            BY <2>8 DEF Record
        <3> DEFINE new == [k EXCEPT !.pc = pc]
        <3>2. k \in Recording
            BY <2>0, <2>8, ByPhase DEF Record
        <3>3. new.pc \notin Watched \cup {"submitting", "released", "reported"}
            BY <3>2 DEF Recording, Watched
        <3>4. Go(c, new)
            BY <3>1
        <3> HIDE DEF new
        <3> QED BY <1>3, <2>0, <3>3, <3>4
    <2> QED BY <1>5, <2>1, <2>2, <2>3, <2>4, <2>5, <2>7, <2>8 DEF Submit
<1>6. ASSUME NEW c \in Callers, Release(c)
      PROVE  JustInv'
    <2> DEFINE k == call[c]
    <2>0. /\ k \in Calls /\ UNCHANGED <<session, grants, revision>> /\ Justified(c) /\ jobs' = jobs
          /\ session'[c] = session[c] /\ Now(c)' = Now(c)
        BY <1>0, <1>6 DEF CallsType, JustInv, Release, BeginResult, Authorize, Answered, FetchAgain,
                      Reauthorize, BeginStatus, Checked, Report, novo, Now, Context
    <2>1. CASE BeginResult(c)
        <3>1. PICK j \in DOMAIN jobs :
                Go(c, [pc |-> "authorizing", user |-> session[c], context |-> Now(c),
                       job |-> j, vouched |-> FALSE])
            BY <2>1 DEF BeginResult
        <3> DEFINE new == [pc |-> "authorizing", user |-> session[c], context |-> Now(c),
                           job |-> j, vouched |-> FALSE]
        <3>2. Go(c, new) /\ new.pc \notin Watched \cup {"submitting", "released", "reported"}
            BY <3>1 DEF Watched
        <3> HIDE DEF new
        <3> QED BY <1>3, <2>0, <3>2
    <2>2. CASE Authorize(c)
        <3> DEFINE new == [k EXCEPT !.pc = "asking", !.context = NoScope]
        <3>1. k \in Reading
            BY <2>0, <2>2, ByPhase DEF Authorize
        <3>2. new.pc \notin Watched \cup {"submitting", "released", "reported"}
            BY <3>1 DEF Reading, Watched
        <3>3. Go(c, new) \/ Go(c, Idle)
            BY <2>2 DEF Authorize
        <3> HIDE DEF new
        <3> QED BY <1>3, <1>4, <2>0, <3>2, <3>3
    <2>3. CASE Answered(c)
        <3> DEFINE new == [k EXCEPT !.pc = "answered", !.vouched = InOrder(k, session[c], Now(c))]
        <3>1. k \in Reading /\ k.pc = "asking"
            BY <2>0, <2>3, ByPhase DEF Answered
        <3>2. new.pc = "answered" /\ new.job = k.job /\ new.vouched = InOrder(k, session[c], Now(c))
            BY <3>1 DEF Reading
        <3>3. Go(c, new)
            BY <2>3 DEF Answered
        <3> HIDE DEF new
        <3>4. call'[c] = new
            BY <3>3, GoOthers
        <3>5. InOrder(call[c], session[c], Now(c))' <=> InOrder(k, session[c], Now(c))
            BY <2>0, <3>1, <3>2, <3>4 DEF InOrder
        <3>6. Justified(c)'
            BY <3>2, <3>4, <3>5 DEF Justified
        <3> QED BY <1>2, <2>0, <3>3, <3>6, GoJustified
    <2>4. CASE FetchAgain(c)
        <3> DEFINE new == [k EXCEPT !.pc = "reauthorizing", !.user = session[c], !.context = Now(c)]
        <3>1. k \in Reading /\ k.pc = "answered"
            BY <2>0, <2>4, ByPhase DEF FetchAgain
        <3>2. /\ new.pc = "reauthorizing" /\ new.job = k.job /\ new.vouched = k.vouched
              /\ new.user = session[c] /\ new.context = Now(c)
            BY <3>1 DEF Reading
        <3>3. Go(c, new)
            BY <2>4 DEF FetchAgain
        <3> HIDE DEF new
        <3>4. call'[c] = new
            BY <3>3, GoOthers
        <3>5. InOrder(k, session[c], Now(c)) => k.vouched
            BY <2>0, <3>1 DEF Justified, Watched
        <3>6. InOrder(call[c], session[c], Now(c))' => InOrder(k, session[c], Now(c))
            BY <2>0, <3>1, <3>2, <3>4 DEF InOrder
        <3>7. InOrder(call[c], call[c].user, call[c].context)' => InOrder(k, session[c], Now(c))
            BY <2>0, <3>1, <3>2, <3>4 DEF InOrder
        <3>8. Justified(c)'
            BY <3>2, <3>4, <3>5, <3>6, <3>7 DEF Justified
        <3> QED BY <1>2, <2>0, <3>3, <3>8, GoJustified
    <2>5. CASE Reauthorize(c)
        <3> DEFINE new == [k EXCEPT !.pc = "released", !.context = NoScope]
        <3>1. k \in Reading /\ k.pc = "reauthorizing"
            BY <2>0, <2>5, ByPhase DEF Reauthorize
        <3>2. new.pc = "released" /\ new.vouched = k.vouched
            BY <3>1 DEF Reading
        <3>3. CASE Authorized(k)
            <4>1. /\ jobs[k.job].actor = k.user
                  /\ Covers(k.context, jobs[k.job].scope)
                BY <3>3 DEF Authorized, Unexpired, OwnersTrue
            <4>2. k.vouched
                BY <2>0, <3>1, <4>1 DEF Justified, InOrder
            <4>3. Go(c, new)
                BY <2>5, <3>3 DEF Reauthorize
            <4> HIDE DEF new
            <4>4. call'[c] = new
                BY <4>3, GoOthers
            <4>5. Justified(c)'
                BY <3>2, <4>2, <4>4 DEF Justified, Watched
            <4> QED BY <1>2, <2>0, <4>3, <4>5, GoJustified
        <3>4. CASE ~Authorized(k)
            <4>1. Go(c, Idle)
                BY <2>5, <3>4 DEF Reauthorize
            <4> QED BY <1>3, <1>4, <2>0, <4>1
        <3> QED BY <3>3, <3>4
    <2>6. CASE BeginStatus(c)
        <3>1. PICK request \in Requests :
                Go(c, [pc |-> "checking", user |-> session[c], request |-> request,
                       scope |-> Resolve(Now(c), request), vouched |-> FALSE])
            BY <2>6 DEF BeginStatus
        <3> DEFINE new == [pc |-> "checking", user |-> session[c], request |-> request,
                           scope |-> Resolve(Now(c), request), vouched |-> FALSE]
        <3>2. Go(c, new) /\ new.pc \notin Watched \cup {"submitting", "released", "reported"}
            BY <3>1 DEF Watched
        <3> HIDE DEF new
        <3> QED BY <1>3, <2>0, <3>2
    <2>7. CASE Checked(c)
        <3> DEFINE new == [k EXCEPT !.pc = "checked", !.vouched = InOrder(k, session[c], Now(c))]
        <3>1. k \in Checking /\ k.pc = "checking"
            BY <2>0, <2>7, ByPhase DEF Checked
        <3>2. /\ new.pc = "checked" /\ new.user = k.user /\ new.request = k.request
              /\ new.scope = k.scope /\ new.vouched = InOrder(k, session[c], Now(c))
            BY <3>1 DEF Checking
        <3>3. Go(c, new)
            BY <2>7 DEF Checked
        <3> HIDE DEF new
        <3>4. call'[c] = new
            BY <3>3, GoOthers
        <3>5. InOrder(call[c], session[c], Now(c))' <=> InOrder(k, session[c], Now(c))
            BY <2>0, <3>1, <3>2, <3>4 DEF InOrder
        <3>6. Justified(c)'
            BY <3>2, <3>4, <3>5 DEF Justified
        <3> QED BY <1>2, <2>0, <3>3, <3>6, GoJustified
    <2>8. CASE Report(c)
        <3> DEFINE new == [k EXCEPT !.pc = "reported"]
        <3>1. k \in Checking /\ k.pc = "checked"
            BY <2>0, <2>8, ByPhase DEF Report
        <3>2. new.pc = "reported" /\ new.vouched = k.vouched
            BY <3>1 DEF Checking
        <3>3. k.vouched
            BY <2>0, <2>8, <3>1 DEF Report, Justified, InOrder, Watched
        <3>4. Go(c, new)
            BY <2>8 DEF Report
        <3> HIDE DEF new
        <3>5. call'[c] = new
            BY <3>4, GoOthers
        <3>6. Justified(c)'
            BY <3>2, <3>3, <3>5 DEF Justified, Watched
        <3> QED BY <1>2, <2>0, <3>4, <3>6, GoJustified
    <2> QED BY <1>6, <2>1, <2>2, <2>3, <2>4, <2>5, <2>6, <2>7, <2>8 DEF Release
<1>7. ASSUME NEW c \in Callers, Leave(c)
      PROVE  JustInv'
    BY <1>3, <1>4, <1>7 DEF Leave, novo
<1>8. CASE Novo
    <2>1. jobs' = jobs /\ Witness
        BY <1>8 DEF Novo, SignIn, Share, Edit
    <2> SUFFICES ASSUME NEW d \in Callers PROVE Justified(d)'
        BY DEF JustInv
    <2> DEFINE k == call[d]
               order == InOrder(k, session'[d], Context(session'[d], grants', revision'))
    <2>2. k \in Calls /\ Justified(d) /\ Now(d)' = Context(session'[d], grants', revision')
        BY <1>0 DEF CallsType, JustInv, Now
    <2>3. CASE k.pc \notin Watched
        <3>1. call'[d] = k
            BY <1>0, <2>1, <2>3, WitnessStep
        <3> QED BY <2>2, <2>3, <3>1 DEF Justified, Watched
    <2>4. CASE k.pc \in Watched
        <3>1. call'[d] = [k EXCEPT !.vouched = @ \/ order]
            BY <1>0, <2>1, <2>4, WitnessStep
        <3>2. k \in Submitting \/ k \in Reading \/ k \in Checking
            BY <2>2, <2>4, ByPhase DEF Watched
        <3> HIDE DEF order
        <3>3. /\ call'[d].pc = k.pc
              /\ call'[d].vouched = (k.vouched \/ order)
              /\ k \in Submitting \cup Checking =>
                    call'[d].user = k.user /\ call'[d].request = k.request /\ call'[d].scope = k.scope
              /\ k \in Reading =>
                    call'[d].user = k.user /\ call'[d].job = k.job /\ call'[d].context = k.context
            BY <3>1, <3>2 DEF Submitting, Reading, Checking
        <3>4. k.pc \in {"asking", "answered", "reauthorizing"} <=> k \in Reading
            BY <2>2, <2>4, ByPhase DEF Watched
        <3>5. InOrder(call[d], session[d], Now(d))' <=> order
            BY <2>1, <2>2, <3>2, <3>3, <3>4 DEF InOrder, order
        <3>6. k.pc = "reauthorizing" =>
                (InOrder(call[d], call[d].user, call[d].context)' <=> InOrder(k, k.user, k.context))
            BY <2>1, <3>2, <3>3, <3>4 DEF InOrder
        <3> QED BY <2>2, <2>4, <3>3, <3>5, <3>6 DEF Justified, Watched
    <2> QED BY <2>3, <2>4
<1>9. CASE (\E j \in DOMAIN jobs : JobEnds(j)) \/ Tick
    <2>1. UNCHANGED <<session, grants, revision, call>>
        BY <1>9 DEF JobEnds, Tick, novo
    <2> QED BY <1>2, <2>1, JustifiedKept DEF JustInv
<1>10. CASE Restart
    <2>1. \A d \in Callers : call'[d] = Idle
        BY <1>10 DEF Restart
    <2> QED BY <1>4, <2>1, NothingClaimed DEF JustInv
<1> QED BY <1>5, <1>6, <1>7, <1>8, <1>9, <1>10 DEF Next

LEMMA JustInvariant == Spec => []JustInv
<1>1. Init => JustInv
    BY DEF Init, Idle, JustInv, Justified, Watched
<1>2. TypeOK /\ TypeOK' /\ OwnersTrue /\ JustInv /\ [Next]_vars => JustInv'
    BY JustStep
<1> QED BY <1>1, <1>2, TypeCorrect, OwnersAgree, PTL DEF Spec

\* No job about notebooks is submitted for a user or a scope that was not in
\* order at a moment after its preparation had ended.
THEOREM SubmittedInOrder == Spec => []SubmissionJustified
<1>1. JustInv => SubmissionJustified
    BY DEF JustInv, Justified, SubmissionJustified
<1> QED BY <1>1, JustInvariant, PTL

\* Nothing is released unless, at a moment after the worker gave it, the session
\* was the job actor's and the actor could read exactly its scope.
THEOREM ReleasedInOrder == Spec => []ReleaseJustified
<1>1. JustInv => ReleaseJustified
    BY DEF JustInv, Justified, ReleaseJustified
<1> QED BY <1>1, JustInvariant, PTL

=============================================================================
