--------------------------- MODULE GatewayRelease ---------------------------
(***************************************************************************)
(* What the gateway submits and what it releases: the handlers of          *)
(* novo_chat/gateway/app.py that create a job, return its result and       *)
(* report on indexes, with the ownership database they share               *)
(* (novo_chat/gateway/store.py).  Sessions, access to notebooks and their  *)
(* content belong to Novo and change between any two awaits of a handler;  *)
(* the jobs belong to the worker (JobQueue has their life).                *)
(*                                                                         *)
(* A revision is a name of a notebook's content, so it may come back.      *)
(***************************************************************************)
EXTENDS Naturals

CONSTANTS
    Users, Notebooks, Revisions,
    Callers,         \* requests under way at a time, each with its own session
    Keys,            \* values of the Idempotency-Key header
    Operations,      \* about notebooks: "ask", "index_rebuild"
    JobIds,          \* bound: the jobs the worker may be asked to create
    SyncRetries,     \* sync_revision_retries
    OwnershipTTL,    \* job_ownership_ttl_s
    JobRetention,    \* job_retention_seconds of the worker
    MaxChanges,      \* bound: the changes Novo makes
    MaxTime,         \* bound: the clock stops there
    SignedOut

ASSUME GatewayReleaseAssumption ==
    /\ SyncRetries \in Nat /\ OwnershipTTL \in Nat /\ JobRetention \in Nat
    /\ MaxChanges \in Nat /\ MaxTime \in Nat
    /\ SignedOut \notin Users

VARIABLES
    session,    \* per caller, the user its session cookie stands for
    grants,     \* per user, the notebooks Novo lets it read
    revision,   \* per notebook, the revision of its content
    changes,    \* to these, so far
    now,        \* the clock
    jobs,       \* the worker's jobs, by id; a purged one is unknown to it
    owners,     \* the table job_owners, by job id
    call        \* per caller, the handler that serves it and what it holds

novo == <<session, grants, revision, changes>>
vars == <<novo, now, jobs, owners, call>>

\* Notebooks with a revision each: those of a Novo context, or a job's scope.
Scopes == UNION {[S -> Revisions] : S \in SUBSET Notebooks}
NoScope == [n \in {} |-> n]

\* A request names one notebook or novo:all; a model operation names none.
Corpora == {Notebooks} \cup {{n} : n \in Notebooks}
Requests == [operation : Operations, corpus : Corpora] \cup {[operation |-> "model_start", corpus |-> {}]}

Jobs == [actor : Users, key : Keys, request : Requests, scope : Scopes,
         state : {"live", "succeeded", "failed", "purged"}, updatedAt : 0..MaxTime]

OwnedJobs == [user : Users, operation : Operations \cup {"model_start"}, scope : Scopes, createdAt : 0..MaxTime]

\* submit_job up to the worker's answer; vouched is history, as below.
Submitting ==
    [pc : {"preparing", "refreshing", "retrying", "submitting"}, user : Users, request : Requests,
     key : Keys, scope : Scopes, attempt : 0..SyncRetries, vouched : BOOLEAN]
\* submit_job with the worker's answer.
Recording ==
    [pc : {"recording", "accepted", "collided"}, user : Users, request : Requests,
     scope : Scopes, job : JobIds]
\* job_result.
Reading ==
    [pc : {"authorizing", "asking", "answered", "reauthorizing", "released"}, user : Users,
     context : Scopes, job : JobIds, vouched : BOOLEAN]
\* index_status.
Checking ==
    [pc : {"checking", "checked", "reported"}, user : Users, request : Requests,
     scope : Scopes, vouched : BOOLEAN]
Idle == [pc |-> "idle"]
Calls == {Idle} \cup Submitting \cup Recording \cup Reading \cup Checking

NovoType ==
    /\ session \in [Callers -> Users \cup {SignedOut}]
    /\ grants \in [Users -> SUBSET Notebooks]
    /\ revision \in [Notebooks -> Revisions]
    /\ changes \in 0..MaxChanges /\ now \in 0..MaxTime

TablesType ==
    /\ DOMAIN jobs \subseteq JobIds /\ \A j \in DOMAIN jobs : jobs[j] \in Jobs
    /\ DOMAIN owners \subseteq DOMAIN jobs /\ \A j \in DOMAIN owners : owners[j] \in OwnedJobs

CallsType ==
    /\ call \in [Callers -> Calls]
    /\ \A c \in Callers : call[c] \in Recording \cup Reading => call[c].job \in DOMAIN jobs

TypeOK == NovoType /\ TablesType /\ CallsType

Init ==
    /\ session \in [Callers -> Users]
    /\ grants \in [Users -> SUBSET Notebooks]
    /\ revision \in [Notebooks -> Revisions]
    /\ changes = 0 /\ now = 0
    /\ jobs = NoScope /\ owners = NoScope
    /\ call = [c \in Callers |-> Idle]

-----------------------------------------------------------------------------
(* Novo, as the gateway sees it.                                           *)

\* The notebooks of a context response: the session's user, and what it may
\* read at the revisions of this moment.
Context(u, g, r) == IF u = SignedOut THEN NoScope ELSE [n \in g[u] |-> r[n]]
Now(c) == Context(session[c], grants, revision)

\* resolve_scope; the empty scope stands for its 404 and 409.
Resolve(context, request) == [n \in DOMAIN context \cap request.corpus |-> context[n]]

\* authorize_owned_job's comparison of the scope with a context.
Covers(context, scope) ==
    \A n \in DOMAIN scope : n \in DOMAIN context /\ context[n] = scope[n]

\* What a handler is about to submit or release is in order for user u with
\* this context: for the one it holds, or, for a result, by the worker's job.
InOrder(k, u, context) ==
    IF k.pc \in {"asking", "answered", "reauthorizing"}
    THEN jobs[k.job].actor = u /\ Covers(context, jobs[k.job].scope)
    ELSE k.user = u /\ Resolve(context, k.request) = k.scope

\* The phases in which a handler has the worker's answer and has not used it.
Watched == {"refreshing", "answered", "reauthorizing", "checked"}

\* A change at Novo.  History: vouched is whether what a handler holds was in
\* order at some moment since the answer.
Witness ==
    /\ changes < MaxChanges
    /\ changes' = changes + 1
    /\ call' = [c \in Callers |->
        IF call[c].pc \in Watched
        THEN [call[c] EXCEPT !.vouched =
                 @ \/ InOrder(call[c], session'[c], Context(session'[c], grants', revision'))]
        ELSE call[c]]

SignIn(c, u) ==
    /\ session' = [session EXCEPT ![c] = u]
    /\ UNCHANGED <<now, grants, revision, jobs, owners>>
    /\ Witness

Share(u, S) ==
    /\ grants' = [grants EXCEPT ![u] = S]
    /\ UNCHANGED <<now, session, revision, jobs, owners>>
    /\ Witness

Edit(n, r) ==
    /\ revision' = [revision EXCEPT ![n] = r]
    /\ UNCHANGED <<now, session, grants, jobs, owners>>
    /\ Witness

Go(c, k) == call' = [call EXCEPT ![c] = k]

\* An error response, a lost connection, or the end of the request.
Leave(c) ==
    /\ call[c].pc # "idle"
    /\ Go(c, Idle)
    /\ UNCHANGED <<novo, now, jobs, owners>>

-----------------------------------------------------------------------------
(* submit_job and synchronized_scope.                                      *)

\* The context is fetched and the scope resolved; a model operation has none
\* and is not synchronized.
BeginSubmit(c) ==
    /\ call[c].pc = "idle" /\ session[c] # SignedOut
    /\ \E request \in Requests, key \in Keys :
         LET scope == Resolve(Now(c), request)
         IN  /\ request.corpus # {} => scope # NoScope
             /\ Go(c, [pc |-> IF request.corpus = {} THEN "submitting" ELSE "preparing",
                       user |-> session[c], request |-> request, key |-> key,
                       scope |-> scope, attempt |-> 0, vouched |-> FALSE])
    /\ UNCHANGED <<novo, now, jobs, owners>>

\* require_indexes_ready or prepare_documents_for_rebuild returns.
Prepared(c) ==
    /\ call[c].pc = "preparing"
    /\ Go(c, [call[c] EXCEPT !.pc = "refreshing",
                             !.vouched = InOrder(call[c], session[c], Now(c))])
    /\ UNCHANGED <<novo, now, jobs, owners>>

\* Mutant: the retries are counted from one.
RetryOnceMore(c) ==
    /\ call[c].attempt <= SyncRetries
    /\ Go(c, [call[c] EXCEPT !.pc = "retrying", !.attempt = @ + 1, !.vouched = FALSE])

\* NovoRevisionChanged or NovoNotebookUnavailable with an attempt left.
Retry(c) ==
    /\ call[c].attempt < SyncRetries
    /\ Go(c, [call[c] EXCEPT !.pc = "retrying", !.attempt = @ + 1, !.vouched = FALSE])

\* The export finds another revision, or the notebook gone.
ExportStale(c) ==
    /\ call[c].pc = "preparing" /\ call[c].request.operation = "index_rebuild"
    /\ ~Covers(Now(c), call[c].scope)
    /\ Retry(c)
    /\ UNCHANGED <<novo, now, jobs, owners>>

\* Mutant: the scope of the refreshed context is not compared.
RefreshUnchecked(c) ==
    /\ call[c].pc = "refreshing" /\ session[c] = call[c].user
    /\ Go(c, [call[c] EXCEPT !.pc = "submitting"])
    /\ UNCHANGED <<novo, now, jobs, owners>>

\* The refreshed context is of the same user and resolves to the same scope.
Refresh(c) ==
    /\ call[c].pc = "refreshing" /\ session[c] = call[c].user
    /\ Resolve(Now(c), call[c].request) = call[c].scope
    /\ Go(c, [call[c] EXCEPT !.pc = "submitting"])
    /\ UNCHANGED <<novo, now, jobs, owners>>

\* It resolves to another one.
RefreshStale(c) ==
    /\ call[c].pc = "refreshing" /\ session[c] = call[c].user
    /\ Resolve(Now(c), call[c].request) \notin {call[c].scope, NoScope}
    /\ Retry(c)
    /\ UNCHANGED <<novo, now, jobs, owners>>

\* The next attempt, with the context of whoever the session now stands for.
StartOver(c) ==
    /\ call[c].pc = "retrying" /\ session[c] # SignedOut
    /\ LET scope == Resolve(Now(c), call[c].request)
       IN  /\ scope # NoScope
           /\ Go(c, [call[c] EXCEPT !.pc = "preparing", !.user = session[c],
                                    !.scope = scope])
    /\ UNCHANGED <<novo, now, jobs, owners>>

-----------------------------------------------------------------------------
(* The worker's answer to a submission, and its jobs.                      *)

\* purge_terminal_operations, which the worker runs first.
Kept ==
    [j \in DOMAIN jobs |->
        IF jobs[j].state \in {"succeeded", "failed"} /\ jobs[j].updatedAt + JobRetention < now
        THEN [jobs[j] EXCEPT !.state = "purged"] ELSE jobs[j]]

\* Mutant: the key alone identifies the submission.
KnownByKey(k) == {j \in DOMAIN Kept : Kept[j].state # "purged" /\ Kept[j].key = k.key}

Known(k) ==
    {j \in DOMAIN Kept : Kept[j].state # "purged" /\ Kept[j].key = k.key /\ Kept[j].actor = k.user}

\* Mutant: the key of another request is taken for a repetition.
SameKey(j, k) == TRUE

\* The request fingerprint: operation, payload and scope.  The corpus is no
\* part of the payload: two requests that select the same scope are one.
SameRequest(j, k) ==
    jobs[j].request.operation = k.request.operation /\ jobs[j].scope = k.scope

Received(c, j) ==
    LET k == call[c]
    IN  Go(c, [pc |-> "recording", user |-> k.user, request |-> k.request, scope |-> k.scope, job |-> j])

SubmitRepeated(c) ==
    /\ call[c].pc = "submitting"
    /\ \E j \in Known(call[c]) : SameRequest(j, call[c]) /\ Received(c, j)
    /\ jobs' = Kept
    /\ UNCHANGED <<novo, now, owners>>

\* The answer may be lost on its way, and the job is then without an owner.
SubmitNew(c) ==
    /\ call[c].pc = "submitting"
    /\ Known(call[c]) = {}
    /\ \E j \in JobIds \ DOMAIN jobs :
         /\ jobs' = [i \in DOMAIN jobs \cup {j} |->
                IF i = j
                THEN [actor |-> call[c].user, key |-> call[c].key, request |-> call[c].request,
                      scope |-> call[c].scope, state |-> "live", updatedAt |-> now]
                ELSE Kept[i]]
         /\ Received(c, j) \/ Go(c, Idle)
    /\ UNCHANGED <<novo, now, owners>>

\* IDEMPOTENCY_CONFLICT
SubmitRefused(c) ==
    /\ call[c].pc = "submitting"
    /\ \E j \in Known(call[c]) : ~SameRequest(j, call[c])
    /\ jobs' = Kept
    /\ Go(c, Idle)
    /\ UNCHANGED <<novo, now, owners>>

JobEnds(j) ==
    /\ jobs[j].state = "live"
    /\ \E outcome \in {"succeeded", "failed"} : jobs' = [jobs EXCEPT ![j].state = outcome, ![j].updatedAt = now]
    /\ UNCHANGED <<novo, now, owners, call>>

-----------------------------------------------------------------------------
(* The ownership database.                                                 *)

\* _purge_expired_connection
Unexpired == {j \in DOMAIN owners : owners[j].createdAt + OwnershipTTL >= now}
KeptOwners == [j \in Unexpired |-> owners[j]]

\* JobOwnershipStore.add: a row that is there already stays, and must agree.
Record(c) ==
    LET k == call[c]
        row == [user |-> k.user, operation |-> k.request.operation, scope |-> k.scope, createdAt |-> now]
        Agrees(o) == o.user = row.user /\ o.operation = row.operation /\ o.scope = row.scope
    IN  /\ k.pc = "recording"
        /\ owners' = [j \in Unexpired \cup {k.job} |->
                          IF j \in Unexpired THEN owners[j] ELSE row]
        /\ Go(c, [k EXCEPT !.pc = IF Agrees(owners'[k.job]) THEN "accepted" ELSE "collided"])
        /\ UNCHANGED <<novo, now, jobs>>

-----------------------------------------------------------------------------
(* job_result and index_status.                                            *)

BeginResult(c) ==
    /\ call[c].pc = "idle" /\ session[c] # SignedOut
    /\ \E j \in DOMAIN jobs :
         Go(c, [pc |-> "authorizing", user |-> session[c], context |-> Now(c),
                job |-> j, vouched |-> FALSE])
    /\ UNCHANGED <<novo, now, jobs, owners>>

\* authorize_owned_job, its context fetched before.
Authorized(k) ==
    /\ k.job \in Unexpired
    /\ owners[k.job].user = k.user
    /\ Covers(k.context, owners[k.job].scope)

Authorize(c) ==
    /\ call[c].pc = "authorizing"
    /\ Go(c, IF Authorized(call[c]) THEN [call[c] EXCEPT !.pc = "asking", !.context = NoScope] ELSE Idle)
    /\ owners' = KeptOwners
    /\ UNCHANGED <<novo, now, jobs>>

\* The worker has the result.
Answered(c) ==
    /\ call[c].pc = "asking"
    /\ jobs[call[c].job].state = "succeeded"
    /\ Go(c, [call[c] EXCEPT !.pc = "answered", !.vouched = InOrder(call[c], session[c], Now(c))])
    /\ UNCHANGED <<novo, now, jobs, owners>>

\* Mutant: the second authorization uses the context of the first.
KeepContext(c) ==
    /\ call[c].pc = "answered"
    /\ Go(c, [call[c] EXCEPT !.pc = "released"])
    /\ UNCHANGED <<novo, now, jobs, owners>>

\* The context is fetched again.
FetchAgain(c) ==
    /\ call[c].pc = "answered" /\ session[c] # SignedOut
    /\ Go(c, [call[c] EXCEPT !.pc = "reauthorizing", !.user = session[c], !.context = Now(c)])
    /\ UNCHANGED <<novo, now, jobs, owners>>

Reauthorize(c) ==
    /\ call[c].pc = "reauthorizing"
    /\ Go(c, IF Authorized(call[c]) THEN [call[c] EXCEPT !.pc = "released", !.context = NoScope] ELSE Idle)
    /\ owners' = KeptOwners
    /\ UNCHANGED <<novo, now, jobs>>

BeginStatus(c) ==
    /\ call[c].pc = "idle" /\ session[c] # SignedOut
    /\ \E request \in Requests :
         LET scope == Resolve(Now(c), request)
         IN  /\ request.operation = "index_rebuild" /\ scope # NoScope
             /\ Go(c, [pc |-> "checking", user |-> session[c], request |-> request,
                       scope |-> scope, vouched |-> FALSE])
    /\ UNCHANGED <<novo, now, jobs, owners>>

Checked(c) ==
    /\ call[c].pc = "checking"
    /\ Go(c, [call[c] EXCEPT !.pc = "checked", !.vouched = InOrder(call[c], session[c], Now(c))])
    /\ UNCHANGED <<novo, now, jobs, owners>>

Report(c) ==
    /\ call[c].pc = "checked" /\ session[c] = call[c].user
    /\ Resolve(Now(c), call[c].request) = call[c].scope
    /\ Go(c, [call[c] EXCEPT !.pc = "reported"])
    /\ UNCHANGED <<novo, now, jobs, owners>>

-----------------------------------------------------------------------------
\* The gateway restarts: every request is lost, the database is kept.
Restart ==
    /\ call' = [c \in Callers |-> Idle]
    /\ owners' = KeptOwners
    /\ UNCHANGED <<novo, now, jobs>>

Tick ==
    /\ now < MaxTime
    /\ now' = now + 1
    /\ UNCHANGED <<novo, jobs, owners, call>>

Submit(c) ==
    \/ BeginSubmit(c) \/ Prepared(c) \/ ExportStale(c) \/ Refresh(c) \/ RefreshStale(c) \/ StartOver(c)
    \/ SubmitRepeated(c) \/ SubmitNew(c) \/ SubmitRefused(c) \/ Record(c)

Release(c) ==
    \/ BeginResult(c) \/ Authorize(c) \/ Answered(c) \/ FetchAgain(c) \/ Reauthorize(c)
    \/ BeginStatus(c) \/ Checked(c) \/ Report(c)

Novo ==
    \/ \E c \in Callers, u \in Users \cup {SignedOut} : SignIn(c, u)
    \/ \E u \in Users, S \in SUBSET Notebooks : Share(u, S)
    \/ \E n \in Notebooks, r \in Revisions : Edit(n, r)

Next ==
    \/ \E c \in Callers : Submit(c) \/ Release(c) \/ Leave(c)
    \/ Novo
    \/ \E j \in DOMAIN jobs : JobEnds(j)
    \/ Restart
    \/ Tick

Spec == Init /\ [][Next]_vars

-----------------------------------------------------------------------------
(* Properties.                                                             *)

\* A row of the ownership database names the actor, the request and the scope
\* of the job it is kept for, whatever the order of submissions under one key,
\* lost answers, changed sessions and expired rows.
OwnersTrue ==
    \A j \in DOMAIN owners :
        /\ owners[j].user = jobs[j].actor
        /\ owners[j].operation = jobs[j].request.operation
        /\ owners[j].scope = jobs[j].scope

\* "worker job ownership collision" (store.py) is never raised: a repetition the
\* worker accepts is one of the same user, operation and scope.
NeverCollides == \A c \in Callers : call[c].pc # "collided"

\* A job about notebooks is submitted for a user and a scope that were in order
\* at some moment after their preparation had ended, in the attempt it ended.
SubmissionJustified ==
    \A c \in Callers : call[c].pc = "submitting" /\ call[c].request.corpus # {} => call[c].vouched

\* "A long or delayed status request must not create a window where content is
\* released after its revision or the user's access changed" (app.py): a result
\* or an index status is released only if at some moment after the worker gave
\* it the session stood for the job's actor, who could read exactly that scope.
ReleaseJustified ==
    \A c \in Callers : call[c].pc \in {"released", "reported"} => call[c].vouched

=============================================================================
