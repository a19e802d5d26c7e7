---------------------------- MODULE ModelSwitch ----------------------------
(***************************************************************************)
(* Switching the generation model of a shared GPU.  Every environment      *)
(* (staging, production) has a worker whose runner thread executes         *)
(* MODEL_START and MODEL_STOP jobs (novo_chat/executor.py) through a       *)
(* client of a Unix socket (novo_chat/model_controller.py), and a          *)
(* privileged controller process that serves that socket one connection at *)
(* a time and drives Docker under a lock of the host                       *)
(* (deploy/compute-host/modelctl_server.py).                               *)
(*                                                                         *)
(* The client waits 10 seconds for an answer, the controller up to 60 for  *)
(* Docker: a request whose client has gone is served all the same.  A      *)
(* model is identified with its container.                                 *)
(***************************************************************************)
EXTENDS Naturals, Sequences, FiniteSets

CONSTANTS
    Environments,  \* staging, production
    Containers,    \* the model containers of the compute host
    Approved,      \* the containers in each environment's configuration
    Free,          \* the host lock is not held
    NoRequest,     \* nothing asked, nothing being served
    MaxRequests,   \* bound: requests on each environment's socket
    MaxCrashes     \* bound: controller processes killed from outside

ASSUME ModelSwitchAssumption ==
    /\ Approved \in [Environments -> SUBSET Containers]
    /\ Free \notin Environments
    /\ MaxRequests \in [Environments -> Nat]
    /\ MaxCrashes \in Nat

ASSUME NoRequestAssumption ==
    NoRequest \notin [id : Nat, action : {"status", "start", "stop"}, model : Containers]

VARIABLES
    inventory,  \* modelctl-exclusive-containers.json
    running,    \* the containers Docker reports as running
    late,       \* commands dockerd carries on with after their CLI was killed
    lock,       \* who holds /run/novo-chat/modelctl-gpu.lock
    step,       \* where the runner is in _model_lifecycle
    job,        \* the operation it executes
    others,     \* other approved models it has still to look at
    asked,      \* the request it sent last
    answer,     \* what it heard on that request
    issued,     \* requests sent so far on the environment's socket
    backlog,    \* connections not accepted yet, oldest first
    open,       \* requests whose client still waits
    up,         \* the controller process exists
    phase,      \* what the controller does with the accepted request
    req,        \* that request
    left,       \* containers it has still to inspect
    found,      \* containers it found running
    outcome,    \* the status it is going to answer
    stoppedAt,  \* history: the last stop of each model a job succeeded with
    startedAt,  \* history: the last start of each model Docker executed for a controller
    outlived,   \* history: dockerd went on with a command whose CLI was killed
    crashes     \* controller processes killed so far

dockerVars == <<running, late>>
runnerVars == <<step, job, others, asked, answer>>
socketVars == <<issued, backlog, open>>
serveVars == <<up, phase, req, left, found, outcome>>
history == <<stoppedAt, startedAt, outlived, crashes>>
vars == <<inventory, dockerVars, lock, runnerVars, socketVars, serveVars, history>>

Actions == {"status", "start", "stop"}
Requests == [id : Nat, action : Actions, model : Containers]
Jobs == [kind : {"start", "stop"}, model : Containers]
Outcomes == {"running", "stopped", "error"}
Steps == {"idle", "others", "freeing", "final", "probing"}
Phases == {"accepting", "read", "inspect", "command", "reply"}

Request(i, a, m) == [id |-> i, action |-> a, model |-> m]
Idle(e) == step[e] = "idle"
Critical(e) == phase[e] \in {"inspect", "command"}

\* A start looks at every other model, perhaps stops it, and then starts.
LongestJob(e) == 2 * Cardinality(Approved[e]) - 1
Installed(e) == Approved[e] \subseteq inventory

-----------------------------------------------------------------------------
(* The socket client *)

\* _call: connect, send one line; the answer comes on the same connection.
Send(e, a, m) ==
    LET i == issued[e] + 1
    IN  /\ issued' = [issued EXCEPT ![e] = i]
        /\ backlog' = [backlog EXCEPT ![e] = Append(@, Request(i, a, m))]
        /\ open' = [open EXCEPT ![e] = @ \cup {i}]

\* The runner sends a request and blocks until it hears an answer.
Call(e, a, m) ==
    /\ Send(e, a, m)
    /\ asked' = [asked EXCEPT ![e] = Request(issued[e] + 1, a, m)]
    /\ answer' = [answer EXCEPT ![e] = "none"]

-----------------------------------------------------------------------------
(* The runner thread: WorkerExecutor._model_lifecycle *)

\* The next request of a job with the given other models left: the status of
\* one of them (the code takes them in the configured order, on which nothing
\* rests), or the start or stop the job is for.
Proceed(e, j, rest) ==
    /\ job' = [job EXCEPT ![e] = j]
    /\ \/ \E o \in rest :
            /\ Call(e, "status", o)
            /\ step' = [step EXCEPT ![e] = "others"]
            /\ others' = [others EXCEPT ![e] = rest \ {o}]
       \/ /\ rest = {}
          /\ Call(e, j.kind, j.model)
          /\ step' = [step EXCEPT ![e] = "final"]
          /\ others' = [others EXCEPT ![e] = {}]

Begin(e, kind, m) ==
    /\ Idle(e)
    /\ Installed(e)
    /\ m \in Approved[e]
    /\ issued[e] + LongestJob(e) <= MaxRequests[e]
    /\ Proceed(e, [kind |-> kind, model |-> m], IF kind = "start" THEN Approved[e] \ {m} ELSE {})
    /\ UNCHANGED <<inventory, dockerVars, lock, serveVars, history>>

HearOtherRunning(e) ==
    /\ step[e] = "others"
    /\ answer[e] = "running"
    /\ step' = [step EXCEPT ![e] = "freeing"]
    /\ Call(e, "stop", asked[e].model)
    /\ UNCHANGED <<inventory, dockerVars, lock, job, others, serveVars, history>>

HearOtherStopped(e) ==
    /\ step[e] \in {"others", "freeing"}
    /\ answer[e] = "stopped"
    /\ Proceed(e, job[e], others[e])
    /\ UNCHANGED <<inventory, dockerVars, lock, serveVars, history>>

\* The job is over: its success or failure is recorded by the job queue.
Leave(e) ==
    /\ step' = [step EXCEPT ![e] = "idle"]
    /\ others' = [others EXCEPT ![e] = {}]
    /\ answer' = [answer EXCEPT ![e] = "none"]
    /\ job' = [job EXCEPT ![e] = NoRequest]
    /\ asked' = [asked EXCEPT ![e] = NoRequest]

\* The container runs: wait_until_ready polls its health endpoint.
HearStarted(e) ==
    /\ step[e] = "final"
    /\ job[e].kind = "start"
    /\ answer[e] = "running"
    /\ step' = [step EXCEPT ![e] = "probing"]
    /\ asked' = [asked EXCEPT ![e] = NoRequest]
    /\ answer' = [answer EXCEPT ![e] = "none"]
    /\ UNCHANGED <<inventory, dockerVars, lock, job, others, socketVars, serveVars, history>>

HearStopped(e) ==
    /\ step[e] = "final"
    /\ job[e].kind = "stop"
    /\ answer[e] = "stopped"
    /\ Leave(e)
    /\ stoppedAt' = [stoppedAt EXCEPT ![e][asked[e].model] = asked[e].id]
    /\ UNCHANGED <<inventory, dockerVars, lock, socketVars, serveVars, startedAt, outlived, crashes>>

\* Mutant: a failed look at another model counts as a stopped one.
HearErrorLightly(e) ==
    /\ step[e] \in {"others", "freeing"}
    /\ answer[e] = "error"
    /\ Proceed(e, job[e], others[e])
    /\ UNCHANGED <<inventory, dockerVars, lock, serveVars, history>>

HearError(e) ==
    /\ step[e] \in {"others", "freeing", "final"}
    /\ answer[e] = "error"
    /\ Leave(e)
    /\ UNCHANGED <<inventory, dockerVars, lock, socketVars, serveVars, history>>

\* The 10 seconds of the client are over (or the worker process restarts and
\* fails the interrupted job): nobody waits for the request any more.
GiveUp(e) ==
    /\ step[e] \in {"others", "freeing", "final"}
    /\ answer[e] = "none"
    /\ Leave(e)
    /\ open' = [open EXCEPT ![e] = @ \ {asked[e].id}]
    /\ UNCHANGED <<inventory, dockerVars, lock, issued, backlog, serveVars, history>>

\* The endpoint of the model answers its health check, or the time for the
\* start is over and the job fails with MODEL_READINESS_TIMEOUT.
BecomeReady(e) ==
    /\ step[e] = "probing"
    /\ running[job[e].model]
    /\ Leave(e)
    /\ UNCHANGED <<inventory, dockerVars, lock, socketVars, serveVars, history>>

ReadinessTimeout(e) ==
    /\ step[e] = "probing"
    /\ Leave(e)
    /\ UNCHANGED <<inventory, dockerVars, lock, socketVars, serveVars, history>>

Runner(e) ==
    \/ \E m \in Approved[e], kind \in {"start", "stop"} : Begin(e, kind, m)
    \/ HearOtherRunning(e)
    \/ HearOtherStopped(e)
    \/ HearStarted(e)
    \/ HearStopped(e)
    \/ HearError(e)
    \/ GiveUp(e)
    \/ BecomeReady(e)
    \/ ReadinessTimeout(e)

-----------------------------------------------------------------------------
(* The controller process: serve, handle_request, DockerController *)

\* systemd holds the listening socket and starts the service, which has no
\* Restart=, for a waiting connection.
Activate(e) ==
    /\ ~up[e]
    /\ backlog[e] # <<>>
    /\ Installed(e)
    /\ up' = [up EXCEPT ![e] = TRUE]
    /\ UNCHANGED <<inventory, dockerVars, lock, runnerVars, socketVars, phase, req, left, found, outcome, history>>

\* Mutant: the youngest connection is served first.
AcceptYoungest(e) ==
    /\ up[e]
    /\ phase[e] = "accepting"
    /\ backlog[e] # <<>>
    /\ req' = [req EXCEPT ![e] = backlog[e][Len(backlog[e])]]
    /\ backlog' = [backlog EXCEPT ![e] = SubSeq(@, 1, Len(@) - 1)]
    /\ phase' = [phase EXCEPT ![e] = "read"]
    /\ UNCHANGED <<inventory, dockerVars, lock, runnerVars, issued, open, up, left, found, outcome, history>>

\* One connection at a time, in the order they were made.
Accept(e) ==
    /\ up[e]
    /\ phase[e] = "accepting"
    /\ backlog[e] # <<>>
    /\ req' = [req EXCEPT ![e] = Head(backlog[e])]
    /\ backlog' = [backlog EXCEPT ![e] = Tail(@)]
    /\ phase' = [phase EXCEPT ![e] = "read"]
    /\ UNCHANGED <<inventory, dockerVars, lock, runnerVars, issued, open, up, left, found, outcome, history>>

\* Mutant: a failure leaves the lock held (no finally).
FinishHolding(e, result) ==
    /\ phase' = [phase EXCEPT ![e] = "reply"]
    /\ outcome' = [outcome EXCEPT ![e] = result]
    /\ left' = [left EXCEPT ![e] = {}]
    /\ found' = [found EXCEPT ![e] = {}]
    /\ lock' = IF lock = e /\ result # "error" THEN Free ELSE lock
    /\ UNCHANGED <<up, req>>

\* The handler has its answer; _host_lock releases the lock on every way out.
Finish(e, result) ==
    /\ phase' = [phase EXCEPT ![e] = "reply"]
    /\ outcome' = [outcome EXCEPT ![e] = result]
    /\ left' = [left EXCEPT ![e] = {}]
    /\ found' = [found EXCEPT ![e] = {}]
    /\ lock' = IF lock = e THEN Free ELSE lock
    /\ UNCHANGED <<up, req>>

\* Mutant: the privileged side reports the semantic state.
SemanticState(c) == IF running[c] THEN "ready" ELSE "stopped"

State(c) == IF running[c] THEN "running" ELSE "stopped"

\* status takes no lock.
ReportStatus(e) ==
    /\ phase[e] = "read"
    /\ req[e].action = "status"
    /\ Finish(e, State(req[e].model))
    /\ UNCHANGED <<inventory, dockerVars, runnerVars, socketVars, history>>

\* Before anything is inspected: UNKNOWN_MODEL, MODEL_LOCK_UNAVAILABLE,
\* MODEL_INVENTORY_UNAVAILABLE (the inventory cannot be read, or lacks a
\* configured container), and CONTAINER_UNAVAILABLE for a status.
Unavailable(e) ==
    /\ phase[e] = "read"
    /\ Finish(e, "error")
    /\ UNCHANGED <<inventory, dockerVars, runnerVars, socketVars, history>>

\* Mutant: each environment looks at its own containers.
OwnContainers(e) == IF req[e].action = "start" THEN Approved[e] ELSE {req[e].model}

\* What start and stop inspect: start reads the inventory under the lock
\* (_exclusive_containers), and insists on all that is configured being there.
ToInspect(e) == IF req[e].action = "start" THEN inventory ELSE {req[e].model}

TakeLock(e) ==
    /\ phase[e] = "read"
    /\ req[e].action # "status"
    /\ req[e].model \in Approved[e]
    /\ req[e].action = "start" => Installed(e)
    /\ lock = Free
    /\ lock' = e
    /\ left' = [left EXCEPT ![e] = ToInspect(e)]
    /\ phase' = [phase EXCEPT ![e] = "inspect"]
    /\ UNCHANGED <<inventory, dockerVars, runnerVars, socketVars, up, req, found, outcome, history>>

\* One `docker inspect` after the other.
Inspect(e, c) ==
    /\ phase[e] = "inspect"
    /\ c \in left[e]
    /\ left' = [left EXCEPT ![e] = @ \ {c}]
    /\ found' = [found EXCEPT ![e] = IF running[c] THEN @ \cup {c} ELSE @]
    /\ UNCHANGED <<inventory, dockerVars, lock, runnerVars, socketVars, up, phase, req, outcome, history>>

InspectFails(e) ==
    /\ phase[e] = "inspect"
    /\ left[e] # {}
    /\ Finish(e, "error")
    /\ UNCHANGED <<inventory, dockerVars, runnerVars, socketVars, history>>

Conflict(e) == req[e].action = "start" /\ found[e] \ {req[e].model} # {}
Desired(e) == (req[e].model \in found[e]) = (req[e].action = "start")

\* MODEL_CONFLICT
Refuse(e) ==
    /\ phase[e] = "inspect"
    /\ left[e] = {}
    /\ Conflict(e)
    /\ Finish(e, "error")
    /\ UNCHANGED <<inventory, dockerVars, runnerVars, socketVars, history>>

\* "changed": False
KeepState(e) ==
    /\ phase[e] = "inspect"
    /\ left[e] = {}
    /\ ~Conflict(e)
    /\ Desired(e)
    /\ Finish(e, IF req[e].action = "start" THEN "running" ELSE "stopped")
    /\ UNCHANGED <<inventory, dockerVars, runnerVars, socketVars, history>>

Issue(e) ==
    /\ phase[e] = "inspect"
    /\ left[e] = {}
    /\ ~Conflict(e)
    /\ ~Desired(e)
    /\ phase' = [phase EXCEPT ![e] = "command"]
    /\ UNCHANGED <<inventory, dockerVars, lock, runnerVars, socketVars, up, req, left, found, outcome, history>>

\* What a start or stop command does when Docker executes it.
Effect(r) == [running EXCEPT ![r.model] = (r.action = "start")]

\* Docker executes the command the controller waits for.
Execute(e) ==
    /\ running' = Effect(req[e])
    /\ startedAt' = IF req[e].action = "start"
                    THEN [startedAt EXCEPT ![e][req[e].model] = req[e].id]
                    ELSE startedAt

CommandDone(e) ==
    /\ phase[e] = "command"
    /\ Execute(e)
    /\ Finish(e, IF req[e].action = "start" THEN "running" ELSE "stopped")
    /\ UNCHANGED <<inventory, late, runnerVars, socketVars, stoppedAt, outlived, crashes>>

\* MODEL_START_FAILED, MODEL_STOP_FAILED
CommandFails(e) ==
    /\ phase[e] = "command"
    /\ Finish(e, "error")
    /\ UNCHANGED <<inventory, dockerVars, runnerVars, socketVars, history>>

\* The CLI of the command is killed: dockerd has executed it, never will, or
\* is still at it.
Cut(e) ==
    \/ /\ Execute(e)
       /\ UNCHANGED <<late, outlived>>
    \/ UNCHANGED <<running, late, startedAt, outlived>>
    \/ /\ late' = late \cup {req[e]}
       /\ outlived' = TRUE
       /\ UNCHANGED <<running, startedAt>>

\* DOCKER_TIMEOUT: 60 seconds for a start, the stop timeout and 15 for a stop.
CommandTimesOut(e) ==
    /\ phase[e] = "command"
    /\ Cut(e)
    /\ Finish(e, "error")
    /\ UNCHANGED <<inventory, runnerVars, socketVars, stoppedAt, crashes>>

\* The runner hears the answer if it is the one it waits for.
Hear(e, i, result) ==
    answer' = IF asked[e] # NoRequest /\ asked[e].id = i
              THEN [answer EXCEPT ![e] = result]
              ELSE answer

\* Back to accept, or out of the process.
Close(e) ==
    /\ phase' = [phase EXCEPT ![e] = "accepting"]
    /\ req' = [req EXCEPT ![e] = NoRequest]
    /\ outcome' = [outcome EXCEPT ![e] = "none"]
    /\ left' = [left EXCEPT ![e] = {}]
    /\ found' = [found EXCEPT ![e] = {}]

Reply(e) ==
    /\ phase[e] = "reply"
    /\ req[e].id \in open[e]
    /\ open' = [open EXCEPT ![e] = @ \ {req[e].id}]
    /\ Hear(e, req[e].id, outcome[e])
    /\ Close(e)
    /\ UNCHANGED <<inventory, dockerVars, lock, step, job, others, asked, issued, backlog, up, history>>

\* The client has gone: sendall, outside the try of serve, raises
\* BrokenPipeError, serve returns by it and the process exits.
ReplyToNobody(e) ==
    /\ phase[e] = "reply"
    /\ req[e].id \notin open[e]
    /\ up' = [up EXCEPT ![e] = FALSE]
    /\ Close(e)
    /\ UNCHANGED <<inventory, dockerVars, lock, runnerVars, socketVars, history>>

\* The process is killed; the kernel drops its lock and its connection, whose
\* client reads an end of file and reports an invalid response.
Killed(e) ==
    /\ up[e]
    /\ phase[e] # "accepting"
    /\ crashes < MaxCrashes
    /\ crashes' = crashes + 1
    /\ up' = [up EXCEPT ![e] = FALSE]
    /\ Close(e)
    /\ lock' = IF lock = e THEN Free ELSE lock
    /\ open' = [open EXCEPT ![e] = @ \ {req[e].id}]
    /\ Hear(e, req[e].id, "error")
    /\ IF phase[e] = "command" THEN Cut(e) ELSE UNCHANGED <<running, late, startedAt, outlived>>
    /\ UNCHANGED <<inventory, step, job, others, asked, issued, backlog, stoppedAt>>

Serve(e) ==
    \/ ReportStatus(e)
    \/ \E c \in Containers : Inspect(e, c)
    \/ InspectFails(e)
    \/ Refuse(e)
    \/ KeepState(e)
    \/ Issue(e)
    \/ CommandDone(e)
    \/ CommandFails(e)
    \/ CommandTimesOut(e)
    \/ Reply(e)
    \/ ReplyToNobody(e)

-----------------------------------------------------------------------------
(* Docker and the operator *)

\* A container exits by itself: the model crashes.
Exit(c) ==
    /\ running[c]
    /\ running' = [running EXCEPT ![c] = FALSE]
    /\ UNCHANGED <<inventory, late, lock, runnerVars, socketVars, serveVars, history>>

LateEffect(r) ==
    /\ r \in late
    /\ running' = Effect(r)
    /\ late' = late \ {r}
    /\ UNCHANGED <<inventory, lock, runnerVars, socketVars, serveVars, history>>

\* A further environment is installed: its containers go into the inventory
\* before its socket is enabled, while the other controllers run.
Install(e) ==
    /\ ~Installed(e)
    /\ inventory' = inventory \cup Approved[e]
    /\ UNCHANGED <<dockerVars, lock, runnerVars, socketVars, serveVars, history>>

-----------------------------------------------------------------------------

Init ==
    /\ inventory = {}
    /\ running = [c \in Containers |-> FALSE]
    /\ late = {}
    /\ lock = Free
    /\ step = [e \in Environments |-> "idle"]
    /\ job = [e \in Environments |-> NoRequest]
    /\ others = [e \in Environments |-> {}]
    /\ asked = [e \in Environments |-> NoRequest]
    /\ answer = [e \in Environments |-> "none"]
    /\ issued = [e \in Environments |-> 0]
    /\ backlog = [e \in Environments |-> <<>>]
    /\ open = [e \in Environments |-> {}]
    /\ up = [e \in Environments |-> FALSE]
    /\ phase = [e \in Environments |-> "accepting"]
    /\ req = [e \in Environments |-> NoRequest]
    /\ left = [e \in Environments |-> {}]
    /\ found = [e \in Environments |-> {}]
    /\ outcome = [e \in Environments |-> "none"]
    /\ stoppedAt = [e \in Environments |-> [c \in Containers |-> 0]]
    /\ startedAt = [e \in Environments |-> [c \in Containers |-> 0]]
    /\ outlived = FALSE
    /\ crashes = 0

Next ==
    \/ \E e \in Environments :
        \/ Runner(e)
        \/ Activate(e)
        \/ Accept(e)
        \/ Unavailable(e)
        \/ TakeLock(e)
        \/ Serve(e)
        \/ Killed(e)
        \/ Install(e)
    \/ \E c \in Containers : Exit(c)
    \/ \E r \in late : LateEffect(r)

\* Every wait of the code is bounded by a timeout, systemd activates a socket
\* that has a connection, and the kernel queues the processes that wait for a
\* lock.  A job may be submitted or not.
Fairness ==
    \A e \in Environments :
        /\ WF_vars(HearOtherRunning(e) \/ HearOtherStopped(e) \/ HearStarted(e) \/ HearStopped(e)
                   \/ HearError(e) \/ GiveUp(e) \/ ReadinessTimeout(e))
        /\ WF_vars(Activate(e))
        /\ WF_vars(Accept(e))
        /\ SF_vars(TakeLock(e))
        /\ WF_vars(Serve(e))

Spec == Init /\ [][Next]_vars /\ Fairness

-----------------------------------------------------------------------------

\* Every variable has its type.
TypeOK ==
    /\ inventory \subseteq Containers
    /\ running \in [Containers -> BOOLEAN]
    /\ late \subseteq Requests
    /\ lock \in Environments \cup {Free}
    /\ step \in [Environments -> Steps]
    /\ job \in [Environments -> Jobs \cup {NoRequest}]
    /\ others \in [Environments -> SUBSET Containers]
    /\ asked \in [Environments -> Requests \cup {NoRequest}]
    /\ answer \in [Environments -> Outcomes \cup {"none"}]
    /\ issued \in [Environments -> Nat]
    /\ backlog \in [Environments -> Seq(Requests)]
    /\ open \in [Environments -> SUBSET Nat]
    /\ up \in [Environments -> BOOLEAN]
    /\ phase \in [Environments -> Phases]
    /\ req \in [Environments -> Requests \cup {NoRequest}]
    /\ left \in [Environments -> SUBSET Containers]
    /\ found \in [Environments -> SUBSET Containers]
    /\ outcome \in [Environments -> Outcomes \cup {"none"}]
    /\ stoppedAt \in [Environments -> [Containers -> Nat]]
    /\ startedAt \in [Environments -> [Containers -> Nat]]
    /\ outlived \in BOOLEAN
    /\ crashes \in Nat

AtMostOneRuns == \A c, d \in Containers : running[c] /\ running[d] => c = d

\* Staging and production never occupy the GPU together: at most one model
\* container runs, whatever the controllers, their clients and the operator do,
\* as long as Docker did not go on with a command whose CLI was killed.
OneModelOnGPU == ~outlived => AtMostOneRuns

\* The containers only environment e is configured with.
Alone(e) == {c \in Approved[e] : \A f \in Environments \ {e} : c \notin Approved[f]}

\* When a job has stopped a model that only its environment may start, the
\* model runs again only because of a start asked for after that stop: the
\* starts asked for before (by jobs long reported as failed, whose clients gave
\* up) are served before the stop, as the controller serves its connections in
\* order.  Like OneModelOnGPU it holds as long as Docker did not go on with a
\* command whose CLI was killed: such a start may take effect after the stop.
StopIsFinal ==
    ~outlived =>
        \A e \in Environments : \A c \in Alone(e) :
            running[c] => startedAt[e][c] > stoppedAt[e][c]

\* A switch inside one environment never ends in MODEL_CONFLICT because of a
\* model of its own: a start that was abandoned and took effect afterwards has
\* been seen, and stopped, before the next start is decided.
OwnModelNeverConflicts ==
    \A e \in Environments :
        (phase[e] = "inspect" /\ req[e].action = "start" /\ ~outlived)
            => found[e] \cap Alone(e) \subseteq {req[e].model}

\* Once no further job is submitted, every environment comes to rest: its job
\* ended, and every request it sent was served or lost with the process,
\* however the controllers, Docker and the models fail.  No controller waits
\* for the other's lock for ever, and one that died of an abandoned client is
\* activated again for the requests behind it.
ComesToRest ==
    \A e \in Environments : []<>(Idle(e) /\ phase[e] = "accepting" /\ backlog[e] = <<>>)
=============================================================================
