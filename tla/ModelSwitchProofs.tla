------------------------- MODULE ModelSwitchProofs -------------------------
(***************************************************************************)
(* For any environments, containers and configurations, and any number of  *)
(* requests: the GPU is never shared while no Docker command outlives its  *)
(* CLI; nor does a model that a job stopped then run because of an older   *)
(* request, or a switch find another model of its own environment in its   *)
(* way.                                                                    *)
(***************************************************************************)
EXTENDS ModelSwitch, TLAPS

USE ModelSwitchAssumption, NoRequestAssumption

-----------------------------------------------------------------------------
(* Types, and what the runner and the controller hold in each phase.       *)

Waiting == {"others", "freeing", "final"}

Shape ==
    \A e \in Environments :
        /\ step[e] # "idle" => job[e] \in Jobs
        /\ step[e] \in Waiting <=> asked[e] # NoRequest
        /\ asked[e] = NoRequest => answer[e] = "none"
        /\ phase[e] # "accepting" => req[e] \in Requests
        /\ phase[e] = "reply" => outcome[e] \in Outcomes

Typed == TypeOK /\ Shape

\* A request that is sent is well formed, and so is the queue it joins.
LEMMA SendType ==
    ASSUME Typed, NEW e \in Environments, NEW a \in Actions, NEW m \in Containers, Send(e, a, m)
    PROVE  /\ issued' \in [Environments -> Nat]
           /\ backlog' \in [Environments -> Seq(Requests)]
           /\ open' \in [Environments -> SUBSET Nat]
           /\ Request(issued[e] + 1, a, m) \in Requests
<1>1. Request(issued[e] + 1, a, m) \in Requests
    BY DEF Typed, TypeOK, Request, Requests
<1>2. Append(backlog[e], Request(issued[e] + 1, a, m)) \in Seq(Requests)
    BY <1>1 DEF Typed, TypeOK
<1> QED BY <1>1, <1>2 DEF Typed, TypeOK, Send

LEMMA NoRequestIsNone == NoRequest \notin Requests
    BY DEF Requests, Actions

LEMMA CallType ==
    ASSUME Typed, NEW e \in Environments, NEW a \in Actions, NEW m \in Containers, Call(e, a, m)
    PROVE  /\ issued' \in [Environments -> Nat]
           /\ backlog' \in [Environments -> Seq(Requests)]
           /\ open' \in [Environments -> SUBSET Nat]
           /\ asked' \in [Environments -> Requests \cup {NoRequest}]
           /\ asked'[e] \in Requests \ {NoRequest}
           /\ \A f \in Environments \ {e} : asked'[f] = asked[f] /\ answer'[f] = answer[f]
           /\ answer' \in [Environments -> Outcomes \cup {"none"}]
           /\ answer'[e] = "none"
<1>1. Send(e, a, m)
    BY DEF Call
<1>2. /\ issued' \in [Environments -> Nat]
      /\ backlog' \in [Environments -> Seq(Requests)]
      /\ open' \in [Environments -> SUBSET Nat]
      /\ Request(issued[e] + 1, a, m) \in Requests
    BY <1>1, SendType
<1>3. /\ asked' = [asked EXCEPT ![e] = Request(issued[e] + 1, a, m)]
      /\ answer' = [answer EXCEPT ![e] = "none"]
    BY DEF Call
<1>4. /\ asked \in [Environments -> Requests \cup {NoRequest}]
      /\ answer \in [Environments -> Outcomes \cup {"none"}]
    BY DEF Typed, TypeOK
<1> QED BY <1>2, <1>3, <1>4, NoRequestIsNone

LEMMA ProceedType ==
    ASSUME Typed, NEW e \in Environments, NEW j \in Jobs, NEW rest \in SUBSET Containers, Proceed(e, j, rest)
    PROVE  /\ issued' \in [Environments -> Nat]
           /\ backlog' \in [Environments -> Seq(Requests)]
           /\ open' \in [Environments -> SUBSET Nat]
           /\ asked' \in [Environments -> Requests \cup {NoRequest}]
           /\ asked'[e] \in Requests \ {NoRequest}
           /\ answer' \in [Environments -> Outcomes \cup {"none"}]
           /\ answer'[e] = "none"
           /\ others' \in [Environments -> SUBSET Containers]
           /\ job' \in [Environments -> Jobs \cup {NoRequest}]
           /\ job'[e] = j
           /\ step' \in [Environments -> Steps]
           /\ step'[e] \in Waiting
           /\ \A f \in Environments \ {e} : /\ asked'[f] = asked[f] /\ answer'[f] = answer[f]
                                            /\ step'[f] = step[f] /\ job'[f] = job[f]
<1>1. job' \in [Environments -> Jobs \cup {NoRequest}] /\ job'[e] = j
      /\ \A f \in Environments \ {e} : job'[f] = job[f]
    BY DEF Proceed, Typed, TypeOK
<1>2. CASE \E o \in rest :
            /\ Call(e, "status", o)
            /\ step' = [step EXCEPT ![e] = "others"]
            /\ others' = [others EXCEPT ![e] = rest \ {o}]
    <2>1. PICK o \in rest : /\ Call(e, "status", o)
                            /\ step' = [step EXCEPT ![e] = "others"]
                            /\ others' = [others EXCEPT ![e] = rest \ {o}]
        BY <1>2
    <2>2. "status" \in Actions /\ o \in Containers
        BY DEF Actions
    <2>3. /\ step' \in [Environments -> Steps]
          /\ others' \in [Environments -> SUBSET Containers]
          /\ step'[e] \in Waiting
          /\ \A f \in Environments \ {e} : step'[f] = step[f]
        BY <2>1 DEF Typed, TypeOK, Steps, Waiting
    <2> QED BY <1>1, <2>1, <2>2, <2>3, CallType
<1>3. CASE /\ rest = {}
           /\ Call(e, j.kind, j.model)
           /\ step' = [step EXCEPT ![e] = "final"]
           /\ others' = [others EXCEPT ![e] = {}]
    <2>1. j.kind \in Actions /\ j.model \in Containers
        BY DEF Actions, Jobs
    <2>2. /\ step' \in [Environments -> Steps]
          /\ others' \in [Environments -> SUBSET Containers]
          /\ step'[e] \in Waiting
          /\ \A f \in Environments \ {e} : step'[f] = step[f]
        BY <1>3 DEF Typed, TypeOK, Steps, Waiting
    <2> QED BY <1>1, <1>3, <2>1, <2>2, CallType
<1> QED BY <1>2, <1>3 DEF Proceed

\* An answer is heard by the runner that waits for it or by nobody.
LEMMA HearType ==
    ASSUME Typed, NEW e \in Environments, NEW i, NEW result \in Outcomes, Hear(e, i, result)
    PROVE  /\ answer' \in [Environments -> Outcomes \cup {"none"}]
           /\ \A f \in Environments : asked[f] = NoRequest => answer'[f] = "none"
    BY DEF Typed, TypeOK, Shape, Hear

LEMMA FinishType ==
    ASSUME Typed, NEW e \in Environments, NEW result \in Outcomes, Finish(e, result), phase[e] # "accepting"
    PROVE  /\ phase' \in [Environments -> Phases]
           /\ outcome' \in [Environments -> Outcomes \cup {"none"}]
           /\ left' \in [Environments -> SUBSET Containers]
           /\ found' \in [Environments -> SUBSET Containers]
           /\ lock' \in Environments \cup {Free}
           /\ UNCHANGED <<up, req>>
           /\ \A f \in Environments : phase'[f] # "accepting" => req[f] \in Requests
           /\ \A f \in Environments : phase'[f] = "reply" => outcome'[f] \in Outcomes
    BY DEF Typed, TypeOK, Shape, Finish, Phases

LEMMA CloseType ==
    ASSUME Typed, NEW e \in Environments, Close(e)
    PROVE  /\ phase' \in [Environments -> Phases]
           /\ outcome' \in [Environments -> Outcomes \cup {"none"}]
           /\ left' \in [Environments -> SUBSET Containers]
           /\ found' \in [Environments -> SUBSET Containers]
           /\ req' \in [Environments -> Requests \cup {NoRequest}]
           /\ \A f \in Environments : phase'[f] # "accepting" => req'[f] \in Requests
           /\ \A f \in Environments : phase'[f] = "reply" => outcome'[f] \in Outcomes
    BY DEF Typed, TypeOK, Shape, Close, Phases

\* Leaving a job clears what the runner holds.
LEMMA LeaveType ==
    ASSUME Typed, NEW e \in Environments, Leave(e)
    PROVE  /\ step' \in [Environments -> Steps]
           /\ others' \in [Environments -> SUBSET Containers]
           /\ answer' \in [Environments -> Outcomes \cup {"none"}]
           /\ job' \in [Environments -> Jobs \cup {NoRequest}]
           /\ asked' \in [Environments -> Requests \cup {NoRequest}]
           /\ \A f \in Environments :
                /\ step'[f] # "idle" => job'[f] \in Jobs
                /\ step'[f] \in Waiting <=> asked'[f] # NoRequest
                /\ asked'[f] = NoRequest => answer'[f] = "none"
    BY DEF Typed, TypeOK, Shape, Leave, Steps, Waiting

LEMMA ExecuteType ==
    ASSUME Typed, NEW e \in Environments, req[e] \in Requests, Execute(e)
    PROVE  /\ running' \in [Containers -> BOOLEAN]
           /\ startedAt' \in [Environments -> [Containers -> Nat]]
<1>1. req[e].model \in Containers /\ req[e].id \in Nat
    BY DEF Requests
<1> QED BY <1>1 DEF Typed, TypeOK, Execute, Effect

\* The command that was cut leaves Docker in a state of its type.
LEMMA CutType ==
    ASSUME Typed, NEW e \in Environments, phase[e] # "accepting", Cut(e)
    PROVE  /\ running' \in [Containers -> BOOLEAN] /\ late' \subseteq Requests /\ outlived' \in BOOLEAN
           /\ startedAt' \in [Environments -> [Containers -> Nat]]
<1>1. req[e] \in Requests
    BY DEF Typed, Shape
<1>2. Execute(e) => /\ running' \in [Containers -> BOOLEAN]
                    /\ startedAt' \in [Environments -> [Containers -> Nat]]
    BY <1>1, ExecuteType
<1> QED BY <1>1, <1>2 DEF Typed, TypeOK, Cut

LEMMA RunnerTyped ==
    ASSUME Typed, NEW e \in Environments, Runner(e)
    PROVE  Typed'
<1>1. ASSUME NEW m \in Approved[e], NEW kind \in {"start", "stop"}, Begin(e, kind, m)
      PROVE  Typed'
    <2> DEFINE j == [kind |-> kind, model |-> m]
               rest == IF kind = "start" THEN Approved[e] \ {m} ELSE {}
    <2>1. j \in Jobs /\ rest \in SUBSET Containers
        BY DEF Jobs
    <2>2. Proceed(e, j, rest)
        BY <1>1 DEF Begin
    <2>3. UNCHANGED <<inventory, running, late, lock, up, phase, req, left, found, outcome, stoppedAt, startedAt, outlived, crashes>>
        BY <1>1 DEF Begin, dockerVars, serveVars, history
    <2> HIDE DEF j, rest
    <2>4. /\ issued' \in [Environments -> Nat]
          /\ backlog' \in [Environments -> Seq(Requests)]
          /\ open' \in [Environments -> SUBSET Nat]
          /\ asked' \in [Environments -> Requests \cup {NoRequest}]
          /\ asked'[e] \in Requests \ {NoRequest}
          /\ answer' \in [Environments -> Outcomes \cup {"none"}]
          /\ answer'[e] = "none"
          /\ others' \in [Environments -> SUBSET Containers]
          /\ job' \in [Environments -> Jobs \cup {NoRequest}]
          /\ job'[e] \in Jobs
          /\ step' \in [Environments -> Steps]
          /\ step'[e] \in Waiting
          /\ \A f \in Environments \ {e} : /\ asked'[f] = asked[f] /\ answer'[f] = answer[f]
                                           /\ step'[f] = step[f] /\ job'[f] = job[f]
        BY <2>1, <2>2, ProceedType
    <2> QED BY <2>3, <2>4 DEF Typed, TypeOK, Shape
<1>2. CASE HearOtherRunning(e)
    <2>1. asked[e] \in Requests
        BY <1>2 DEF HearOtherRunning, Typed, TypeOK, Shape, Waiting
    <2>2. asked[e].model \in Containers /\ "stop" \in Actions
        BY <2>1 DEF Requests, Actions
    <2>3. Call(e, "stop", asked[e].model)
        BY <1>2 DEF HearOtherRunning
    <2>4. /\ issued' \in [Environments -> Nat]
          /\ backlog' \in [Environments -> Seq(Requests)]
          /\ open' \in [Environments -> SUBSET Nat]
          /\ asked' \in [Environments -> Requests \cup {NoRequest}]
          /\ asked'[e] \in Requests \ {NoRequest}
          /\ \A f \in Environments \ {e} : asked'[f] = asked[f] /\ answer'[f] = answer[f]
          /\ answer' \in [Environments -> Outcomes \cup {"none"}]
        BY <2>2, <2>3, CallType
    <2>5. UNCHANGED <<inventory, dockerVars, lock, job, others, serveVars, history>>
          /\ step' = [step EXCEPT ![e] = "freeing"]
        BY <1>2 DEF HearOtherRunning
    <2>6. /\ step' \in [Environments -> Steps]
          /\ step'[e] = "freeing" /\ step[e] = "others"
          /\ \A f \in Environments \ {e} : step'[f] = step[f]
        BY <1>2, <2>5 DEF HearOtherRunning, Typed, TypeOK, Steps, Waiting
    <2>7. TypeOK'
        BY <2>4, <2>5, <2>6 DEF Typed, TypeOK, dockerVars, serveVars, history
    <2>8. Shape'
        BY <2>4, <2>5, <2>6 DEF Typed, Shape, Waiting, serveVars
    <2> QED BY <2>7, <2>8 DEF Typed
<1>3. CASE HearOtherStopped(e)
    <2>1. job[e] \in Jobs /\ others[e] \in SUBSET Containers
        BY <1>3 DEF HearOtherStopped, Typed, TypeOK, Shape
    <2>2. Proceed(e, job[e], others[e])
        BY <1>3 DEF HearOtherStopped
    <2>3. UNCHANGED <<inventory, running, late, lock, up, phase, req, left, found, outcome, stoppedAt, startedAt, outlived, crashes>>
        BY <1>3 DEF HearOtherStopped, dockerVars, serveVars, history
    <2>4. /\ issued' \in [Environments -> Nat]
          /\ backlog' \in [Environments -> Seq(Requests)]
          /\ open' \in [Environments -> SUBSET Nat]
          /\ asked' \in [Environments -> Requests \cup {NoRequest}]
          /\ asked'[e] \in Requests \ {NoRequest}
          /\ answer' \in [Environments -> Outcomes \cup {"none"}]
          /\ answer'[e] = "none"
          /\ others' \in [Environments -> SUBSET Containers]
          /\ job' \in [Environments -> Jobs \cup {NoRequest}]
          /\ job'[e] \in Jobs
          /\ step' \in [Environments -> Steps]
          /\ step'[e] \in Waiting
          /\ \A f \in Environments \ {e} : /\ asked'[f] = asked[f] /\ answer'[f] = answer[f]
                                           /\ step'[f] = step[f] /\ job'[f] = job[f]
        BY <2>1, <2>2, ProceedType
    <2> QED BY <2>3, <2>4 DEF Typed, TypeOK, Shape
<1>4. CASE HearStarted(e)
    BY <1>4 DEF HearStarted, Typed, TypeOK, Shape, Steps, Waiting, dockerVars, socketVars, serveVars, history
<1>5. CASE HearStopped(e)
    <2>1. asked[e].id \in Nat
        BY <1>5 DEF HearStopped, Typed, TypeOK, Shape, Waiting, Requests
    <2>2. stoppedAt' \in [Environments -> [Containers -> Nat]]
        BY <1>5, <2>1 DEF HearStopped, Typed, TypeOK
    <2> QED BY <1>5, <2>2, LeaveType DEF HearStopped, Typed, TypeOK, Shape, dockerVars, socketVars, serveVars
<1>6. CASE HearError(e)
    BY <1>6, LeaveType DEF HearError, Typed, TypeOK, Shape, dockerVars, socketVars, serveVars, history
<1>7. CASE GiveUp(e)
    BY <1>7, LeaveType DEF GiveUp, Typed, TypeOK, Shape, dockerVars, serveVars, history
<1>8. CASE BecomeReady(e)
    BY <1>8, LeaveType DEF BecomeReady, Typed, TypeOK, Shape, dockerVars, socketVars, serveVars, history
<1>9. CASE ReadinessTimeout(e)
    BY <1>9, LeaveType DEF ReadinessTimeout, Typed, TypeOK, Shape, dockerVars, socketVars, serveVars, history
<1> QED BY <1>1, <1>2, <1>3, <1>4, <1>5, <1>6, <1>7, <1>8, <1>9 DEF Runner

LEMMA ServeTyped ==
    ASSUME Typed, NEW e \in Environments, Serve(e)
    PROVE  Typed'
<1> USE DEF dockerVars, runnerVars, socketVars, serveVars, history
<1>0. phase[e] # "accepting"
    BY DEF Serve, ReportStatus, Inspect, InspectFails, Refuse, KeepState, Issue,
           CommandDone, CommandFails, CommandTimesOut, Reply, ReplyToNobody
<1>1. CASE ReportStatus(e)
    <2>1. State(req[e].model) \in Outcomes
        BY DEF State, Outcomes
    <2> QED BY <1>0, <1>1, <2>1, FinishType DEF ReportStatus, Typed, TypeOK, Shape
<1>2. CASE InspectFails(e) \/ Refuse(e) \/ CommandFails(e)
    <2>1. "error" \in Outcomes
        BY DEF Outcomes
    <2> QED BY <1>0, <1>2, <2>1, FinishType
            DEF InspectFails, Refuse, CommandFails, Typed, TypeOK, Shape
<1>3. ASSUME NEW c \in Containers, Inspect(e, c)
      PROVE  Typed'
    BY <1>3 DEF Inspect, Typed, TypeOK, Shape
<1>4. CASE KeepState(e)
    <2>1. (IF req[e].action = "start" THEN "running" ELSE "stopped") \in Outcomes
        BY DEF Outcomes
    <2> QED BY <1>0, <1>4, <2>1, FinishType DEF KeepState, Typed, TypeOK, Shape
<1>5. CASE Issue(e)
    BY <1>5 DEF Issue, Typed, TypeOK, Shape, Phases
<1>6. CASE CommandDone(e)
    <2>1. (IF req[e].action = "start" THEN "running" ELSE "stopped") \in Outcomes
        BY DEF Outcomes
    <2>2. running' \in [Containers -> BOOLEAN] /\ startedAt' \in [Environments -> [Containers -> Nat]]
        BY <1>0, <1>6, ExecuteType DEF CommandDone, Typed, Shape
    <2> QED BY <1>0, <1>6, <2>1, <2>2, FinishType DEF CommandDone, Typed, TypeOK, Shape
<1>7. CASE CommandTimesOut(e)
    <2>1. "error" \in Outcomes
        BY DEF Outcomes
    <2> QED BY <1>0, <1>7, <2>1, FinishType, CutType DEF CommandTimesOut, Typed, TypeOK, Shape
<1>8. CASE Reply(e)
    <2>1. outcome[e] \in Outcomes
        BY <1>8 DEF Reply, Typed, Shape
    <2>2. Hear(e, req[e].id, outcome[e]) /\ Close(e)
        BY <1>8 DEF Reply
    <2> QED BY <1>8, <2>1, <2>2, HearType, CloseType DEF Reply, Typed, TypeOK, Shape
<1>9. CASE ReplyToNobody(e)
    BY <1>9, CloseType DEF ReplyToNobody, Typed, TypeOK, Shape
<1> QED BY <1>1, <1>2, <1>3, <1>4, <1>5, <1>6, <1>7, <1>8, <1>9 DEF Serve

LEMMA TypedStep == Typed /\ [Next]_vars => Typed'
<1> SUFFICES ASSUME Typed, [Next]_vars PROVE Typed'
    OBVIOUS
<1> USE DEF dockerVars, runnerVars, socketVars, serveVars, history
<1>1. ASSUME NEW e \in Environments, Runner(e) PROVE Typed'
    BY <1>1, RunnerTyped
<1>4. ASSUME NEW e \in Environments, Activate(e) PROVE Typed'
    BY <1>4 DEF Activate, Typed, TypeOK, Shape
<1>5. ASSUME NEW e \in Environments, Accept(e) PROVE Typed'
    <2>1. backlog[e] \in Seq(Requests) /\ backlog[e] # <<>>
        BY <1>5 DEF Accept, Typed, TypeOK
    <2>2. Head(backlog[e]) \in Requests /\ Tail(backlog[e]) \in Seq(Requests)
        BY <2>1
    <2> QED BY <1>5, <2>2 DEF Accept, Typed, TypeOK, Shape, Phases
<1>6. ASSUME NEW e \in Environments, TakeLock(e) PROVE Typed'
    <2>1. ToInspect(e) \subseteq Containers
        BY <1>6 DEF TakeLock, ToInspect, Typed, TypeOK, Shape, Requests
    <2> QED BY <1>6, <2>1 DEF TakeLock, Typed, TypeOK, Shape, Phases
<1>7. ASSUME NEW e \in Environments, Serve(e) PROVE Typed'
    BY <1>7, ServeTyped
<1>0. ASSUME NEW e \in Environments, Unavailable(e) PROVE Typed'
    <2>1. "error" \in Outcomes
        BY DEF Outcomes
    <2> QED BY <1>0, <2>1, FinishType DEF Unavailable, Typed, TypeOK, Shape
<1>8. ASSUME NEW e \in Environments, Killed(e) PROVE Typed'
    <2>1. Hear(e, req[e].id, "error") /\ Close(e) /\ "error" \in Outcomes
        BY <1>8 DEF Killed, Outcomes
    <2>2. /\ running' \in [Containers -> BOOLEAN] /\ late' \subseteq Requests /\ outlived' \in BOOLEAN
          /\ startedAt' \in [Environments -> [Containers -> Nat]]
        BY <1>8, CutType DEF Killed, Typed, TypeOK
    <2>3. lock' \in Environments \cup {Free}
        BY <1>8 DEF Killed, Typed, TypeOK
    <2>4. phase[e] # "accepting" /\ req[e] \in Requests
        BY <1>8 DEF Killed, Typed, Shape
    <2>5. /\ answer' \in [Environments -> Outcomes \cup {"none"}]
          /\ \A f \in Environments : asked[f] = NoRequest => answer'[f] = "none"
        BY <2>1, HearType
    <2>6. /\ phase' \in [Environments -> Phases]
          /\ outcome' \in [Environments -> Outcomes \cup {"none"}]
          /\ left' \in [Environments -> SUBSET Containers]
          /\ found' \in [Environments -> SUBSET Containers]
          /\ req' \in [Environments -> Requests \cup {NoRequest}]
          /\ \A f \in Environments : phase'[f] # "accepting" => req'[f] \in Requests
          /\ \A f \in Environments : phase'[f] = "reply" => outcome'[f] \in Outcomes
        BY <2>1, CloseType
    <2>7. /\ up' \in [Environments -> BOOLEAN]
          /\ open' \in [Environments -> SUBSET Nat]
          /\ crashes' \in Nat
          /\ UNCHANGED <<inventory, step, job, others, asked, issued, backlog, stoppedAt>>
        BY <1>8 DEF Killed, Typed, TypeOK
    <2>8. TypeOK'
        BY <2>2, <2>3, <2>5, <2>6, <2>7 DEF Typed, TypeOK
    <2>9. Shape'
        BY <2>5, <2>6, <2>7 DEF Typed, Shape
    <2> QED BY <2>8, <2>9 DEF Typed
<1>9. ASSUME NEW e \in Environments, Install(e) PROVE Typed'
    BY <1>9 DEF Install, Typed, TypeOK, Shape
<1>10. ASSUME NEW c \in Containers, Exit(c) PROVE Typed'
    BY <1>10 DEF Exit, Typed, TypeOK, Shape
<1>11. ASSUME NEW r \in late, LateEffect(r) PROVE Typed'
    BY <1>11 DEF LateEffect, Effect, Typed, TypeOK, Shape, Requests
<1>12. CASE UNCHANGED vars
    BY <1>12 DEF vars, Typed, TypeOK, Shape
<1> QED BY <1>0, <1>1, <1>4, <1>5, <1>6, <1>7, <1>8, <1>9, <1>10, <1>11, <1>12 DEF Next

LEMMA TypedInit == Init => Typed
<1>1. Init => TypeOK
    <2>1. Init => /\ inventory \subseteq Containers
                  /\ running \in [Containers -> BOOLEAN]
                  /\ late \subseteq Requests
                  /\ lock \in Environments \cup {Free}
                  /\ crashes \in Nat
        BY DEF Init
    <2>5. Init => /\ stoppedAt \in [Environments -> [Containers -> Nat]]
                  /\ startedAt \in [Environments -> [Containers -> Nat]]
        BY DEF Init
    <2>6. Init => outlived \in BOOLEAN
        BY DEF Init
    <2>2. Init => /\ step \in [Environments -> Steps]
                  /\ job \in [Environments -> Jobs \cup {NoRequest}]
                  /\ others \in [Environments -> SUBSET Containers]
                  /\ asked \in [Environments -> Requests \cup {NoRequest}]
                  /\ answer \in [Environments -> Outcomes \cup {"none"}]
        BY DEF Init, Steps
    <2>3. Init => /\ issued \in [Environments -> Nat]
                  /\ backlog \in [Environments -> Seq(Requests)]
                  /\ open \in [Environments -> SUBSET Nat]
        BY DEF Init
    <2>4. Init => /\ up \in [Environments -> BOOLEAN]
                  /\ phase \in [Environments -> Phases]
                  /\ req \in [Environments -> Requests \cup {NoRequest}]
                  /\ left \in [Environments -> SUBSET Containers]
                  /\ found \in [Environments -> SUBSET Containers]
                  /\ outcome \in [Environments -> Outcomes \cup {"none"}]
        BY DEF Init, Phases
    <2> QED BY <2>1, <2>2, <2>3, <2>4, <2>5, <2>6 DEF TypeOK
<1>2. Init => Shape
    BY DEF Init, Shape, Waiting
<1> QED BY <1>1, <1>2 DEF Typed

LEMMA TypedInvariant == Spec => []Typed
    BY TypedInit, TypedStep, PTL DEF Spec

\* The types of ModelSwitch: TypeOK holds of every behaviour.
THEOREM TypeCorrect == Spec => []TypeOK
<1>1. Typed => TypeOK
    BY DEF Typed
<1> QED BY <1>1, TypedInvariant, PTL

-----------------------------------------------------------------------------
(* The GPU.  Whoever holds the lock has seen, or is going to inspect, every *)
(* container that runs; nobody else starts one meanwhile.                   *)

\* No command outlives its CLI, only inventoried containers run, and the
\* process in its critical section is the holder of the lock.
Guarded ==
    /\ late = {}
    /\ \A c \in Containers : running[c] => c \in inventory
    /\ \A e \in Environments : Critical(e) <=> lock = e
    /\ \A e \in Environments : phase[e] = "read" => left[e] = {} /\ found[e] = {}
    /\ \A e \in Environments : phase[e] = "accepting" => left[e] = {} /\ found[e] = {}

Seen ==
    \A e \in Environments : Critical(e) /\ req[e].action = "start" =>
        /\ req[e].model \in inventory
        /\ \A c \in Containers : running[c] => c \in left[e] \cup found[e]
        /\ phase[e] = "command" => \A c \in Containers : ~running[c]

Exclusive == Typed /\ Guarded /\ Seen /\ AtMostOneRuns

\* The runner, the sockets and the lifetime of the process leave Docker, the
\* lock and the critical sections alone.
LEMMA Elsewhere ==
    ASSUME Exclusive, Typed', UNCHANGED <<inventory, running, late, lock, phase, req, left, found>>
    PROVE  Exclusive'
    BY DEF Exclusive, Guarded, Seen, AtMostOneRuns, Critical

\* Leaving the critical section, with Docker as it was or after a stop.
LEMMA FinishExclusive ==
    ASSUME Exclusive, Typed', NEW e \in Environments, NEW result, Finish(e, result),
           phase[e] \in {"read", "inspect", "command"},
           UNCHANGED inventory, late' = {},
           \A c \in Containers : running'[c] =>
               running[c] \/ (Critical(e) /\ c = req[e].model /\ req[e].action = "start" /\ phase[e] = "command")
    PROVE  Exclusive'
<1> USE DEF Exclusive
<1>0. /\ \A f \in Environments \ {e} : phase'[f] = phase[f] /\ left'[f] = left[f] /\ found'[f] = found[f]
      /\ phase'[e] = "reply" /\ left'[e] = {} /\ found'[e] = {}
      /\ req' = req
    BY DEF Typed, TypeOK, Finish
<1>1. Guarded'
    <2>1. \A c \in Containers : running'[c] => c \in inventory'
        BY DEF Guarded, Seen
    <2>2. \A f \in Environments : Critical(f)' <=> lock' = f
        <3> TAKE f \in Environments
        <3>1. CASE f = e
            BY <1>0, <3>1 DEF Finish, Critical
        <3>2. CASE f # e
            BY <1>0, <3>2 DEF Finish, Critical, Guarded
        <3> QED BY <3>1, <3>2
    <2>3. \A f \in Environments : phase'[f] \in {"read", "accepting"} => left'[f] = {} /\ found'[f] = {}
        <3> TAKE f \in Environments
        <3>1. CASE f = e
            BY <1>0, <3>1 DEF Guarded
        <3>2. CASE f # e
            <4>1. phase'[f] = phase[f] /\ left'[f] = left[f] /\ found'[f] = found[f]
                BY <1>0, <3>2
            <4>2. Guarded
                OBVIOUS
            <4> QED BY <4>1, <4>2 DEF Guarded
        <3> QED BY <3>1, <3>2
    <2> QED BY <2>1, <2>2, <2>3 DEF Guarded
<1>2. Seen'
    <2> SUFFICES ASSUME NEW f \in Environments, Critical(f)', req'[f].action = "start"
                 PROVE  /\ req'[f].model \in inventory'
                        /\ \A c \in Containers : running'[c] => c \in left'[f] \cup found'[f]
                        /\ phase'[f] = "command" => \A c \in Containers : ~running'[c]
        BY DEF Seen
    <2>1. f # e /\ Critical(f)
        BY <1>0 DEF Critical
    <2>2. ~Critical(e)
        BY <2>1 DEF Guarded
    <2> QED BY <1>0, <2>1, <2>2 DEF Seen
<1>3. AtMostOneRuns'
    <2>1. CASE Critical(e) /\ req[e].action = "start" /\ phase[e] = "command"
        <3>1. \A c \in Containers : ~running[c]
            BY <2>1 DEF Seen
        <3>2. \A c \in Containers : running'[c] => c = req[e].model
            BY <3>1
        <3> QED BY <3>2 DEF AtMostOneRuns
    <2>2. CASE ~(Critical(e) /\ req[e].action = "start" /\ phase[e] = "command")
        BY <2>2 DEF AtMostOneRuns
    <2> QED BY <2>1, <2>2
<1> QED BY <1>1, <1>2, <1>3 DEF Exclusive

\* What a command does, whether it is done, fails or is cut.
LEMMA CommandEffect ==
    ASSUME Exclusive, ~outlived', NEW e \in Environments, phase[e] = "command",
           \/ running' = Effect(req[e]) /\ late' = late
           \/ UNCHANGED <<running, late>>
           \/ Cut(e)
    PROVE  /\ late' = {}
           /\ \A c \in Containers : running'[c] =>
                  running[c] \/ (Critical(e) /\ c = req[e].model /\ req[e].action = "start" /\ phase[e] = "command")
<1>1. late' = {}
    BY DEF Cut, Exclusive, Guarded
<1>2. running' = Effect(req[e]) \/ running' = running
    BY DEF Cut, Execute
<1>3. CASE running' = Effect(req[e])
    <2> SUFFICES ASSUME NEW c \in Containers, running'[c], ~running[c]
                 PROVE  c = req[e].model /\ req[e].action = "start"
        BY <1>1 DEF Critical
    <2> QED BY <1>3 DEF Effect, Exclusive, Typed, TypeOK
<1>4. CASE running' = running
    BY <1>1, <1>4
<1> QED BY <1>2, <1>3, <1>4

LEMMA ServeExclusive ==
    ASSUME Exclusive, ~outlived', Typed', NEW e \in Environments, Serve(e) \/ Unavailable(e)
    PROVE  Exclusive'
<1> USE DEF dockerVars
<1>1. CASE Unavailable(e) \/ ReportStatus(e) \/ InspectFails(e) \/ Refuse(e) \/ KeepState(e)
    <2>1. PICK result : Finish(e, result)
        BY <1>1 DEF Unavailable, ReportStatus, InspectFails, Refuse, KeepState
    <2>2. UNCHANGED <<inventory, running, late>> /\ phase[e] \in {"read", "inspect", "command"}
        BY <1>1 DEF Unavailable, ReportStatus, InspectFails, Refuse, KeepState
    <2>3. late' = {} /\ inventory' = inventory
        BY <2>2 DEF Exclusive, Guarded
    <2> QED BY <2>1, <2>2, <2>3, FinishExclusive
<1>2. CASE CommandDone(e) \/ CommandFails(e) \/ CommandTimesOut(e)
    <2>1. PICK result : Finish(e, result)
        BY <1>2 DEF CommandDone, CommandFails, CommandTimesOut
    <2>2. inventory' = inventory /\ phase[e] = "command"
        BY <1>2 DEF CommandDone, CommandFails, CommandTimesOut
    <2>3. (running' = Effect(req[e]) /\ late' = late) \/ UNCHANGED <<running, late>> \/ Cut(e)
        BY <1>2 DEF CommandDone, Execute, CommandFails, CommandTimesOut
    <2> QED BY <2>1, <2>2, <2>3, CommandEffect, FinishExclusive
<1>3. ASSUME NEW c \in Containers, Inspect(e, c) PROVE Exclusive'
    <2>1. /\ UNCHANGED <<inventory, running, late, lock, phase, req>>
          /\ phase[e] = "inspect" /\ c \in left[e]
          /\ left' = [left EXCEPT ![e] = @ \ {c}]
          /\ found' = [found EXCEPT ![e] = IF running[c] THEN @ \cup {c} ELSE @]
        BY <1>3 DEF Inspect
    <2>2. Guarded'
        <3>1. \A f \in Environments \ {e} : left'[f] = left[f] /\ found'[f] = found[f]
            BY <2>1 DEF Exclusive, Typed, TypeOK
        <3>2. phase[e] # "read" /\ phase[e] # "accepting"
            BY <2>1
        <3> QED BY <2>1, <3>1, <3>2 DEF Exclusive, Guarded, Critical
    <2>3. Seen'
        <3> SUFFICES ASSUME NEW f \in Environments, Critical(f)', req'[f].action = "start"
                     PROVE  /\ req'[f].model \in inventory'
                            /\ \A d \in Containers : running'[d] => d \in left'[f] \cup found'[f]
                            /\ phase'[f] = "command" => \A d \in Containers : ~running'[d]
            BY DEF Seen
        <3>1. Critical(f) /\ req[f].action = "start"
            BY <2>1 DEF Critical
        <3>2. CASE f = e
            BY <2>1, <3>1, <3>2 DEF Exclusive, Typed, TypeOK, Seen
        <3>3. CASE f # e
            BY <2>1, <3>1, <3>3 DEF Exclusive, Typed, TypeOK, Seen
        <3> QED BY <3>2, <3>3
    <2> QED BY <2>1, <2>2, <2>3 DEF Exclusive, AtMostOneRuns
<1>4. CASE Issue(e)
    <2>1. /\ UNCHANGED <<inventory, running, late, lock, req, left, found>>
          /\ phase[e] = "inspect" /\ left[e] = {} /\ ~Conflict(e) /\ ~Desired(e)
          /\ phase' = [phase EXCEPT ![e] = "command"]
        BY <1>4 DEF Issue
    <2>2. Guarded'
        BY <2>1 DEF Exclusive, Typed, TypeOK, Guarded, Critical
    <2>3. req[e].action = "start" => found[e] = {}
        BY <2>1 DEF Conflict, Desired
    <2>4. Seen'
        BY <2>1, <2>3 DEF Exclusive, Typed, TypeOK, Seen, Critical
    <2> QED BY <2>1, <2>2, <2>4 DEF Exclusive, AtMostOneRuns
<1>5. CASE Reply(e) \/ ReplyToNobody(e)
    <2>1. /\ UNCHANGED <<inventory, running, late, lock>>
          /\ phase[e] = "reply"
          /\ Close(e)
        BY <1>5 DEF Reply, ReplyToNobody
    <2>2. Guarded'
        BY <2>1 DEF Exclusive, Typed, TypeOK, Guarded, Critical, Close
    <2>3. Seen'
        <3>1. \A f \in Environments \ {e} :
                phase'[f] = phase[f] /\ req'[f] = req[f] /\ left'[f] = left[f] /\ found'[f] = found[f]
            BY <2>1 DEF Close, Exclusive, Typed, TypeOK
        <3>2. ~Critical(e)'
            BY <2>1 DEF Close, Critical, Exclusive, Typed, TypeOK
        <3> QED BY <2>1, <3>1, <3>2 DEF Exclusive, Seen, Critical
    <2> QED BY <2>1, <2>2, <2>3 DEF Exclusive, AtMostOneRuns
<1> QED BY <1>1, <1>2, <1>3, <1>4, <1>5 DEF Serve

LEMMA ExclusiveStep == ~outlived' /\ Exclusive /\ Typed' /\ [Next]_vars => Exclusive'
<1> SUFFICES ASSUME ~outlived', Exclusive, Typed', [Next]_vars PROVE Exclusive'
    OBVIOUS
<1> USE DEF dockerVars, serveVars
<1>1. ASSUME NEW e \in Environments, Runner(e) PROVE Exclusive'
    <2>1. UNCHANGED <<inventory, running, late, lock, phase, req, left, found>>
        BY <1>1 DEF Runner, Begin, HearOtherRunning, HearOtherStopped, HearStarted, HearStopped,
                    HearError, GiveUp, BecomeReady, ReadinessTimeout
    <2> QED BY <2>1, Elsewhere
<1>4. ASSUME NEW e \in Environments, Activate(e) PROVE Exclusive'
    BY <1>4, Elsewhere DEF Activate
<1>5. ASSUME NEW e \in Environments, Accept(e) PROVE Exclusive'
    <2>1. /\ UNCHANGED <<inventory, running, late, lock, left, found>>
          /\ phase[e] = "accepting"
          /\ phase' = [phase EXCEPT ![e] = "read"]
          /\ \A f \in Environments \ {e} : req'[f] = req[f]
        BY <1>5 DEF Accept, Exclusive, Typed, TypeOK
    <2>2. /\ \A f \in Environments \ {e} : phase'[f] = phase[f]
          /\ phase'[e] = "read" /\ ~Critical(e) /\ ~Critical(e)'
        BY <2>1 DEF Exclusive, Typed, TypeOK, Critical
    <2>3. Guarded'
        BY <2>1, <2>2 DEF Exclusive, Guarded, Critical
    <2>4. Seen'
        BY <2>1, <2>2 DEF Exclusive, Seen, Critical
    <2> QED BY <2>1, <2>3, <2>4 DEF Exclusive, AtMostOneRuns
<1>6. ASSUME NEW e \in Environments, TakeLock(e) PROVE Exclusive'
    <2>1. /\ UNCHANGED <<inventory, running, late, req, found>>
          /\ phase[e] = "read" /\ lock = Free /\ lock' = e
          /\ phase' = [phase EXCEPT ![e] = "inspect"]
          /\ left' = [left EXCEPT ![e] = ToInspect(e)]
          /\ req[e].action = "start" => req[e].model \in inventory
        BY <1>6 DEF TakeLock, Installed
    <2>2. Guarded'
        BY <2>1 DEF Exclusive, Typed, TypeOK, Guarded, Critical
    <2>3. \A f \in Environments \ {e} : ~Critical(f)'
        BY <2>1, <2>2 DEF Guarded
    <2>4. Seen'
        <3> SUFFICES ASSUME NEW f \in Environments, Critical(f)', req'[f].action = "start"
                     PROVE  /\ req'[f].model \in inventory'
                            /\ \A c \in Containers : running'[c] => c \in left'[f] \cup found'[f]
                            /\ phase'[f] # "command"
            BY DEF Seen
        <3>1. f = e
            BY <2>3
        <3>2. phase'[e] = "inspect" /\ left'[e] = ToInspect(e)
            BY <2>1 DEF Exclusive, Typed, TypeOK
        <3>3. left'[e] = inventory
            BY <2>1, <3>1, <3>2 DEF ToInspect
        <3> QED BY <2>1, <3>1, <3>2, <3>3 DEF Exclusive, Guarded
    <2> QED BY <2>1, <2>2, <2>4 DEF Exclusive, AtMostOneRuns
<1>7. ASSUME NEW e \in Environments, Serve(e) \/ Unavailable(e) PROVE Exclusive'
    BY <1>7, ServeExclusive
<1>8. ASSUME NEW e \in Environments, Killed(e) PROVE Exclusive'
    <2>1. /\ inventory' = inventory /\ Close(e)
          /\ lock' = IF lock = e THEN Free ELSE lock
          /\ (phase[e] = "command" /\ Cut(e)) \/ UNCHANGED <<running, late>>
        BY <1>8 DEF Killed
    <2>2. /\ late' = {}
          /\ \A c \in Containers : running'[c] =>
                 running[c] \/ (Critical(e) /\ c = req[e].model /\ req[e].action = "start" /\ phase[e] = "command")
        BY <2>1, CommandEffect DEF Exclusive, Guarded
    <2>3. /\ \A f \in Environments \ {e} : phase'[f] = phase[f] /\ left'[f] = left[f] /\ found'[f] = found[f] /\ req'[f] = req[f]
          /\ phase'[e] = "accepting" /\ left'[e] = {} /\ found'[e] = {}
        BY <2>1 DEF Close, Exclusive, Typed, TypeOK
    <2>4. Guarded'
        <3>1. \A c \in Containers : running'[c] => c \in inventory'
            BY <2>1, <2>2 DEF Exclusive, Guarded, Seen
        <3>2. \A f \in Environments : Critical(f)' <=> lock' = f
            <4> TAKE f \in Environments
            <4>1. CASE f = e
                BY <2>1, <2>3, <4>1 DEF Critical
            <4>2. CASE f # e
                BY <2>1, <2>3, <4>2 DEF Critical, Exclusive, Guarded
            <4> QED BY <4>1, <4>2
        <3> QED BY <2>2, <2>3, <3>1, <3>2 DEF Exclusive, Guarded
    <2>5. Seen'
        <3> SUFFICES ASSUME NEW f \in Environments, Critical(f)', req'[f].action = "start"
                     PROVE  /\ req'[f].model \in inventory'
                            /\ \A d \in Containers : running'[d] => d \in left'[f] \cup found'[f]
                            /\ phase'[f] = "command" => \A d \in Containers : ~running'[d]
            BY DEF Seen
        <3>1. f # e /\ Critical(f)
            BY <2>3 DEF Critical
        <3>2. ~Critical(e)
            BY <3>1 DEF Exclusive, Guarded
        <3> QED BY <2>1, <2>2, <2>3, <3>1, <3>2 DEF Exclusive, Seen
    <2>6. AtMostOneRuns'
        <3>1. CASE Critical(e) /\ req[e].action = "start" /\ phase[e] = "command"
            <4>1. \A c \in Containers : ~running[c]
                BY <3>1 DEF Exclusive, Seen
            <4>2. \A c \in Containers : running'[c] => c = req[e].model
                BY <2>2, <4>1
            <4> QED BY <4>2 DEF AtMostOneRuns
        <3>2. CASE ~(Critical(e) /\ req[e].action = "start" /\ phase[e] = "command")
            BY <2>2, <3>2 DEF Exclusive, AtMostOneRuns
        <3> QED BY <3>1, <3>2
    <2> QED BY <2>4, <2>5, <2>6 DEF Exclusive
<1>9. ASSUME NEW e \in Environments, Install(e) PROVE Exclusive'
    <2>1. /\ UNCHANGED <<running, late, lock, phase, req, left, found>>
          /\ inventory \subseteq inventory'
        BY <1>9 DEF Install
    <2> QED BY <2>1 DEF Exclusive, Guarded, Seen, AtMostOneRuns, Critical
<1>10. ASSUME NEW c \in Containers, Exit(c) PROVE Exclusive'
    <2>1. /\ UNCHANGED <<inventory, late, lock, phase, req, left, found>>
          /\ \A d \in Containers : running'[d] => running[d]
        BY <1>10 DEF Exit, Exclusive, Typed, TypeOK
    <2> QED BY <2>1 DEF Exclusive, Guarded, Seen, AtMostOneRuns, Critical
<1>11. ASSUME NEW r \in late, LateEffect(r) PROVE Exclusive'
    BY <1>11 DEF Exclusive, Guarded
<1>12. CASE UNCHANGED vars
    BY <1>12, Elsewhere DEF vars
<1> QED BY <1>1, <1>4, <1>5, <1>6, <1>7, <1>8, <1>9, <1>10, <1>11, <1>12 DEF Next

\* Once a command has outlived its CLI, that is remembered.
LEMMA OutlivedStays == [Next]_vars /\ ~outlived' => ~outlived
<1> SUFFICES ASSUME [Next]_vars, outlived PROVE outlived'
    OBVIOUS
<1> USE DEF history
<1>1. ASSUME NEW e \in Environments, Runner(e) PROVE outlived'
    BY <1>1 DEF Runner, Begin, HearOtherRunning, HearOtherStopped, HearStarted, HearStopped,
                HearError, GiveUp, BecomeReady, ReadinessTimeout
<1>2. ASSUME NEW e \in Environments, Serve(e) PROVE outlived'
    BY <1>2 DEF Serve, ReportStatus, Inspect, InspectFails, Refuse, KeepState, Issue,
                CommandDone, CommandFails, CommandTimesOut, Cut, Reply, ReplyToNobody
<1>3. ASSUME NEW e \in Environments,
             Activate(e) \/ Accept(e) \/ Unavailable(e) \/ TakeLock(e) \/ Killed(e) \/ Install(e)
      PROVE  outlived'
    BY <1>3 DEF Activate, Accept, Unavailable, TakeLock, Killed, Cut, Install
<1>4. ASSUME NEW c \in Containers, Exit(c) PROVE outlived'
    BY <1>4 DEF Exit
<1>5. ASSUME NEW r \in late, LateEffect(r) PROVE outlived'
    BY <1>5 DEF LateEffect
<1>6. CASE UNCHANGED vars
    BY <1>6 DEF vars
<1> QED BY <1>1, <1>2, <1>3, <1>4, <1>5, <1>6 DEF Next

\* OneModelOnGPU for any environments, configurations and numbers of requests:
\* as long as Docker did not go on with a command whose CLI was killed, at most
\* one model container runs.
THEOREM ModelsExclusive == Spec => []OneModelOnGPU
<1> DEFINE Inv == Typed /\ (~outlived => Exclusive)
<1>1. Init => Inv
    <2>1. Init => Guarded /\ Seen /\ AtMostOneRuns
        BY DEF Init, Guarded, Seen, AtMostOneRuns, Critical
    <2> QED BY <2>1, TypedInit DEF Exclusive
<1>2. Inv /\ [Next]_vars => Inv'
    <2> SUFFICES ASSUME Inv, [Next]_vars PROVE Inv'
        OBVIOUS
    <2>1. Typed'
        BY TypedStep
    <2>2. ASSUME ~outlived' PROVE Exclusive'
        BY <2>1, <2>2, OutlivedStays, ExclusiveStep
    <2> QED BY <2>1, <2>2
<1>3. Inv => OneModelOnGPU
    BY DEF Exclusive, OneModelOnGPU
<1> QED BY <1>1, <1>2, <1>3, PTL DEF Spec

-----------------------------------------------------------------------------
(* The order of the requests on one socket.                                 *)

\* Everything still to be served on e's socket was sent after request i.
Served(e, i) ==
    /\ i <= issued[e]
    /\ \A k \in 1..Len(backlog[e]) : i < backlog[e][k].id
    /\ phase[e] # "accepting" => i < req[e].id

\* The queue is in the order of sending, the accepted request precedes it, and
\* what a runner has heard an answer to, or a job has stopped, is served.
OrderedAt(e) ==
    /\ \A k \in 1..Len(backlog[e]) : backlog[e][k].id <= issued[e]
    /\ \A j, k \in 1..Len(backlog[e]) : j < k => backlog[e][j].id < backlog[e][k].id
    /\ phase[e] # "accepting" =>
          /\ req[e].id <= issued[e]
          /\ \A k \in 1..Len(backlog[e]) : req[e].id < backlog[e][k].id
    /\ asked[e] # NoRequest =>
          /\ asked[e].id <= issued[e]
          /\ answer[e] # "none" => Served(e, asked[e].id)
    /\ \A c \in Containers : Served(e, stoppedAt[e][c])

Ordered == \A e \in Environments : OrderedAt(e)

\* A step that leaves the queue, the request being served and what was heard
\* and stopped alone leaves the order alone.
LEMMA SameOrder ==
    ASSUME NEW e \in Environments, OrderedAt(e),
           issued'[e] = issued[e], backlog'[e] = backlog[e], req'[e] = req[e],
           phase'[e] # "accepting" => phase[e] # "accepting",
           asked'[e] # NoRequest => asked'[e] = asked[e] /\ (answer'[e] # "none" => answer[e] # "none"),
           stoppedAt'[e] = stoppedAt[e]
    PROVE  OrderedAt(e)'
    BY DEF OrderedAt, Served

\* A request sent now is the youngest.
LEMMA SendOrder ==
    ASSUME Typed, Ordered, NEW e \in Environments, NEW a \in Actions, NEW m \in Containers, Send(e, a, m),
           UNCHANGED <<phase, req, stoppedAt>>,
           \A f \in Environments \ {e} : asked'[f] = asked[f] /\ answer'[f] = answer[f],
           \/ asked'[e] = asked[e] /\ answer'[e] = answer[e]
           \/ asked'[e] = NoRequest
           \/ asked'[e] = Request(issued[e] + 1, a, m) /\ answer'[e] = "none"
    PROVE  Ordered'
<1> DEFINE i == issued[e] + 1
           r == Request(i, a, m)
<1>1. /\ issued[e] \in Nat /\ issued'[e] = i
      /\ backlog[e] \in Seq(Requests) /\ r \in Requests
      /\ backlog'[e] = Append(backlog[e], r)
      /\ r.id = i
    BY SendType DEF Send, Typed, TypeOK, Request
<1>2. /\ Len(backlog'[e]) = Len(backlog[e]) + 1
      /\ \A k \in 1..Len(backlog[e]) : backlog'[e][k] = backlog[e][k]
      /\ backlog'[e][Len(backlog[e]) + 1] = r
      /\ Len(backlog[e]) \in Nat
    BY <1>1
<1>3. \A k \in 1..Len(backlog[e]) : backlog[e][k].id \in Nat /\ backlog[e][k].id <= issued[e]
    <2>1. \A k \in 1..Len(backlog[e]) : backlog[e][k] \in Requests
        BY <1>1
    <2>2. \A k \in 1..Len(backlog[e]) : backlog[e][k].id <= issued[e]
        BY DEF Ordered, OrderedAt
    <2> QED BY <2>1, <2>2 DEF Requests
<1>4. phase[e] # "accepting" => req[e].id \in Nat
    BY DEF Typed, Shape, Requests
<1>5. ASSUME NEW n \in Nat, Served(e, n) PROVE Served(e, n)'
    <2>1. n <= issued'[e]
        BY <1>1, <1>5 DEF Served
    <2>2. \A k \in 1..Len(backlog'[e]) : n < backlog'[e][k].id
        <3> TAKE k \in 1..Len(backlog'[e])
        <3>1. CASE k \in 1..Len(backlog[e])
            BY <1>2, <1>5, <3>1 DEF Served
        <3>2. CASE k = Len(backlog[e]) + 1
            BY <1>1, <1>2, <1>5, <3>2 DEF Served
        <3> QED BY <1>2, <3>1, <3>2
    <2> QED BY <1>5, <2>1, <2>2 DEF Served
<1>6. OrderedAt(e)'
    <2>1. \A k \in 1..Len(backlog'[e]) : backlog'[e][k].id <= issued'[e]
        BY <1>1, <1>2, <1>3
    <2>2. \A j, k \in 1..Len(backlog'[e]) : j < k => backlog'[e][j].id < backlog'[e][k].id
        BY <1>1, <1>2, <1>3 DEF Ordered, OrderedAt
    <2>3. phase'[e] # "accepting" =>
              /\ req'[e].id <= issued'[e]
              /\ \A k \in 1..Len(backlog'[e]) : req'[e].id < backlog'[e][k].id
        BY <1>1, <1>2, <1>3, <1>4 DEF Ordered, OrderedAt
    <2>4. (asked[e] # NoRequest =>
              /\ asked[e].id <= issued[e]
              /\ answer[e] # "none" => Served(e, asked[e].id))'
        <3>1. CASE asked'[e] = asked[e] /\ answer'[e] = answer[e] /\ asked[e] # NoRequest
            <4>1. asked[e].id \in Nat
                BY <3>1 DEF Typed, TypeOK, Requests
            <4>2. asked[e].id <= issued'[e]
                BY <1>1, <3>1, <4>1 DEF Ordered, OrderedAt
            <4>3. CASE answer[e] # "none"
                <5>1. Served(e, asked[e].id)
                    BY <3>1, <4>3 DEF Ordered, OrderedAt
                <5> QED BY <1>5, <3>1, <4>1, <4>2, <5>1 DEF Served
            <4> QED BY <3>1, <4>2, <4>3
        <3>2. CASE asked'[e] = r /\ answer'[e] = "none"
            BY <1>1, <3>2
        <3> QED BY <3>1, <3>2
    <2>5. (\A c \in Containers : Served(e, stoppedAt[e][c]))'
        <3> SUFFICES ASSUME NEW c \in Containers PROVE Served(e, stoppedAt[e][c])'
            OBVIOUS
        <3>1. stoppedAt[e][c] \in Nat /\ Served(e, stoppedAt[e][c]) /\ stoppedAt' = stoppedAt
            BY DEF Ordered, OrderedAt, Typed, TypeOK
        <3> QED BY <1>5, <3>1 DEF Served
    <2> QED BY <2>1, <2>2, <2>3, <2>4, <2>5 DEF OrderedAt
<1>7. ASSUME NEW f \in Environments \ {e} PROVE OrderedAt(f)'
    <2>1. issued'[f] = issued[f] /\ backlog'[f] = backlog[f]
        BY DEF Send, Typed, TypeOK
    <2> QED BY <2>1, SameOrder DEF Ordered
<1> QED BY <1>6, <1>7 DEF Ordered

\* Accepting takes the oldest request: what was served before stays served.
LEMMA AcceptOrder ==
    ASSUME Typed, Ordered, NEW e \in Environments, Accept(e)
    PROVE  Ordered'
<1>1. /\ backlog[e] \in Seq(Requests) /\ backlog[e] # <<>>
      /\ backlog'[e] = Tail(backlog[e]) /\ req'[e] = Head(backlog[e])
      /\ phase[e] = "accepting" /\ phase'[e] = "read"
      /\ UNCHANGED <<issued, asked, answer, stoppedAt>>
    BY DEF Accept, Typed, TypeOK, runnerVars, history
<1>2. /\ Len(backlog[e]) \in Nat \ {0}
      /\ Len(backlog'[e]) = Len(backlog[e]) - 1
      /\ \A k \in 1..Len(backlog'[e]) : backlog'[e][k] = backlog[e][k + 1]
      /\ req'[e] = backlog[e][1]
    BY <1>1
<1>3. \A k \in 1..Len(backlog'[e]) : k + 1 \in 1..Len(backlog[e]) /\ 1 < k + 1
    BY <1>2
<1>4. 1 \in 1..Len(backlog[e])
    BY <1>2
<1>5. ASSUME NEW n \in Nat, Served(e, n) PROVE Served(e, n)'
    BY <1>1, <1>2, <1>3, <1>4, <1>5 DEF Served
<1>6. OrderedAt(e)'
    <2>1. (\A k \in 1..Len(backlog[e]) : backlog[e][k].id <= issued[e])'
        BY <1>1, <1>2, <1>3 DEF Ordered, OrderedAt
    <2>2. (\A j, k \in 1..Len(backlog[e]) : j < k => backlog[e][j].id < backlog[e][k].id)'
        <3> SUFFICES ASSUME NEW j \in 1..Len(backlog'[e]), NEW k \in 1..Len(backlog'[e]), j < k
                     PROVE  backlog'[e][j].id < backlog'[e][k].id
            OBVIOUS
        <3>1. j + 1 < k + 1
            BY <1>2
        <3> QED BY <1>2, <1>3, <3>1 DEF Ordered, OrderedAt
    <2>3. req'[e].id <= issued'[e] /\ \A k \in 1..Len(backlog'[e]) : req'[e].id < backlog'[e][k].id
        BY <1>1, <1>2, <1>3, <1>4 DEF Ordered, OrderedAt
    <2>4. (asked[e] # NoRequest =>
              /\ asked[e].id <= issued[e]
              /\ answer[e] # "none" => Served(e, asked[e].id))'
        <3> SUFFICES ASSUME asked[e] # NoRequest
                     PROVE  /\ asked[e].id <= issued[e]
                            /\ answer[e] # "none" => Served(e, asked[e].id)'
            BY <1>1 DEF Served
        <3>1. asked[e].id \in Nat
            BY <1>1 DEF Typed, TypeOK, Requests
        <3>2. asked[e].id <= issued[e]
            BY <1>1 DEF Ordered, OrderedAt
        <3>3. CASE answer[e] # "none"
            <4>1. Served(e, asked[e].id)
                BY <1>1, <3>3 DEF Ordered, OrderedAt
            <4> QED BY <1>1, <1>5, <3>1, <3>2, <4>1 DEF Served
        <3> QED BY <3>2, <3>3
    <2>5. (\A c \in Containers : Served(e, stoppedAt[e][c]))'
        <3> SUFFICES ASSUME NEW c \in Containers PROVE Served(e, stoppedAt[e][c])'
            OBVIOUS
        <3>1. stoppedAt[e][c] \in Nat /\ Served(e, stoppedAt[e][c]) /\ stoppedAt' = stoppedAt
            BY <1>1 DEF Ordered, OrderedAt, Typed, TypeOK
        <3> QED BY <1>5, <3>1 DEF Served
    <2> QED BY <2>1, <2>2, <2>3, <2>4, <2>5 DEF OrderedAt
<1>7. ASSUME NEW f \in Environments \ {e} PROVE OrderedAt(f)'
    <2>1. /\ issued'[f] = issued[f] /\ backlog'[f] = backlog[f] /\ req'[f] = req[f]
          /\ phase'[f] = phase[f]
        BY DEF Accept, Typed, TypeOK
    <2> QED BY <1>1, <2>1, SameOrder DEF Ordered
<1> QED BY <1>6, <1>7 DEF Ordered

\* An answer is heard when its request has been served: all that waits on the
\* socket is younger.
LEMMA CloseOrder ==
    ASSUME Typed, Ordered, NEW e \in Environments, NEW result \in Outcomes,
           phase[e] # "accepting", Close(e),
           Hear(e, req[e].id, result) \/ UNCHANGED answer,
           UNCHANGED <<issued, backlog, asked, stoppedAt>>
    PROVE  Ordered'
<1>1. /\ phase'[e] = "accepting"
      /\ \A f \in Environments \ {e} : phase'[f] = phase[f] /\ req'[f] = req[f]
      /\ \A f \in Environments \ {e} : answer'[f] = answer[f]
    BY DEF Close, Hear, Typed, TypeOK
<1>2. \A n : Served(e, n) => Served(e, n)'
    BY <1>1 DEF Served
<1>3. OrderedAt(e)'
    <2>1. (asked[e] # NoRequest =>
              /\ asked[e].id <= issued[e]
              /\ answer[e] # "none" => Served(e, asked[e].id))'
        <3> SUFFICES ASSUME asked[e] # NoRequest, answer'[e] # "none"
                     PROVE  Served(e, asked[e].id)'
            BY DEF Ordered, OrderedAt, Served
        <3>1. CASE answer'[e] = answer[e]
            BY <1>2, <3>1 DEF Ordered, OrderedAt
        <3>2. CASE asked[e].id = req[e].id
            BY <1>1, <3>2 DEF Ordered, OrderedAt, Served
        <3> QED BY <3>1, <3>2 DEF Hear
    <2>2. (\A c \in Containers : Served(e, stoppedAt[e][c]))'
        BY <1>2 DEF Ordered, OrderedAt, Served
    <2> QED BY <1>1, <2>1, <2>2 DEF Ordered, OrderedAt
<1>4. ASSUME NEW f \in Environments \ {e} PROVE OrderedAt(f)'
    BY <1>1, SameOrder DEF Ordered
<1> QED BY <1>3, <1>4 DEF Ordered

LEMMA CallOrder ==
    ASSUME Typed, Ordered, NEW e \in Environments, NEW a \in Actions, NEW m \in Containers, Call(e, a, m),
           UNCHANGED <<phase, req, stoppedAt>>
    PROVE  Ordered'
<1>1. Send(e, a, m)
    BY DEF Call
<1>2. /\ \A f \in Environments \ {e} : asked'[f] = asked[f] /\ answer'[f] = answer[f]
      /\ asked'[e] = Request(issued[e] + 1, a, m) /\ answer'[e] = "none"
    BY DEF Call, Typed, TypeOK
<1> QED BY <1>1, <1>2, SendOrder

LEMMA ProceedOrder ==
    ASSUME Typed, Ordered, NEW e \in Environments, NEW j \in Jobs, NEW rest \in SUBSET Containers, Proceed(e, j, rest),
           UNCHANGED <<phase, req, stoppedAt>>
    PROVE  Ordered'
<1>1. CASE \E o \in rest : Call(e, "status", o)
    <2>1. "status" \in Actions
        BY DEF Actions
    <2> QED BY <1>1, <2>1, CallOrder
<1>2. CASE Call(e, j.kind, j.model)
    <2>1. j.kind \in Actions /\ j.model \in Containers
        BY DEF Actions, Jobs
    <2> QED BY <1>2, <2>1, CallOrder
<1> QED BY <1>1, <1>2 DEF Proceed

LEMMA RunnerOrder ==
    ASSUME Typed, Ordered, NEW e \in Environments, Runner(e)
    PROVE  Ordered'
<1> USE DEF serveVars, socketVars, history
<1>1. ASSUME NEW m \in Approved[e], NEW kind \in {"start", "stop"}, Begin(e, kind, m)
      PROVE  Ordered'
    <2> DEFINE j == [kind |-> kind, model |-> m]
               rest == IF kind = "start" THEN Approved[e] \ {m} ELSE {}
    <2>1. j \in Jobs /\ rest \in SUBSET Containers
        BY DEF Jobs
    <2>2. Proceed(e, j, rest) /\ UNCHANGED <<phase, req, stoppedAt>>
        BY <1>1 DEF Begin
    <2> HIDE DEF j, rest
    <2> QED BY <2>1, <2>2, ProceedOrder
<1>2. CASE HearOtherRunning(e)
    <2>1. asked[e].model \in Containers /\ "stop" \in Actions
        BY <1>2 DEF HearOtherRunning, Typed, TypeOK, Shape, Waiting, Requests, Actions
    <2> QED BY <1>2, <2>1, CallOrder DEF HearOtherRunning
<1>3. CASE HearOtherStopped(e)
    <2>1. job[e] \in Jobs /\ others[e] \in SUBSET Containers
        BY <1>3 DEF HearOtherStopped, Typed, TypeOK, Shape
    <2> QED BY <1>3, <2>1, ProceedOrder DEF HearOtherStopped
<1>4. CASE HearStarted(e) \/ HearError(e) \/ GiveUp(e) \/ BecomeReady(e) \/ ReadinessTimeout(e)
    <2>1. /\ UNCHANGED <<issued, backlog, phase, req, stoppedAt>>
          /\ asked'[e] = NoRequest
          /\ \A f \in Environments \ {e} : asked'[f] = asked[f] /\ answer'[f] = answer[f]
        BY <1>4 DEF HearStarted, HearError, GiveUp, BecomeReady, ReadinessTimeout, Leave, Typed, TypeOK
    <2>2. \A f \in Environments : OrderedAt(f)'
        BY <2>1, SameOrder DEF Ordered
    <2> QED BY <2>2 DEF Ordered
<1>5. CASE HearStopped(e)
    <2>1. /\ UNCHANGED <<issued, backlog, phase, req>>
          /\ asked'[e] = NoRequest
          /\ \A f \in Environments \ {e} : asked'[f] = asked[f] /\ answer'[f] = answer[f] /\ stoppedAt'[f] = stoppedAt[f]
          /\ \A c \in Containers : stoppedAt'[e][c] \in {stoppedAt[e][c], asked[e].id}
          /\ answer[e] = "stopped"
        BY <1>5 DEF HearStopped, Leave, Typed, TypeOK
    <2>2. asked[e] # NoRequest
        BY <1>5 DEF HearStopped, Typed, Shape, Waiting
    <2>3. Served(e, asked[e].id)
        BY <2>1, <2>2 DEF Ordered, OrderedAt
    <2>4. (\A c \in Containers : Served(e, stoppedAt[e][c]))'
        <3> SUFFICES ASSUME NEW c \in Containers PROVE Served(e, stoppedAt[e][c])'
            OBVIOUS
        <3>1. CASE stoppedAt'[e][c] = asked[e].id
            BY <2>1, <2>3, <3>1 DEF Served
        <3>2. CASE stoppedAt'[e][c] = stoppedAt[e][c]
            BY <2>1, <3>2 DEF Served, Ordered, OrderedAt
        <3> QED BY <2>1, <3>1, <3>2
    <2>5. OrderedAt(e)'
        BY <2>1, <2>4 DEF Ordered, OrderedAt
    <2>6. ASSUME NEW f \in Environments \ {e} PROVE OrderedAt(f)'
        BY <2>1, SameOrder DEF Ordered
    <2> QED BY <2>5, <2>6 DEF Ordered
<1> QED BY <1>1, <1>2, <1>3, <1>4, <1>5 DEF Runner

LEMMA OrderedStep == Typed /\ Ordered /\ [Next]_vars => Ordered'
<1> SUFFICES ASSUME Typed, Ordered, [Next]_vars PROVE Ordered'
    OBVIOUS
<1> USE DEF dockerVars, runnerVars, socketVars, serveVars, history
<1>0. ASSUME UNCHANGED <<issued, backlog, req, asked, answer, stoppedAt>>,
             \A f \in Environments : phase'[f] # "accepting" => phase[f] # "accepting"
      PROVE  Ordered'
    <2>1. \A f \in Environments : OrderedAt(f)'
        BY <1>0, SameOrder DEF Ordered
    <2> QED BY <2>1 DEF Ordered
<1>1. ASSUME NEW e \in Environments, Runner(e) PROVE Ordered'
    BY <1>1, RunnerOrder
<1>3. ASSUME NEW e \in Environments, Accept(e) PROVE Ordered'
    BY <1>3, AcceptOrder
<1>4. ASSUME NEW e \in Environments, Unavailable(e) \/ TakeLock(e) \/ ReportStatus(e) \/ InspectFails(e)
                \/ Refuse(e) \/ KeepState(e) \/ Issue(e) \/ CommandDone(e) \/ CommandFails(e) \/ CommandTimesOut(e)
      PROVE  Ordered'
    <2>1. phase[e] # "accepting" /\ \A f \in Environments \ {e} : phase'[f] = phase[f]
        BY <1>4 DEF Unavailable, TakeLock, ReportStatus, InspectFails, Refuse, KeepState, Issue,
                    CommandDone, CommandFails, CommandTimesOut, Finish, Typed, TypeOK
    <2>2. UNCHANGED <<issued, backlog, req, asked, answer, stoppedAt>>
        BY <1>4 DEF Unavailable, TakeLock, ReportStatus, InspectFails, Refuse, KeepState, Issue,
                    CommandDone, CommandFails, CommandTimesOut, Finish
    <2> QED BY <1>0, <2>1, <2>2
<1>5. ASSUME NEW e \in Environments, NEW c \in Containers, Inspect(e, c) PROVE Ordered'
    BY <1>0, <1>5 DEF Inspect
<1>6. ASSUME NEW e \in Environments, Reply(e) PROVE Ordered'
    <2>1. outcome[e] \in Outcomes /\ phase[e] # "accepting"
        BY <1>6 DEF Reply, Typed, Shape
    <2> QED BY <1>6, <2>1, CloseOrder DEF Reply
<1>7. ASSUME NEW e \in Environments, ReplyToNobody(e) PROVE Ordered'
    <2>1. "error" \in Outcomes /\ phase[e] # "accepting"
        BY <1>7 DEF ReplyToNobody, Outcomes
    <2> QED BY <1>7, <2>1, CloseOrder DEF ReplyToNobody
<1>8. ASSUME NEW e \in Environments, Killed(e) PROVE Ordered'
    <2>1. "error" \in Outcomes /\ phase[e] # "accepting"
        BY <1>8 DEF Killed, Outcomes
    <2> QED BY <1>8, <2>1, CloseOrder DEF Killed
<1>10. ASSUME NEW e \in Environments, Activate(e) \/ Install(e) PROVE Ordered'
    BY <1>0, <1>10 DEF Activate, Install
<1>11. ASSUME NEW c \in Containers, Exit(c) PROVE Ordered'
    BY <1>0, <1>11 DEF Exit
<1>12. ASSUME NEW r \in late, LateEffect(r) PROVE Ordered'
    BY <1>0, <1>12 DEF LateEffect
<1>13. CASE UNCHANGED vars
    BY <1>0, <1>13 DEF vars
<1> QED BY <1>1, <1>3, <1>4, <1>5, <1>6, <1>7, <1>8, <1>10, <1>11, <1>12, <1>13 DEF Next, Serve

LEMMA OrderedInvariant == Spec => []Ordered
<1>1. Init => Ordered
    BY DEF Init, Ordered, OrderedAt, Served
<1> QED BY <1>1, OrderedStep, TypedInvariant, PTL DEF Spec

-----------------------------------------------------------------------------
(* A model of one's own.  A switch sends its start when everything it sent  *)
(* before is served and every other model was seen stopped; what only one   *)
(* environment can start stays stopped until that start is served.          *)

\* The requests that may still have an effect, and the starts among them.
Pending(e) ==
    {backlog[e][k] : k \in 1..Len(backlog[e])}
        \cup (IF phase[e] \in {"read", "inspect", "command"} THEN {req[e]} ELSE {})
Starts(e) == {r \in Pending(e) : r.action = "start"}

\* Only configured models are asked for, and the number of a request names it.
Configured(e) ==
    /\ \A r \in Pending(e) : r.model \in Approved[e]
    /\ step[e] # "idle" => job[e].model \in Approved[e] /\ others[e] \subseteq Approved[e]
    /\ asked[e] # NoRequest =>
          /\ asked[e].model \in Approved[e]
          /\ asked[e].id = issued[e]
          /\ \A r \in Pending(e) : r.id = asked[e].id => r = asked[e]
          /\ phase[e] = "reply" /\ req[e].id = asked[e].id => req[e] = asked[e]

\* The starts that wait are of one model, and no other of the environment's own
\* runs.
OneStart(e) ==
    /\ \A r, s \in Starts(e) : r.model = s.model
    /\ \A r \in Starts(e), c \in Alone(e) : running[c] => c = r.model

\* What the controller knows of a model of its own.
Known(e) ==
    /\ Critical(e) /\ req[e].model \in Alone(e) /\ running[req[e].model]
          => req[e].model \in left[e] \cup found[e]
    /\ phase[e] = "inspect" /\ req[e].action = "start"
          => \A c \in found[e] \cap Alone(e) : c = req[e].model
    /\ phase[e] = "reply" /\ outcome[e] = "stopped" /\ req[e].model \in Alone(e)
          => ~running[req[e].model]

\* A model of its own that the switch is done with is stopped, and nothing waits
\* that would start it; one that the runner hears is stopped, is.
Freed(e) ==
    /\ step[e] \in {"others", "freeing"} =>
          /\ job[e].kind = "start"
          /\ \A c \in Alone(e) \ ({job[e].model, asked[e].model} \cup others[e]) :
                ~running[c] /\ \A r \in Starts(e) : r.model # c
    /\ answer[e] = "stopped" /\ asked[e].model \in Alone(e) => ~running[asked[e].model]

OwnAt(e) == Configured(e) /\ OneStart(e) /\ Known(e) /\ Freed(e)

LEMMA PendingType ==
    ASSUME Typed, NEW e \in Environments
    PROVE  Pending(e) \subseteq Requests /\ Starts(e) \subseteq Requests
<1>1. backlog[e] \in Seq(Requests) /\ (phase[e] # "accepting" => req[e] \in Requests)
    BY DEF Typed, TypeOK, Shape
<1>2. \A k \in 1..Len(backlog[e]) : backlog[e][k] \in Requests
    BY <1>1
<1> QED BY <1>1, <1>2 DEF Pending, Starts

\* No request has a number that was not given yet.
LEMMA PendingIssued ==
    ASSUME Typed, Ordered, NEW e \in Environments
    PROVE  \A r \in Pending(e) : r.id <= issued[e]
<1>1. OrderedAt(e)
    BY DEF Ordered
<1> QED BY <1>1 DEF OrderedAt, Pending

\* A runner that has heard an answer finds the controller idle.
LEMMA Answered ==
    ASSUME Typed, Ordered, NEW e \in Environments, Configured(e), asked[e] # NoRequest, answer[e] # "none"
    PROVE  phase[e] = "accepting" /\ Pending(e) = {}
<1>1. OrderedAt(e) /\ Served(e, asked[e].id) /\ asked[e].id = issued[e]
    BY DEF Ordered, OrderedAt, Configured
<1>2. issued[e] \in Nat /\ backlog[e] \in Seq(Requests) /\ (phase[e] # "accepting" => req[e] \in Requests)
    BY DEF Typed, TypeOK, Shape
<1>3. \A k \in 1..Len(backlog[e]) : backlog[e][k].id \in Nat
    <2>1. \A k \in 1..Len(backlog[e]) : backlog[e][k] \in Requests
        BY <1>2
    <2> QED BY <2>1 DEF Requests
<1>4. ~\E k \in 1..Len(backlog[e]) : TRUE
    BY <1>1, <1>2, <1>3 DEF OrderedAt, Served
<1>5. phase[e] = "accepting"
    BY <1>1, <1>2 DEF OrderedAt, Served, Requests
<1> QED BY <1>4, <1>5 DEF Pending

\* A step of e leaves what belongs to f alone.
Untouched(f) ==
    /\ step'[f] = step[f] /\ job'[f] = job[f] /\ others'[f] = others[f] /\ asked'[f] = asked[f]
    /\ answer'[f] = answer[f] /\ issued'[f] = issued[f] /\ backlog'[f] = backlog[f]
    /\ phase'[f] = phase[f] /\ req'[f] = req[f] /\ left'[f] = left[f] /\ found'[f] = found[f]
    /\ outcome'[f] = outcome[f]

\* What an environment does is no matter to another, unless it starts a model
\* that the other has for itself.
LEMMA OwnElsewhere ==
    ASSUME NEW f \in Environments, OwnAt(f), Untouched(f),
           \A c \in Alone(f) : running'[c] => running[c]
    PROVE  OwnAt(f)'
<1> USE DEF Untouched
<1>1. Pending(f)' = Pending(f)
    BY DEF Pending
<1>2. Starts(f)' = Starts(f) /\ Alone(f)' = Alone(f)
    BY <1>1 DEF Starts, Alone
<1>3. Configured(f)'
    BY <1>1 DEF OwnAt, Configured
<1>4. OneStart(f)'
    BY <1>2 DEF OwnAt, OneStart
<1>5. Known(f)'
    BY <1>2 DEF OwnAt, Known, Critical
<1>6. Freed(f)'
    BY <1>2 DEF OwnAt, Freed
<1> QED BY <1>3, <1>4, <1>5, <1>6 DEF OwnAt

\* The controller of e takes its requests on; of the containers of e's own only
\* one that a waiting start names may start.
LEMMA FewerPending ==
    ASSUME Typed, Ordered, NEW e \in Environments, OwnAt(e), Pending(e)' \subseteq Pending(e),
           step'[e] = step[e], job'[e] = job[e], others'[e] = others[e], asked'[e] = asked[e],
           issued'[e] = issued[e],
           phase'[e] = "reply" => req'[e] \in Pending(e),
           \A c \in Alone(e) : running'[c] => running[c] \/ \E r \in Starts(e) : c = r.model,
           answer'[e] = "stopped" /\ asked[e].model \in Alone(e) => ~running'[asked[e].model]
    PROVE  Configured(e)' /\ OneStart(e)' /\ Freed(e)'
<1>1. Starts(e)' \subseteq Starts(e) /\ Alone(e)' = Alone(e)
    BY DEF Starts, Alone
<1>2. Configured(e)'
    BY DEF OwnAt, Configured
<1>3. OneStart(e)'
    <2>1. \A r, s \in Starts(e)' : r.model = s.model
        BY <1>1 DEF OwnAt, OneStart
    <2>2. ASSUME NEW r \in Starts(e)', NEW c \in Alone(e)', running'[c] PROVE c = r.model
        BY <1>1, <2>2 DEF OwnAt, OneStart
    <2> QED BY <2>1, <2>2 DEF OneStart
<1>4. Freed(e)'
    <2> SUFFICES ASSUME step[e] \in {"others", "freeing"}
                 PROVE  /\ job[e].kind = "start"
                        /\ \A c \in Alone(e) \ ({job[e].model, asked[e].model} \cup others[e]) :
                              ~running'[c] /\ \A r \in Starts(e)' : r.model # c
        BY <1>1 DEF Freed
    <2> QED BY <1>1 DEF OwnAt, Freed
<1> QED BY <1>2, <1>3, <1>4

\* A request is sent: of the starts that wait with it all are for one model, and
\* no other of the environment's own runs.
LEMMA CallOwn ==
    ASSUME Typed, Ordered, NEW e \in Environments, OwnAt(e),
           NEW a \in Actions, NEW m \in Approved[e], Call(e, a, m),
           UNCHANGED <<running, phase, req, left, found, outcome>>,
           a = "start" => /\ \A r \in Starts(e) : r.model = m
                          /\ \A c \in Alone(e) : running[c] => c = m
    PROVE  /\ OneStart(e)' /\ Known(e)'
           /\ asked'[e] = Request(issued[e] + 1, a, m) /\ answer'[e] = "none"
           /\ Pending(e)' = Pending(e) \cup {asked'[e]}
           /\ a # "start" => Starts(e)' = Starts(e)
           /\ \A r \in Pending(e)' : r.model \in Approved[e]
           /\ asked'[e].model = m /\ asked'[e].id = issued'[e]
           /\ \A r \in Pending(e)' : r.id = asked'[e].id => r = asked'[e]
           /\ phase'[e] = "reply" => req'[e].id # asked'[e].id
<1> DEFINE new == Request(issued[e] + 1, a, m)
<1>1. /\ issued'[e] = issued[e] + 1 /\ backlog'[e] = Append(backlog[e], new)
      /\ asked'[e] = new /\ answer'[e] = "none" /\ issued[e] \in Nat
      /\ backlog[e] \in Seq(Requests)
    BY DEF Call, Send, Typed, TypeOK
<1>2. new.model = m /\ new.action = a /\ new.id = issued[e] + 1
    BY DEF Request
<1> HIDE DEF new
<1>3. /\ Len(backlog'[e]) = Len(backlog[e]) + 1
      /\ \A k \in 1..Len(backlog[e]) : backlog'[e][k] = backlog[e][k]
      /\ backlog'[e][Len(backlog[e]) + 1] = new
      /\ Len(backlog[e]) \in Nat
    BY <1>1
<1>4. Pending(e)' = Pending(e) \cup {new}
    <2>1. {backlog'[e][k] : k \in 1..Len(backlog'[e])} = {backlog[e][k] : k \in 1..Len(backlog[e])} \cup {new}
        <3>1. 1..Len(backlog'[e]) = 1..Len(backlog[e]) \cup {Len(backlog[e]) + 1}
            BY <1>3
        <3> QED BY <1>3, <3>1
    <2> QED BY <2>1 DEF Pending
<1>5. \A r \in Pending(e) : r.id \in Nat /\ r.id <= issued[e]
    BY PendingType, PendingIssued DEF Requests
<1>6. Starts(e)' = IF a = "start" THEN Starts(e) \cup {new} ELSE Starts(e)
    BY <1>2, <1>4 DEF Starts
<1>7. Alone(e)' = Alone(e)
    BY DEF Alone
<1>8. OneStart(e)'
    BY <1>2, <1>6, <1>7 DEF OwnAt, OneStart
<1>9. Known(e)'
    BY <1>7 DEF OwnAt, Known, Critical
<1>10. \A r \in Pending(e)' : r.id = asked'[e].id => r = asked'[e]
    BY <1>1, <1>2, <1>4, <1>5
<1>11. phase'[e] = "reply" => req'[e].id # asked'[e].id
    <2>1. phase[e] = "reply" => req[e].id \in Nat /\ req[e].id <= issued[e]
        BY DEF Ordered, OrderedAt, Typed, Shape, Requests
    <2> QED BY <1>1, <1>2, <2>1
<1>12. \A r \in Pending(e)' : r.model \in Approved[e]
    BY <1>2, <1>4 DEF OwnAt, Configured
<1> QED BY <1>1, <1>2, <1>4, <1>6, <1>8, <1>9, <1>10, <1>11, <1>12 DEF new

\* The next request of a job: the models it does not look at any more are
\* stopped, and nothing waits that would start one of them.
LEMMA ProceedOwn ==
    ASSUME Typed, Ordered, NEW e \in Environments, OwnAt(e),
           NEW j \in Jobs, j.model \in Approved[e], NEW rest \in SUBSET Approved[e],
           Proceed(e, j, rest), UNCHANGED <<running, phase, req, left, found, outcome>>,
           rest # {} => j.kind = "start",
           j.kind = "start" =>
               \A c \in Alone(e) \ ({j.model} \cup rest) :
                   ~running[c] /\ \A r \in Starts(e) : r.model # c,
           j.kind = "start" /\ rest = {} => \A r \in Starts(e) : r.model = j.model
    PROVE  OwnAt(e)'
<1>0. Alone(e)' = Alone(e) /\ Alone(e) \subseteq Approved[e] /\ job'[e] = j
    BY DEF Alone, Proceed, Typed, TypeOK
<1>1. ASSUME NEW o \in rest, Call(e, "status", o),
             step' = [step EXCEPT ![e] = "others"], others' = [others EXCEPT ![e] = rest \ {o}]
      PROVE  OwnAt(e)'
    <2>1. step'[e] = "others" /\ others'[e] = rest \ {o}
        BY <1>1 DEF Typed, TypeOK
    <2>2. o \in Approved[e] /\ "status" \in Actions /\ "status" # "start"
        BY DEF Actions
    <2>3. /\ OneStart(e)' /\ Known(e)' /\ answer'[e] = "none"
          /\ Starts(e)' = Starts(e)
          /\ \A r \in Pending(e)' : r.model \in Approved[e]
          /\ asked'[e].model = o /\ asked'[e].id = issued'[e]
          /\ \A r \in Pending(e)' : r.id = asked'[e].id => r = asked'[e]
          /\ phase'[e] = "reply" => req'[e].id # asked'[e].id
        BY <1>1, <2>2, CallOwn
    <2>4. Configured(e)'
        BY <1>0, <2>1, <2>2, <2>3 DEF Configured
    <2>5. Freed(e)'
        BY <1>0, <2>1, <2>3 DEF Freed
    <2> QED BY <2>3, <2>4, <2>5 DEF OwnAt
<1>2. ASSUME rest = {}, Call(e, j.kind, j.model), step' = [step EXCEPT ![e] = "final"],
             others' = [others EXCEPT ![e] = {}]
      PROVE  OwnAt(e)'
    <2>1. step'[e] = "final" /\ others'[e] = {}
        BY <1>2 DEF Typed, TypeOK
    <2>2. j.kind \in Actions
        BY DEF Jobs, Actions
    <2>3. j.kind = "start" => /\ \A r \in Starts(e) : r.model = j.model
                              /\ \A c \in Alone(e) : running[c] => c = j.model
        BY <1>2
    <2>4. /\ OneStart(e)' /\ Known(e)' /\ answer'[e] = "none"
          /\ \A r \in Pending(e)' : r.model \in Approved[e]
          /\ asked'[e].model = j.model /\ asked'[e].id = issued'[e]
          /\ \A r \in Pending(e)' : r.id = asked'[e].id => r = asked'[e]
          /\ phase'[e] = "reply" => req'[e].id # asked'[e].id
        BY <1>2, <2>2, <2>3, CallOwn
    <2>5. Configured(e)'
        BY <1>0, <2>1, <2>4 DEF Configured
    <2>6. Freed(e)'
        BY <2>1, <2>4 DEF Freed
    <2> QED BY <2>4, <2>5, <2>6 DEF OwnAt
<1> QED BY <1>1, <1>2 DEF Proceed

LEMMA RunnerOwn ==
    ASSUME Typed, Typed', Ordered, NEW e \in Environments, OwnAt(e), Runner(e)
    PROVE  OwnAt(e)'
<1> USE DEF dockerVars, socketVars, serveVars, history
<1>0. /\ Configured(e) /\ Freed(e) /\ Alone(e) \subseteq Approved[e]
      /\ UNCHANGED <<running, phase, req, left, found, outcome>>
    BY DEF OwnAt, Alone, Runner, Begin, HearOtherRunning, HearOtherStopped, HearStarted, HearStopped,
           HearError, GiveUp, BecomeReady, ReadinessTimeout
<1>1. ASSUME NEW m \in Approved[e], NEW kind \in {"start", "stop"}, Begin(e, kind, m)
      PROVE  OwnAt(e)'
    <2> DEFINE j == [kind |-> kind, model |-> m]
               rest == IF kind = "start" THEN Approved[e] \ {m} ELSE {}
    <2>1. j \in Jobs /\ rest \in SUBSET Approved[e] /\ j.model = m /\ j.kind = kind
        BY DEF Jobs
    <2>2. Proceed(e, j, rest)
        BY <1>1 DEF Begin
    <2>3. kind = "start" => Approved[e] = {m} \cup rest
        OBVIOUS
    <2>4. rest # {} => kind = "start"
        OBVIOUS
    <2> HIDE DEF j, rest
    <2>5. \A r \in Starts(e) : r.model \in Approved[e]
        BY <1>0 DEF Configured, Starts
    <2>6. kind = "start" => Alone(e) \ ({m} \cup rest) = {}
        BY <1>0, <2>3
    <2>7. kind = "start" /\ rest = {} => \A r \in Starts(e) : r.model = m
        BY <2>3, <2>5
    <2> QED BY <1>0, <2>1, <2>2, <2>4, <2>6, <2>7, ProceedOwn
<1>2. CASE HearOtherRunning(e)
    <2>1. /\ step[e] = "others" /\ step'[e] = "freeing" /\ job'[e] = job[e] /\ others'[e] = others[e]
          /\ Call(e, "stop", asked[e].model)
        BY <1>2 DEF HearOtherRunning, Typed, TypeOK
    <2>2. asked[e] # NoRequest
        BY <2>1 DEF Typed, Shape, Waiting
    <2>3. asked[e].model \in Approved[e] /\ "stop" \in Actions /\ "stop" # "start"
        BY <1>0, <2>2 DEF Configured, Actions
    <2>4. /\ OneStart(e)' /\ Known(e)' /\ answer'[e] = "none" /\ Starts(e)' = Starts(e)
          /\ \A r \in Pending(e)' : r.model \in Approved[e]
          /\ asked'[e].model = asked[e].model /\ asked'[e].id = issued'[e]
          /\ \A r \in Pending(e)' : r.id = asked'[e].id => r = asked'[e]
          /\ phase'[e] = "reply" => req'[e].id # asked'[e].id
        BY <1>0, <2>1, <2>3, CallOwn
    <2>5. Configured(e)'
        BY <1>0, <2>1, <2>3, <2>4 DEF Configured
    <2>6. Freed(e)'
        <3>1. Alone(e)' = Alone(e)
            BY DEF Alone
        <3> QED BY <1>0, <2>1, <2>4, <3>1 DEF Freed
    <2> QED BY <2>4, <2>5, <2>6 DEF OwnAt
<1>3. CASE HearOtherStopped(e)
    <2>1. step[e] \in {"others", "freeing"} /\ answer[e] = "stopped" /\ Proceed(e, job[e], others[e])
        BY <1>3 DEF HearOtherStopped
    <2>2. asked[e] # NoRequest /\ job[e] \in Jobs /\ step[e] # "idle"
        BY <2>1 DEF Typed, Shape, Waiting
    <2>3. job[e].model \in Approved[e] /\ others[e] \in SUBSET Approved[e] /\ job[e].kind = "start"
        BY <1>0, <2>1, <2>2 DEF Configured, Freed
    <2>4. Starts(e) = {}
        BY <1>0, <2>1, <2>2, Answered DEF Starts
    <2>5. \A c \in Alone(e) \ ({job[e].model} \cup others[e]) : ~running[c]
        BY <1>0, <2>1 DEF Freed
    <2> QED BY <1>0, <2>1, <2>2, <2>3, <2>4, <2>5, ProceedOwn
<1>4. CASE HearStarted(e) \/ HearStopped(e) \/ HearError(e) \/ GiveUp(e) \/ BecomeReady(e) \/ ReadinessTimeout(e)
    <2>1. /\ issued' = issued /\ backlog' = backlog
          /\ asked'[e] = NoRequest /\ step'[e] \in {"idle", "probing"}
          /\ step'[e] # "idle" => step[e] # "idle" /\ job'[e] = job[e] /\ others'[e] = others[e]
        BY <1>4 DEF HearStarted, HearStopped, HearError, GiveUp, BecomeReady, ReadinessTimeout, Leave,
                    Typed, TypeOK
    <2>2. Pending(e)' = Pending(e) /\ Starts(e)' = Starts(e) /\ Alone(e)' = Alone(e)
        BY <1>0, <2>1 DEF Pending, Starts, Alone
    <2>3. Configured(e)'
        BY <1>0, <2>1, <2>2 DEF Configured
    <2>4. OneStart(e)' /\ Known(e)'
        BY <1>0, <2>2 DEF OwnAt, OneStart, Known, Critical
    <2>5. Freed(e)'
        <3>1. answer'[e] = "none"
            BY <2>1 DEF Typed, Shape
        <3> QED BY <2>1, <3>1 DEF Freed
    <2> QED BY <2>3, <2>4, <2>5 DEF OwnAt
<1> QED BY <1>1, <1>2, <1>3, <1>4 DEF Runner

\* What the runner heard last stays true while the controller takes the
\* requests on: if it was that a model of its own is stopped, none is pending.
LEMMA HeardOwn ==
    ASSUME Typed, Ordered, NEW e \in Environments, OwnAt(e),
           answer[e] = "stopped", asked[e].model \in Alone(e)
    PROVE  ~running[asked[e].model] /\ Starts(e) = {} /\ phase[e] = "accepting"
<1>1. asked[e] # NoRequest
    BY DEF Typed, Shape
<1> QED BY <1>1, Answered DEF OwnAt, Freed, Starts

\* The controller ends a request it has not answered yet.
LEMMA FinishOwn ==
    ASSUME Typed, Ordered, NEW e \in Environments, OwnAt(e), NEW result, Finish(e, result),
           phase[e] \in {"read", "inspect", "command"},
           UNCHANGED <<step, job, others, asked, answer, issued, backlog>>,
           \A c \in Alone(e) : running'[c] => running[c] \/ (req[e].action = "start" /\ c = req[e].model),
           result = "stopped" /\ req[e].model \in Alone(e) => ~running'[req[e].model]
    PROVE  OwnAt(e)'
<1>1. phase'[e] = "reply" /\ req' = req /\ outcome'[e] = result
    BY DEF Finish, Typed, TypeOK
<1>2. Pending(e)' \subseteq Pending(e) /\ req[e] \in Pending(e)
    BY <1>1 DEF Pending
<1>3. req[e].action = "start" => req[e] \in Starts(e)
    BY <1>2 DEF Starts
<1>4. \A c \in Alone(e) : running'[c] => running[c] \/ \E r \in Starts(e) : c = r.model
    BY <1>3
<1>5. answer'[e] = "stopped" /\ asked[e].model \in Alone(e) => ~running'[asked[e].model]
    BY HeardOwn
<1>6. Configured(e)' /\ OneStart(e)' /\ Freed(e)'
    BY <1>1, <1>2, <1>4, <1>5, FewerPending
<1>7. Known(e)'
    <2>1. Alone(e)' = Alone(e)
        BY DEF Alone
    <2> QED BY <1>1, <2>1 DEF Known, Critical
<1> QED BY <1>6, <1>7 DEF OwnAt

\* The controller goes on with the request it serves, or accepts the next one.
LEMMA ContinueOwn ==
    ASSUME Typed, Ordered, NEW e \in Environments, OwnAt(e), Pending(e)' = Pending(e), phase'[e] # "reply",
           UNCHANGED <<running, step, job, others, asked, answer, issued>>, Known(e)'
    PROVE  OwnAt(e)'
<1>1. answer'[e] = "stopped" /\ asked[e].model \in Alone(e) => ~running'[asked[e].model]
    BY HeardOwn
<1>2. Configured(e)' /\ OneStart(e)' /\ Freed(e)'
    BY <1>1, FewerPending
<1> QED BY <1>2 DEF OwnAt

LEMMA AcceptOwn ==
    ASSUME Typed, Ordered, NEW e \in Environments, OwnAt(e), Accept(e)
    PROVE  OwnAt(e)'
<1>1. /\ backlog[e] \in Seq(Requests) /\ backlog[e] # <<>>
      /\ phase[e] = "accepting" /\ phase'[e] = "read"
      /\ req'[e] = Head(backlog[e]) /\ backlog'[e] = Tail(backlog[e])
      /\ UNCHANGED <<running, step, job, others, asked, answer, issued>>
    BY DEF Accept, Typed, TypeOK, dockerVars, runnerVars
<1>2. /\ Len(backlog[e]) \in Nat \ {0} /\ Len(backlog'[e]) = Len(backlog[e]) - 1
      /\ \A k \in 1..Len(backlog'[e]) : backlog'[e][k] = backlog[e][k + 1]
      /\ req'[e] = backlog[e][1]
    BY <1>1
<1>3. {backlog[e][k] : k \in 1..Len(backlog[e])}
          = {backlog'[e][k] : k \in 1..Len(backlog'[e])} \cup {req'[e]}
    <2>1. ASSUME NEW k \in 1..Len(backlog[e])
          PROVE  backlog[e][k] \in {backlog'[e][i] : i \in 1..Len(backlog'[e])} \cup {req'[e]}
        <3>1. CASE k = 1
            BY <1>2, <3>1
        <3>2. CASE k # 1
            <4>1. k - 1 \in 1..Len(backlog'[e]) /\ (k - 1) + 1 = k
                BY <1>2, <3>2
            <4>2. backlog'[e][k - 1] = backlog[e][(k - 1) + 1]
                BY <1>2, <4>1
            <4>3. backlog'[e][k - 1] = backlog[e][k]
                BY <4>1, <4>2
            <4> QED BY <4>1, <4>3
        <3> QED BY <3>1, <3>2
    <2>2. \A k \in 1..Len(backlog'[e]) : k + 1 \in 1..Len(backlog[e])
        BY <1>2
    <2>3. 1 \in 1..Len(backlog[e])
        BY <1>2
    <2>4. \A k \in 1..Len(backlog'[e]) : backlog'[e][k] \in {backlog[e][i] : i \in 1..Len(backlog[e])}
        BY <1>2, <2>2
    <2>5. req'[e] \in {backlog[e][i] : i \in 1..Len(backlog[e])}
        BY <1>2, <2>3
    <2> DEFINE before == {backlog[e][k] : k \in 1..Len(backlog[e])}
               after == {backlog'[e][k] : k \in 1..Len(backlog'[e])}
    <2>6. before \subseteq after \cup {req'[e]}
        BY <2>1
    <2>7. after \subseteq before
        BY <2>4
    <2> QED BY <2>5, <2>6, <2>7
<1>4. Pending(e)' = Pending(e)
    BY <1>1, <1>3 DEF Pending
<1>5. Known(e)'
    BY <1>1 DEF Known, Critical
<1> QED BY <1>1, <1>4, <1>5, ContinueOwn

\* Under the lock the controller looks for the model it is asked for, and finds
\* none of its own but that one.
LEMMA LookOwn ==
    ASSUME Exclusive, Ordered, NEW e \in Environments, OwnAt(e),
           TakeLock(e) \/ (\E c \in Containers : Inspect(e, c)) \/ Issue(e)
    PROVE  OwnAt(e)'
<1> USE DEF dockerVars, runnerVars, socketVars
<1>0. Typed /\ Guarded /\ Alone(e)' = Alone(e)
    BY DEF Exclusive, Alone
<1>1. /\ phase[e] \in {"read", "inspect"} /\ phase'[e] \in {"inspect", "command"}
      /\ UNCHANGED <<running, step, job, others, asked, answer, issued, backlog, req>>
    BY <1>0 DEF TakeLock, Inspect, Issue, Typed, TypeOK
<1>2. Pending(e)' = Pending(e)
    BY <1>1 DEF Pending
<1>3. Known(e)'
    <2>1. CASE TakeLock(e)
        <3>1. left'[e] = ToInspect(e) /\ found'[e] = {}
            BY <1>0, <2>1 DEF TakeLock, Typed, TypeOK, Guarded
        <3>2. running[req[e].model] /\ req[e].model \in Alone(e) => req[e].model \in ToInspect(e)
            <4>1. req[e].model \in Approved[e]
                BY <2>1 DEF TakeLock
            <4> QED BY <1>0, <4>1 DEF ToInspect, Guarded
        <3> QED BY <1>0, <1>1, <3>1, <3>2 DEF Known, Critical
    <2>2. ASSUME NEW c \in Containers, Inspect(e, c) PROVE Known(e)'
        <3>1. /\ phase[e] = "inspect" /\ phase'[e] = "inspect" /\ left'[e] = left[e] \ {c}
              /\ found'[e] = IF running[c] THEN found[e] \cup {c} ELSE found[e]
            BY <1>0, <2>2 DEF Inspect, Typed, TypeOK
        <3>2. req[e].action = "start" => req[e] \in Starts(e)
            BY <3>1 DEF Starts, Pending
        <3>3. req[e].action = "start" /\ running[c] /\ c \in Alone(e) => c = req[e].model
            BY <3>2 DEF OwnAt, OneStart
        <3> QED BY <1>0, <1>1, <3>1, <3>3 DEF OwnAt, Known, Critical
    <2>3. CASE Issue(e)
        <3>1. phase[e] = "inspect" /\ phase'[e] = "command" /\ left'[e] = left[e] /\ found'[e] = found[e]
            BY <1>0, <2>3 DEF Issue, Typed, TypeOK
        <3> QED BY <1>0, <1>1, <3>1 DEF OwnAt, Known, Critical
    <2> QED BY <2>1, <2>2, <2>3
<1> QED BY <1>0, <1>1, <1>2, <1>3, ContinueOwn

\* The connection is closed; if somebody hears the answer, the request was his.
LEMMA CloseOwn ==
    ASSUME Typed, Ordered, NEW e \in Environments, OwnAt(e), Close(e), phase[e] # "accepting",
           UNCHANGED <<step, job, others, asked, issued, backlog>>,
           \A c \in Alone(e) : running'[c] =>
               running[c] \/ (phase[e] = "command" /\ req[e].action = "start" /\ c = req[e].model),
           NEW result, answer' = answer \/ Hear(e, req[e].id, result),
           result = "stopped" => phase[e] = "reply" /\ outcome[e] = "stopped"
    PROVE  OwnAt(e)'
<1>1. phase'[e] = "accepting"
    BY DEF Close, Typed, TypeOK
<1>2. Pending(e)' \subseteq Pending(e)
    BY <1>1 DEF Pending
<1>3. phase[e] = "command" /\ req[e].action = "start" => req[e] \in Starts(e)
    BY DEF Starts, Pending
<1>4. \A c \in Alone(e) : running'[c] => running[c] \/ \E r \in Starts(e) : c = r.model
    BY <1>3
<1>5. answer'[e] = "stopped" /\ asked[e].model \in Alone(e) => ~running'[asked[e].model]
    <2> SUFFICES ASSUME answer'[e] = "stopped", asked[e].model \in Alone(e)
                 PROVE  ~running'[asked[e].model]
        OBVIOUS
    <2>1. answer[e] # "stopped"
        BY HeardOwn
    <2>2. asked[e] # NoRequest /\ asked[e].id = req[e].id /\ result = "stopped"
        BY <2>1 DEF Hear, Typed, TypeOK
    <2>3. req[e] = asked[e]
        BY <2>2 DEF OwnAt, Configured
    <2>4. ~running[asked[e].model]
        BY <2>2, <2>3 DEF OwnAt, Known
    <2> QED BY <2>2, <2>4
<1>6. Configured(e)' /\ OneStart(e)' /\ Freed(e)'
    BY <1>1, <1>2, <1>4, <1>5, FewerPending
<1>7. Known(e)'
    BY <1>1 DEF Known, Critical
<1> QED BY <1>6, <1>7 DEF OwnAt

Own == \A e \in Environments : OwnAt(e)

\* The controller of e starts only what it is asked for, which no other
\* environment has for itself.
LEMMA OwnOthers ==
    ASSUME Typed, Own, NEW e \in Environments, OwnAt(e)',
           \A f \in Environments \ {e} : Untouched(f),
           \A c \in Containers : running'[c] => running[c] \/ (phase[e] = "command" /\ c = req[e].model)
    PROVE  Own'
<1> SUFFICES ASSUME NEW f \in Environments \ {e} PROVE OwnAt(f)'
    BY DEF Own
<1>1. phase[e] = "command" => req[e].model \in Approved[e]
    BY DEF Own, OwnAt, Configured, Pending
<1>2. \A c \in Alone(f) : c \in Containers /\ c \notin Approved[e]
    BY DEF Alone
<1>3. \A c \in Alone(f) : running'[c] => running[c]
    BY <1>1, <1>2
<1> QED BY <1>3, OwnElsewhere DEF Own

LEMMA RunnerUntouched ==
    ASSUME Typed, NEW e \in Environments, Runner(e)
    PROVE  running' = running /\ \A f \in Environments \ {e} : Untouched(f)
<1> USE DEF dockerVars, socketVars, serveVars, history
<1>0. UNCHANGED <<running, phase, req, left, found, outcome>>
    BY DEF Runner, Begin, HearOtherRunning, HearOtherStopped, HearStarted, HearStopped,
           HearError, GiveUp, BecomeReady, ReadinessTimeout
<1> DEFINE Others == \A f \in Environments \ {e} :
        /\ step'[f] = step[f] /\ job'[f] = job[f] /\ others'[f] = others[f] /\ asked'[f] = asked[f]
        /\ answer'[f] = answer[f] /\ issued'[f] = issued[f] /\ backlog'[f] = backlog[f]
<1>1. ASSUME NEW j, NEW rest, Proceed(e, j, rest) PROVE Others
    BY <1>1 DEF Proceed, Call, Send, Typed, TypeOK
<1>2. CASE (\E m \in Approved[e], kind \in {"start", "stop"} : Begin(e, kind, m)) \/ HearOtherStopped(e)
    <2>1. \E j, rest : Proceed(e, j, rest)
        BY <1>2 DEF Begin, HearOtherStopped
    <2> QED BY <1>0, <1>1, <2>1 DEF Untouched
<1>3. CASE HearOtherRunning(e)
    BY <1>0, <1>3 DEF HearOtherRunning, Call, Send, Typed, TypeOK, Untouched
<1>4. CASE HearStarted(e) \/ HearStopped(e) \/ HearError(e) \/ GiveUp(e) \/ BecomeReady(e) \/ ReadinessTimeout(e)
    <2>1. Others
        BY <1>4 DEF HearStarted, HearStopped, HearError, GiveUp, BecomeReady, ReadinessTimeout, Leave,
                    Typed, TypeOK
    <2> QED BY <1>0, <2>1 DEF Untouched
<1> QED BY <1>2, <1>3, <1>4 DEF Runner

LEMMA FinishUntouched ==
    ASSUME Typed, NEW e \in Environments, NEW result, Finish(e, result) \/ Close(e), req'[e] \in {req[e], NoRequest},
           \A f \in Environments \ {e} : answer'[f] = answer[f],
           UNCHANGED <<step, job, others, asked, issued, backlog>>
    PROVE  \A f \in Environments \ {e} : Untouched(f)
    BY DEF Finish, Close, Untouched, Typed, TypeOK

\* One step of a controller.
LEMMA ServeOwn ==
    ASSUME Exclusive, Ordered, Own, ~outlived', NEW e \in Environments, Serve(e) \/ Unavailable(e) \/ Killed(e)
    PROVE  Own'
<1> USE DEF dockerVars, runnerVars, socketVars
<1>0. Typed /\ Guarded /\ OwnAt(e)
    BY DEF Exclusive, Own
<1>1. CASE Unavailable(e) \/ ReportStatus(e) \/ InspectFails(e) \/ Refuse(e) \/ KeepState(e)
    <2>1. PICK result : /\ Finish(e, result)
                        /\ result = "stopped" /\ req[e].model \in Alone(e) => ~running[req[e].model]
        <3>1. CASE Unavailable(e) \/ InspectFails(e) \/ Refuse(e)
            BY <3>1 DEF Unavailable, InspectFails, Refuse
        <3>2. CASE ReportStatus(e)
            BY <3>2 DEF ReportStatus, State
        <3>3. CASE KeepState(e)
            <4>1. req[e].action # "start" /\ req[e].model \in Alone(e) => ~running[req[e].model]
                BY <1>0, <3>3 DEF KeepState, Desired, OwnAt, Known, Critical
            <4> QED BY <3>3, <4>1 DEF KeepState
        <3> QED BY <1>1, <3>1, <3>2, <3>3
    <2>2. /\ phase[e] \in {"read", "inspect", "command"} /\ req' = req
          /\ UNCHANGED <<running, step, job, others, asked, answer, issued, backlog>>
        BY <1>1 DEF Unavailable, ReportStatus, InspectFails, Refuse, KeepState, Finish
    <2>3. OwnAt(e)'
        BY <1>0, <2>1, <2>2, FinishOwn DEF Exclusive
    <2>4. \A f \in Environments \ {e} : Untouched(f)
        BY <1>0, <2>1, <2>2, FinishUntouched
    <2> QED BY <1>0, <2>2, <2>3, <2>4, OwnOthers
<1>2. CASE CommandDone(e) \/ CommandFails(e) \/ CommandTimesOut(e)
    <2>1. PICK result : /\ Finish(e, result)
                        /\ result = "stopped" => CommandDone(e) /\ req[e].action # "start"
        BY <1>2 DEF CommandDone, CommandFails, CommandTimesOut
    <2>2. /\ phase[e] = "command" /\ req' = req
          /\ UNCHANGED <<step, job, others, asked, answer, issued, backlog>>
          /\ (running' = Effect(req[e]) /\ late' = late) \/ UNCHANGED <<running, late>> \/ Cut(e)
        BY <1>2 DEF CommandDone, Execute, CommandFails, CommandTimesOut, Finish
    <2>3. \A c \in Containers : running'[c] => running[c] \/ (c = req[e].model /\ req[e].action = "start")
        BY <2>2, CommandEffect
    <2>4. result = "stopped" /\ req[e].model \in Alone(e) => ~running'[req[e].model]
        <3>1. Alone(e) \subseteq Containers
            BY DEF Alone
        <3> QED BY <1>0, <2>1, <3>1 DEF CommandDone, Execute, Effect, Typed, TypeOK
    <2>5. \A c \in Alone(e) : running'[c] => running[c] \/ (req[e].action = "start" /\ c = req[e].model)
        BY <2>3 DEF Alone
    <2>6. OwnAt(e)'
        BY <1>0, <2>1, <2>2, <2>4, <2>5, FinishOwn
    <2>7. \A f \in Environments \ {e} : Untouched(f)
        BY <1>0, <2>1, <2>2, FinishUntouched
    <2> QED BY <1>0, <2>2, <2>3, <2>6, <2>7, OwnOthers
<1>3. CASE (\E c \in Containers : Inspect(e, c)) \/ Issue(e)
    <2>1. OwnAt(e)'
        BY <1>0, <1>3, LookOwn
    <2>2. running' = running /\ \A f \in Environments \ {e} : Untouched(f)
        BY <1>0, <1>3 DEF Inspect, Issue, Typed, TypeOK, Untouched
    <2> QED BY <1>0, <2>1, <2>2, OwnOthers
<1>4. CASE Reply(e) \/ ReplyToNobody(e) \/ Killed(e)
    <2>1. PICK result : /\ answer' = answer \/ Hear(e, req[e].id, result)
                        /\ result = "stopped" => phase[e] = "reply" /\ outcome[e] = "stopped"
        BY <1>4 DEF Reply, ReplyToNobody, Killed
    <2>2. /\ Close(e) /\ phase[e] # "accepting" /\ req'[e] = NoRequest
          /\ UNCHANGED <<step, job, others, asked, issued, backlog>>
          /\ UNCHANGED <<running, late>> \/ (phase[e] = "command" /\ Cut(e))
        BY <1>0, <1>4 DEF Reply, ReplyToNobody, Killed, Close, Typed, TypeOK
    <2>3. \A c \in Containers : running'[c] =>
              running[c] \/ (phase[e] = "command" /\ req[e].action = "start" /\ c = req[e].model)
        BY <2>2, CommandEffect
    <2>4. \A c \in Alone(e) : running'[c] =>
              running[c] \/ (phase[e] = "command" /\ req[e].action = "start" /\ c = req[e].model)
        BY <2>3 DEF Alone
    <2>5. OwnAt(e)'
        BY <1>0, <2>1, <2>2, <2>4, CloseOwn
    <2>6. \A f \in Environments \ {e} : answer'[f] = answer[f]
        BY <1>0, <2>1 DEF Hear, Typed, TypeOK
    <2>7. \A f \in Environments \ {e} : Untouched(f)
        BY <1>0, <2>2, <2>6, FinishUntouched
    <2> QED BY <1>0, <2>3, <2>5, <2>7, OwnOthers
<1> QED BY <1>1, <1>2, <1>3, <1>4 DEF Serve

LEMMA OwnStep ==
    ASSUME Exclusive, Typed', Ordered, Own, ~outlived', [Next]_vars
    PROVE  Own'
<1>0. Typed /\ late = {}
    BY DEF Exclusive, Guarded
\* A step that starts nothing and only touches what no environment waits for.
<1>1. ASSUME \A c \in Containers : running'[c] => running[c],
             UNCHANGED <<step, job, others, asked, answer, issued, backlog, phase, req, left, found, outcome>>
      PROVE  Own'
    BY <1>1, OwnElsewhere DEF Own, Untouched, Alone
<1>2. ASSUME NEW e \in Environments, Runner(e) PROVE Own'
    <2>1. OwnAt(e)'
        BY <1>0, <1>2, RunnerOwn DEF Own
    <2> QED BY <1>0, <1>2, <2>1, RunnerUntouched, OwnOthers
<1>3. ASSUME NEW e \in Environments, Accept(e) \/ TakeLock(e) PROVE Own'
    <2>1. OwnAt(e)'
        BY <1>0, <1>3, AcceptOwn, LookOwn DEF Own
    <2>2. running' = running /\ \A f \in Environments \ {e} : Untouched(f)
        BY <1>0, <1>3 DEF Accept, TakeLock, Typed, TypeOK, Untouched, dockerVars, runnerVars, socketVars
    <2> QED BY <1>0, <2>1, <2>2, OwnOthers
<1>4. ASSUME NEW e \in Environments, Serve(e) \/ Unavailable(e) \/ Killed(e) PROVE Own'
    BY <1>4, ServeOwn
<1>5. ASSUME NEW e \in Environments, Activate(e) \/ Install(e) PROVE Own'
    BY <1>1, <1>5 DEF Activate, Install, dockerVars, runnerVars, socketVars, serveVars
<1>6. ASSUME NEW c \in Containers, Exit(c) PROVE Own'
    <2>1. \A d \in Containers : running'[d] => running[d]
        BY <1>0, <1>6 DEF Exit, Typed, TypeOK
    <2> QED BY <1>1, <1>6, <2>1 DEF Exit, runnerVars, socketVars, serveVars
<1>7. CASE UNCHANGED vars
    BY <1>1, <1>7 DEF vars, dockerVars, runnerVars, socketVars, serveVars
<1> QED BY <1>0, <1>2, <1>3, <1>4, <1>5, <1>6, <1>7 DEF Next

\* A model of its own that runs was started after the last stop that a job of
\* its environment succeeded with.
Fresh == \A e \in Environments : \A c \in Alone(e) : running[c] => startedAt[e][c] > stoppedAt[e][c]

\* A command that Docker executes was sent after every stop that succeeded.
LEMMA ExecuteFresh ==
    ASSUME Typed, Ordered, Own, Fresh, NEW e \in Environments, phase[e] = "command", Execute(e),
           UNCHANGED stoppedAt
    PROVE  Fresh'
<1> SUFFICES ASSUME NEW f \in Environments, NEW c \in Alone(f), running'[c]
             PROVE  startedAt'[f][c] > stoppedAt[f][c]
    BY DEF Fresh, Alone
<1>1. /\ req[e].model \in Approved[e] /\ req[e].model \in Containers /\ req[e].id \in Nat
      /\ c \in Containers
    BY DEF Own, OwnAt, Configured, Pending, Typed, Shape, Requests, Alone
<1>2. CASE req[e].action = "start" /\ f = e /\ c = req[e].model
    <2>1. startedAt'[e][c] = req[e].id
        BY <1>1, <1>2 DEF Execute, Typed, TypeOK
    <2>2. stoppedAt[e][c] < req[e].id /\ stoppedAt[e][c] \in Nat
        BY <1>1 DEF Ordered, OrderedAt, Served, Typed, TypeOK
    <2> QED BY <1>1, <1>2, <2>1, <2>2
<1>3. CASE ~(req[e].action = "start" /\ f = e /\ c = req[e].model)
    <2>1. f # e => c # req[e].model
        BY <1>1 DEF Alone
    <2>2. running[c]
        BY <1>1, <1>3, <2>1 DEF Execute, Effect, Typed, TypeOK
    <2>3. startedAt'[f][c] = startedAt[f][c]
        BY <1>1, <1>3, <2>1 DEF Execute, Typed, TypeOK
    <2> QED BY <2>2, <2>3 DEF Fresh
<1> QED BY <1>2, <1>3

\* A job that has stopped a model of its own has stopped it.
LEMMA HearStoppedFresh ==
    ASSUME Typed, Ordered, Own, Fresh, NEW e \in Environments, HearStopped(e)
    PROVE  Fresh'
<1>1. UNCHANGED <<running, startedAt>> /\ stoppedAt' = [stoppedAt EXCEPT ![e][asked[e].model] = asked[e].id]
    BY DEF HearStopped, dockerVars
<1>2. asked[e].model \in Alone(e) => ~running[asked[e].model]
    BY HeardOwn DEF HearStopped, Own
<1> SUFFICES ASSUME NEW f \in Environments, NEW c \in Alone(f), running[c]
             PROVE  startedAt[f][c] > stoppedAt'[f][c]
    BY <1>1 DEF Fresh, Alone
<1>3. ~(f = e /\ c = asked[e].model)
    BY <1>2
<1>4. stoppedAt'[f][c] = stoppedAt[f][c]
    BY <1>1, <1>3 DEF Typed, TypeOK
<1> QED BY <1>4 DEF Fresh

LEMMA FreshStep ==
    ASSUME Exclusive, Ordered, Own, Fresh, ~outlived', [Next]_vars
    PROVE  Fresh'
<1>0. Typed /\ late = {}
    BY DEF Exclusive, Guarded
<1> USE DEF dockerVars, runnerVars, socketVars, serveVars, history
\* A step that starts nothing.
<1>1. ASSUME \A c \in Containers : running'[c] => running[c], UNCHANGED <<startedAt, stoppedAt>>
      PROVE  Fresh'
    BY <1>1 DEF Fresh, Alone
<1>2. ASSUME NEW e \in Environments, Runner(e) PROVE Fresh'
    <2>1. CASE HearStopped(e)
        BY <1>0, <2>1, HearStoppedFresh
    <2>2. CASE ~HearStopped(e)
        <3>1. UNCHANGED <<running, startedAt, stoppedAt>>
            BY <1>2, <2>2 DEF Runner, Begin, HearOtherRunning, HearOtherStopped, HearStarted, HearError,
                              GiveUp, BecomeReady, ReadinessTimeout
        <3> QED BY <1>1, <3>1
    <2> QED BY <2>1, <2>2
<1>3. ASSUME NEW e \in Environments, Serve(e) \/ Killed(e) PROVE Fresh'
    <2>1. \/ UNCHANGED <<running, startedAt, stoppedAt>>
          \/ phase[e] = "command" /\ Execute(e) /\ UNCHANGED stoppedAt
        BY <1>0, <1>3 DEF Serve, ReportStatus, Inspect, InspectFails, Refuse, KeepState, Issue, CommandDone,
                    CommandFails, CommandTimesOut, Cut, Reply, ReplyToNobody, Killed
    <2> QED BY <1>0, <1>1, <2>1, ExecuteFresh
<1>4. ASSUME NEW e \in Environments,
             Activate(e) \/ Accept(e) \/ Unavailable(e) \/ TakeLock(e) \/ Install(e)
      PROVE  Fresh'
    BY <1>1, <1>4 DEF Activate, Accept, Unavailable, TakeLock, Install
<1>5. ASSUME NEW c \in Containers, Exit(c) PROVE Fresh'
    <2>1. \A d \in Containers : running'[d] => running[d]
        BY <1>0, <1>5 DEF Exit, Typed, TypeOK
    <2> QED BY <1>1, <1>5, <2>1 DEF Exit
<1>6. CASE UNCHANGED vars
    BY <1>1, <1>6 DEF vars
<1> QED BY <1>0, <1>2, <1>3, <1>4, <1>5, <1>6 DEF Next

\* As long as Docker did not go on with a command whose CLI was killed, the GPU
\* is exclusive, each environment knows what it has to know of its own models,
\* and these run only because of starts younger than their last stop.
OwnInv == Typed /\ Ordered /\ (~outlived => Exclusive /\ Own /\ Fresh)

LEMMA OwnInvariant == Spec => []OwnInv
<1>1. Init => OwnInv
    <2> SUFFICES ASSUME Init PROVE OwnInv
        OBVIOUS
    <2>1. Guarded /\ Seen /\ AtMostOneRuns
        BY DEF Init, Guarded, Seen, AtMostOneRuns, Critical
    <2>2. Ordered
        BY DEF Init, Ordered, OrderedAt, Served
    <2>3. ASSUME NEW e \in Environments PROVE OwnAt(e)
        <3>1. /\ backlog[e] = <<>> /\ phase[e] = "accepting" /\ step[e] = "idle" /\ asked[e] = NoRequest
              /\ answer[e] = "none"
            BY DEF Init
        <3>2. Pending(e) = {} /\ Starts(e) = {}
            BY <3>1 DEF Pending, Starts
        <3> QED BY <3>1, <3>2 DEF OwnAt, Configured, OneStart, Known, Freed, Critical
    <2>4. Fresh
        BY DEF Init, Fresh, Alone
    <2> QED BY <2>1, <2>2, <2>3, <2>4, TypedInit DEF OwnInv, Exclusive, Own
<1>2. OwnInv /\ [Next]_vars => OwnInv'
    <2> SUFFICES ASSUME OwnInv, [Next]_vars PROVE OwnInv'
        OBVIOUS
    <2>1. Typed' /\ Ordered'
        BY TypedStep, OrderedStep DEF OwnInv
    <2>2. ASSUME ~outlived' PROVE Exclusive' /\ Own' /\ Fresh'
        <3>1. Exclusive /\ Own /\ Fresh /\ Ordered
            BY <2>2, OutlivedStays DEF OwnInv
        <3> QED BY <2>1, <2>2, <3>1, ExclusiveStep, OwnStep, FreshStep
    <2> QED BY <2>1, <2>2 DEF OwnInv
<1> QED BY <1>1, <1>2, PTL DEF Spec

\* OwnModelNeverConflicts for any environments, configurations and numbers of
\* requests: as long as Docker did not go on with a command whose CLI was
\* killed, a start finds no other model of its environment's own running.
THEOREM SwitchesMeetNoModelOfTheirOwn == Spec => []OwnModelNeverConflicts
<1>1. OwnInv => OwnModelNeverConflicts
    <2> SUFFICES ASSUME OwnInv, NEW e \in Environments, phase[e] = "inspect", req[e].action = "start", ~outlived,
                        NEW c \in found[e] \cap Alone(e)
                 PROVE  c = req[e].model
        BY DEF OwnModelNeverConflicts
    <2> QED BY DEF OwnInv, Own, OwnAt, Known
<1> QED BY <1>1, OwnInvariant, PTL

\* StopIsFinal for any environments, configurations and numbers of requests: as
\* long as Docker did not go on with a command whose CLI was killed, a model of
\* one environment's own that a job stopped runs only because of a start sent
\* after that stop, however many older starts nobody waited for.
THEOREM StopsAreFinal == Spec => []StopIsFinal
<1>1. OwnInv => StopIsFinal
    BY DEF OwnInv, Fresh, StopIsFinal
<1> QED BY <1>1, OwnInvariant, PTL

=============================================================================
