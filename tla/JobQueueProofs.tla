--------------------------- MODULE JobQueueProofs ---------------------------
(***************************************************************************)
(* Theorems about JobQueue for every value of its constants: any number of *)
(* processes, callers, requests and operations.                            *)
(***************************************************************************)
EXTENDS JobQueue, TLAPS, FiniteSetTheorems

-----------------------------------------------------------------------------
(* Type correctness.                                                       *)

\* Purging expired rows keeps every column in its range.
LEMMA PurgeType ==
    ASSUME TypeOK, PurgeTerminalOperations
    PROVE  /\ state' \in [Ops -> OpStates]
           /\ submissions' \subseteq Submissions
           /\ UNCHANGED <<created, dedupe, request, updated>>
  BY DEF TypeOK, PurgeTerminalOperations, OpStates, Expired

\* Recovery touches running rows only, and puts them back or fails them.
LEMMA RecoverRows ==
    ASSUME TypeOK, RecoverInterruptedOperations
    PROVE  \A o \in Ops : \/ state'[o] = state[o] /\ dedupe'[o] = dedupe[o]
                                /\ state[o] # "running"
                          \/ state[o] = "running" /\ state'[o] = "queued"
                                /\ dedupe'[o] = dedupe[o]
                          \/ state[o] = "running" /\ state'[o] = "failed"
                                /\ dedupe'[o] = Vacated
<1>1. TAKE o \in Ops
<1>2. CASE state[o] # "running"
  BY <1>2 DEF RecoverInterruptedOperations, InState, TypeOK
<1>3. CASE state[o] = "running" /\ request[o] \in Resumable
  BY <1>3 DEF RecoverInterruptedOperations, InState, TypeOK
<1>4. CASE state[o] = "running" /\ request[o] \notin Resumable
  BY <1>4 DEF RecoverInterruptedOperations, InState, TypeOK
<1>5. QED
  BY <1>2, <1>3, <1>4

\* A handle attached to an existing operation number is well formed.
LEMMA AttachType ==
    ASSUME TypeOK, NEW call \in Calls, NEW o \in Ops, Attach(call, o)
    PROVE  submissions' \subseteq Submissions
  BY DEF TypeOK, Attach, Calls, Submissions

\* Every column and every process variable keeps its type: TypeOK of JobQueue.
THEOREM TypeCorrect == Spec => []TypeOK
<1> USE JobQueueAssumption, NoRequestAssumption
<1>1. Init => TypeOK
  BY DEF Init, TypeOK, OpStates, Phases
<1>2. TypeOK /\ [Next]_vars => TypeOK'
  <2> SUFFICES ASSUME TypeOK, [Next]_vars PROVE TypeOK'
    OBVIOUS
  <2>1. CASE Tick
    BY <2>1 DEF Tick, TypeOK, store
  <2>2. ASSUME NEW w \in Workers, NEW call \in Calls, BeginSubmit(w, call)
        PROVE  TypeOK'
    BY <2>2, PurgeType DEF BeginSubmit, TypeOK
  <2>3. ASSUME NEW w \in Workers, SubmitReplay(w) PROVE TypeOK'
    BY <2>3 DEF SubmitReplay, EndSubmit, TypeOK, store
  <2>4. ASSUME NEW w \in Workers, SubmitJoin(w) PROVE TypeOK'
    <3>1. pending[w] \in Calls
      BY <2>4 DEF SubmitJoin, EndSubmit, TypeOK
    <3>2. submissions' \subseteq Submissions
      BY <2>4, <3>1, AttachType DEF SubmitJoin, Duplicates
    <3>3. QED
      BY <2>4, <3>2 DEF SubmitJoin, EndSubmit, TypeOK
  <2>5. ASSUME NEW w \in Workers, SubmitCreate(w) PROVE TypeOK'
    <3>1. pending[w] \in Calls /\ created + 1 \in Ops
      BY <2>5 DEF SubmitCreate, EndSubmit, TypeOK, Ops
    <3>2. submissions' \subseteq Submissions
      BY <2>5, <3>1, AttachType DEF SubmitCreate
    <3>3. pending[w].request \in Requests
      BY <3>1 DEF Calls
    <3>4. state' \in [Ops -> OpStates] /\ dedupe' \in [Ops -> Requests \cup {Vacated}]
      BY <2>5, <3>1, <3>3 DEF SubmitCreate, TypeOK, OpStates, Active
    <3>5. request' \in [Ops -> Requests \cup {Vacated}] /\ updated' \in [Ops -> 0..MaxTime]
      BY <2>5, <3>1, <3>3 DEF SubmitCreate, TypeOK
    <3>6. created' \in 0..MaxOps
      BY <2>5, <3>1 DEF SubmitCreate, TypeOK, Ops
    <3>7. QED
      BY <2>5, <3>2, <3>4, <3>5, <3>6 DEF SubmitCreate, EndSubmit, TypeOK
  <2>6. ASSUME NEW w \in Workers, SubmitRefused(w) PROVE TypeOK'
    BY <2>6 DEF SubmitRefused, EndSubmit, TypeOK, store
  <2>7. ASSUME NEW w \in Workers, Claim(w) PROVE TypeOK'
    BY <2>7 DEF Claim, TypeOK, InState, OpStates, Active, Phases
  <2>8. ASSUME NEW w \in Workers, SetProgress(w) PROVE TypeOK'
    BY <2>8 DEF SetProgress, TypeOK
  <2>9. ASSUME NEW w \in Workers, NEW outcome \in Terminal, Finish(w, outcome)
        PROVE  TypeOK'
    <3>1. ended' \in [Ops -> 0..MaxTime]
      BY <2>9 DEF Finish, RecordEnds, TypeOK
    <3>2. QED
      BY <2>9, <3>1 DEF Finish, Settle, TypeOK, OpStates, Phases
  <2>10. ASSUME NEW w \in Workers, FinishRefused(w) PROVE TypeOK'
    BY <2>10 DEF FinishRefused, ThreadDies, TypeOK, Phases, store
  <2>11. ASSUME NEW w \in Workers, StorageFault(w) PROVE TypeOK'
    BY <2>11 DEF StorageFault, ThreadDies, TypeOK, Phases, store
  <2>12. ASSUME NEW w \in Workers, Start(w) PROVE TypeOK'
    <3>1. ended' \in [Ops -> 0..MaxTime]
      BY <2>12 DEF Start, RecordEnds, TypeOK
    <3>2. QED
      BY <2>12, <3>1 DEF Start, RecoverInterruptedOperations, TypeOK, OpStates, Active, Terminal, Phases
  <2>13. ASSUME NEW w \in Workers, Ready(w) PROVE TypeOK'
    BY <2>13, PurgeType DEF Ready, TypeOK, Phases
  <2>14. ASSUME NEW w \in Workers, Crash(w) PROVE TypeOK'
    BY <2>14 DEF Crash, TypeOK, Phases, store
  <2>15. CASE UNCHANGED vars
    BY <2>15 DEF vars, store, TypeOK
  <2>16. QED
    BY <2>1, <2>2, <2>3, <2>4, <2>5, <2>6, <2>7, <2>8, <2>9, <2>10, <2>11,
       <2>12, <2>13, <2>14, <2>15 DEF Next, Submit, Run, Lifecycle
<1>3. QED
  BY <1>1, <1>2, PTL DEF Spec

-----------------------------------------------------------------------------
(* Serialization and order of service.                                     *)

\* Row numbers below the counter are the rows that were ever inserted.
RowsNumbered == \A o \in Ops : state[o] = "absent" <=> o > created

\* What a runner has in memory was the oldest work when it was claimed, and
\* nothing older can become live again: FifoService is not inductive without
\* this, since a second process may put a running row back in the queue.
TaskIsOldest ==
    \A w \in Workers : phase[w] = "busy" =>
        /\ task[w] \in Ops
        /\ state[task[w]] # "absent"
        /\ \A o \in Ops : o < task[w] => state[o] \notin Active

OrderInv == RowsNumbered /\ OneRunning /\ FifoService /\ TaskIsOldest

\* A step that only moves terminal rows to "purged" keeps the order.
LEMMA PurgeOrder ==
    ASSUME TypeOK, OrderInv, PurgeTerminalOperations, UNCHANGED task,
           \A w \in Workers : phase'[w] = "busy" => phase[w] = "busy"
    PROVE  OrderInv'
  BY DEF TypeOK, OrderInv, RowsNumbered, OneRunning, FifoService, TaskIsOldest,
         PurgeTerminalOperations, Expired, InState, Started, Active, Terminal

\* A step that leaves the table alone keeps it too.
LEMMA StoreUnchangedOrder ==
    ASSUME TypeOK, OrderInv, UNCHANGED <<created, state>>,
           \A w \in Workers : phase'[w] = "busy" =>
                phase[w] = "busy" /\ task'[w] = task[w]
    PROVE  OrderInv'
  BY DEF TypeOK, OrderInv, RowsNumbered, OneRunning, FifoService, TaskIsOldest,
         InState, Active

LEMMA OrderStep == TypeOK /\ OrderInv /\ [Next]_vars => OrderInv'
<1> USE JobQueueAssumption, NoRequestAssumption
<1> SUFFICES ASSUME TypeOK, OrderInv, [Next]_vars PROVE OrderInv'
  OBVIOUS
<1>1. CASE Tick
  BY <1>1, StoreUnchangedOrder DEF Tick, store
<1>2. ASSUME NEW w \in Workers, NEW call \in Calls, BeginSubmit(w, call)
      PROVE  OrderInv'
  BY <1>2, PurgeOrder DEF BeginSubmit
<1>3. ASSUME NEW w \in Workers, SubmitReplay(w) \/ SubmitJoin(w) \/ SubmitRefused(w)
      PROVE  OrderInv'
  BY <1>3, StoreUnchangedOrder
     DEF SubmitReplay, SubmitJoin, SubmitRefused, EndSubmit, store
<1>4. ASSUME NEW w \in Workers, SubmitCreate(w) PROVE OrderInv'
  <2>1. /\ created + 1 \in Ops /\ created' = created + 1
        /\ state' = [state EXCEPT ![created + 1] = "queued"]
        /\ UNCHANGED <<phase, task>>
    BY <1>4 DEF SubmitCreate, EndSubmit, TypeOK, Ops
  <2>2. /\ state'[created + 1] = "queued" /\ state[created + 1] \notin {"queued", "running"}
        /\ \A o \in Ops : o # created + 1 => state'[o] = state[o]
    BY <2>1 DEF TypeOK, OrderInv, RowsNumbered, Ops
  <2>3. RowsNumbered'
    BY <2>1, <2>2 DEF TypeOK, OrderInv, RowsNumbered, Ops
  <2>4. OneRunning'
    BY <2>2 DEF OrderInv, OneRunning, InState
  <2>5. FifoService'
    <3>1. SUFFICES ASSUME NEW o \in Ops, NEW p \in Ops, o < p, state'[p] \in Started
                   PROVE  state'[o] \notin Active
      BY DEF FifoService
    <3>2. p # created + 1 /\ state'[p] = state[p]
      BY <2>2, <3>1 DEF Started, Terminal
    <3>3. o # created + 1
      BY <2>1, <3>1, <3>2 DEF OrderInv, RowsNumbered, Started, Terminal, Ops, TypeOK
    <3>4. QED
      BY <2>2, <3>1, <3>2, <3>3 DEF OrderInv, FifoService
  <2>6. TaskIsOldest'
    BY <2>1, <2>2 DEF OrderInv, RowsNumbered, TaskIsOldest, Active, Ops, TypeOK
  <2>7. QED
    BY <2>3, <2>4, <2>5, <2>6 DEF OrderInv
<1>5. ASSUME NEW w \in Workers, Claim(w) PROVE OrderInv'
  <2>1. PICK o \in InState({"queued"}) :
          /\ \A p \in InState({"queued"}) : o <= p
          /\ state' = [state EXCEPT ![o] = "running"]
          /\ task' = [task EXCEPT ![w] = o]
    BY <1>5 DEF Claim, FirstInLine
  <2>2. /\ o \in Ops /\ state[o] = "queued"
        /\ \A p \in Ops : p < o => state[p] \notin Active
        /\ \A p \in Ops : state[p] # "running"
    BY <1>5, <2>1 DEF Claim, EnvironmentFree, InState, Active, Ops
  <2>3. RowsNumbered' /\ OneRunning'
    BY <1>5, <2>1, <2>2 DEF Claim, TypeOK, OrderInv, RowsNumbered, OneRunning, InState
  <2>4. FifoService'
    BY <2>1, <2>2 DEF TypeOK, OrderInv, FifoService, Started, Active, Terminal
  <2>5. TaskIsOldest'
    BY <1>5, <2>1, <2>2 DEF Claim, TypeOK, OrderInv, TaskIsOldest, Active, Ops
  <2>6. QED
    BY <2>3, <2>4, <2>5 DEF OrderInv
<1>6. ASSUME NEW w \in Workers, SetProgress(w) PROVE OrderInv'
  BY <1>6, StoreUnchangedOrder DEF SetProgress
<1>7. ASSUME NEW w \in Workers, NEW outcome \in Terminal, Finish(w, outcome)
      PROVE  OrderInv'
  <2>1. /\ task[w] \in Ops /\ state[task[w]] \in Active
        /\ \A o \in Ops : o < task[w] => state[o] \notin Active
        /\ state' = [state EXCEPT ![task[w]] = outcome]
        /\ \A v \in Workers : phase'[v] = "busy" => phase[v] = "busy" /\ task'[v] = task[v]
        /\ created' = created
    BY <1>7 DEF Finish, Settle, OrderInv, TaskIsOldest, TypeOK
  <2>2. QED
    BY <2>1 DEF TypeOK, OrderInv, RowsNumbered, OneRunning, FifoService, TaskIsOldest,
                InState, Started, Active, Terminal
<1>8. ASSUME NEW w \in Workers, FinishRefused(w) \/ StorageFault(w) PROVE OrderInv'
  BY <1>8, StoreUnchangedOrder DEF FinishRefused, StorageFault, ThreadDies, TypeOK, store
<1>9. ASSUME NEW w \in Workers, Start(w) PROVE OrderInv'
  <2>1. /\ RecoverInterruptedOperations
        /\ \A v \in Workers : phase'[v] = "busy" => phase[v] = "busy"
        /\ UNCHANGED <<created, task>>
    BY <1>9 DEF Start, RecoverInterruptedOperations, TypeOK
  <2>2. ASSUME NEW o \in Ops
        PROVE  \/ state'[o] = state[o]
               \/ state[o] = "running" /\ (state'[o] = "queued" \/ state'[o] = "failed")
    BY <2>1, RecoverRows
  <2>3. \A o, p \in Ops : o < p /\ state[o] = "running" => state[p] \notin Started
    BY DEF OrderInv, FifoService, Active
  <2>4. RowsNumbered' /\ OneRunning'
    BY <2>1, <2>2 DEF TypeOK, OrderInv, RowsNumbered, OneRunning, InState
  <2>5. FifoService'
    BY <2>2, <2>3 DEF OrderInv, FifoService, Started, Active, Terminal
  <2>6. TaskIsOldest'
    BY <2>1, <2>2 DEF TypeOK, OrderInv, TaskIsOldest, Active
  <2>7. QED
    BY <2>4, <2>5, <2>6 DEF OrderInv
<1>10. ASSUME NEW w \in Workers, Ready(w) PROVE OrderInv'
  BY <1>10, PurgeOrder DEF Ready, TypeOK
<1>11. ASSUME NEW w \in Workers, Crash(w) PROVE OrderInv'
  BY <1>11, StoreUnchangedOrder DEF Crash, TypeOK, store
<1>12. CASE UNCHANGED vars
  BY <1>12, StoreUnchangedOrder DEF vars, store
<1>13. QED
  BY <1>1, <1>2, <1>3, <1>4, <1>5, <1>6, <1>7, <1>8, <1>9, <1>10, <1>11, <1>12
     DEF Next, Submit, Run, Lifecycle

LEMMA OrderInvariant == Spec => []OrderInv
<1>1. Init => OrderInv
  BY JobQueueAssumption
     DEF Init, OrderInv, RowsNumbered, OneRunning, FifoService, TaskIsOldest,
         InState, Started, Active, Terminal, Ops
<1>2. QED
  BY <1>1, TypeCorrect, OrderStep, PTL DEF Spec

\* claim_next_operation and recover_interrupted_operations serialize the work
\* of an environment: at most one row is RUNNING, whatever the number of
\* processes and crashes.
THEOREM Serialized == Spec => []OneRunning
  BY OrderInvariant, PTL DEF OrderInv

\* Service is in creation order, also across crashes, requeued work and
\* overlapping processes: nothing younger starts before an older operation
\* has left the queue for good.
THEOREM ServedInOrder == Spec => []FifoService
  BY OrderInvariant, PTL DEF OrderInv

-----------------------------------------------------------------------------
(* Coalescing and handles.                                                 *)

\* The dedupe key of a live row is the fingerprint of the work it stores.
DedupeIsRequest == \A o \in Ops : dedupe[o] # Vacated => dedupe[o] = request[o]

TableInv == RowsNumbered /\ LiveDedupe /\ DedupeIsRequest /\ HandlesMatchRows /\ OneJobPerKey

LEMMA PurgeTable ==
    ASSUME TypeOK, TableInv, PurgeTerminalOperations
    PROVE  TableInv'
<1>1. /\ \A o \in Ops : state'[o] = IF o \in Expired THEN "purged" ELSE state[o]
      /\ submissions' = {s \in submissions : s.op \notin Expired}
      /\ UNCHANGED <<created, dedupe, request>>
  BY DEF PurgeTerminalOperations
<1>2. \A o \in Expired : o \in Ops /\ state[o] \in Terminal
  BY DEF Expired
<1>3. RowsNumbered' /\ DedupeIsRequest' /\ OneJobPerKey'
  BY <1>1, <1>2 DEF TableInv, RowsNumbered, DedupeIsRequest, OneJobPerKey, Terminal
<1>4. LiveDedupe'
  BY <1>1, <1>2 DEF TableInv, LiveDedupe, InState, Active, Terminal
<1>5. HandlesMatchRows'
  <2>1. ASSUME NEW o \in Ops, state'[o] \notin {"absent", "purged"}
        PROVE  \E s \in submissions' : s.op = o
    BY <1>1, <2>1 DEF TableInv, HandlesMatchRows
  <2>2. ASSUME NEW s \in submissions'
        PROVE  /\ state'[s.op] \notin {"absent", "purged"}
               /\ request'[s.op] = s.request
    <3>1. s \in submissions /\ s.op \notin Expired /\ s.op \in Ops
      BY <1>1, <2>2 DEF TypeOK, Submissions
    <3>2. QED
      BY <1>1, <3>1 DEF TableInv, HandlesMatchRows
  <2>3. QED
    BY <2>1, <2>2 DEF HandlesMatchRows
<1>6. QED
  BY <1>3, <1>4, <1>5 DEF TableInv

LEMMA StoreUnchangedTable ==
    ASSUME TableInv, UNCHANGED <<created, state, dedupe, request, submissions>>
    PROVE  TableInv'
  BY DEF TableInv, RowsNumbered, LiveDedupe, DedupeIsRequest, HandlesMatchRows,
         OneJobPerKey, InState

\* Ending a live row keeps its handles and frees its fingerprint.
LEMMA SettleTable ==
    ASSUME TypeOK, TableInv, NEW o \in Ops, NEW outcome \in Terminal, Settle(o, outcome)
    PROVE  TableInv'
<1>1. /\ state[o] \in Active
      /\ state' = [state EXCEPT ![o] = outcome]
      /\ dedupe' = [dedupe EXCEPT ![o] = Vacated]
      /\ UNCHANGED <<created, request, submissions>>
  BY DEF Settle
<1>2. RowsNumbered' /\ DedupeIsRequest' /\ OneJobPerKey'
  BY <1>1 DEF TypeOK, TableInv, RowsNumbered, DedupeIsRequest, OneJobPerKey, Terminal, Active
<1>3. LiveDedupe'
  BY <1>1 DEF TypeOK, TableInv, LiveDedupe, InState, Active, Terminal
<1>4. HandlesMatchRows'
  BY <1>1 DEF TypeOK, TableInv, HandlesMatchRows, Submissions, Active, Terminal
<1>5. QED
  BY <1>2, <1>3, <1>4 DEF TableInv

LEMMA TableStep == TypeOK /\ OrderInv /\ TableInv /\ [Next]_vars => TableInv'
<1> USE JobQueueAssumption, NoRequestAssumption
<1> SUFFICES ASSUME TypeOK, OrderInv, TableInv, [Next]_vars PROVE TableInv'
  OBVIOUS
<1>1. CASE Tick
  BY <1>1, StoreUnchangedTable DEF Tick, store
<1>2. ASSUME NEW w \in Workers, NEW call \in Calls, BeginSubmit(w, call)
      PROVE  TableInv'
  BY <1>2, PurgeTable DEF BeginSubmit
<1>3. ASSUME NEW w \in Workers, SubmitReplay(w) \/ SubmitRefused(w) PROVE TableInv'
  BY <1>3, StoreUnchangedTable DEF SubmitReplay, SubmitRefused, store
<1>4. ASSUME NEW w \in Workers, SubmitJoin(w) PROVE TableInv'
  <2>1. pending[w] \in Calls /\ pending[w].request \in Requests
    BY <1>4 DEF SubmitJoin, EndSubmit, TypeOK, Calls
  <2>2. PICK o \in Duplicates(pending[w]) : Attach(pending[w], o)
    BY <1>4 DEF SubmitJoin
  <2>3. /\ o \in Ops /\ state[o] \notin {"absent", "purged"}
        /\ request[o] = pending[w].request
    BY <2>1, <2>2 DEF Duplicates, TableInv, DedupeIsRequest
  <2>4. RowsNumbered' /\ LiveDedupe' /\ DedupeIsRequest'
    BY <1>4 DEF SubmitJoin, TableInv, RowsNumbered, LiveDedupe, DedupeIsRequest, InState
  <2>5. HandlesMatchRows'
    BY <1>4, <2>2, <2>3 DEF SubmitJoin, Attach, TableInv, HandlesMatchRows
  <2>6. OneJobPerKey'
    BY <1>4, <2>2 DEF SubmitJoin, Attach, Replayed, TableInv, OneJobPerKey
  <2>7. QED
    BY <2>4, <2>5, <2>6 DEF TableInv
<1>5. ASSUME NEW w \in Workers, SubmitCreate(w) PROVE TableInv'
  <2> DEFINE o == created + 1
  <2>1. /\ pending[w] \in Calls /\ pending[w].request \in Requests
        /\ o \in Ops /\ state[o] = "absent"
    BY <1>5 DEF SubmitCreate, EndSubmit, TypeOK, Calls, Ops, TableInv, RowsNumbered
  <2>2. /\ created' = o
        /\ state' = [state EXCEPT ![o] = "queued"]
        /\ dedupe' = [dedupe EXCEPT ![o] = pending[w].request]
        /\ request' = [request EXCEPT ![o] = pending[w].request]
        /\ Attach(pending[w], o)
        /\ Replayed(pending[w]) = {} /\ Duplicates(pending[w]) = {}
    BY <1>5 DEF SubmitCreate
  <2>3. RowsNumbered' /\ DedupeIsRequest'
    BY <2>1, <2>2 DEF TypeOK, TableInv, RowsNumbered, DedupeIsRequest, Ops
  <2>4. \A p \in InState(Active) : request[p] # pending[w].request
    BY <2>1, <2>2 DEF Duplicates, TableInv, LiveDedupe, DedupeIsRequest, InState, Active
  <2>5. LiveDedupe'
    <3>1. \A p \in Ops : state'[p] \in Active <=> dedupe'[p] # Vacated
      BY <2>1, <2>2 DEF TypeOK, TableInv, LiveDedupe, Active
    <3>2. \A p, q \in Ops : state'[p] \in Active /\ state'[q] \in Active
                              /\ request'[p] = request'[q] => p = q
      BY <2>1, <2>2, <2>4 DEF TypeOK, TableInv, LiveDedupe, InState
    <3>3. QED
      BY <3>1, <3>2 DEF LiveDedupe, InState
  <2>6. HandlesMatchRows'
    <3> DEFINE new == [actor |-> pending[w].actor, key |-> pending[w].key,
                       request |-> pending[w].request, op |-> o]
    <3>1. submissions' = submissions \cup {new} /\ new.op = o
      BY <2>2 DEF Attach
    <3>2. \A p \in Ops : state'[p] \notin {"absent", "purged"} =>
            \E s \in submissions' : s.op = p
      BY <2>1, <2>2, <3>1 DEF TypeOK, TableInv, HandlesMatchRows
    <3>3. state'[o] = "queued" /\ request'[o] = new.request
      BY <2>1, <2>2 DEF TypeOK
    <3>4. \A s \in submissions : s.op \in Ops /\ s.op # o
      BY <2>1 DEF TypeOK, TableInv, HandlesMatchRows, Submissions
    <3>5. \A s \in submissions' :
            state'[s.op] \notin {"absent", "purged"} /\ request'[s.op] = s.request
      <4> TAKE s \in submissions'
      <4>1. CASE s = new
        BY <3>1, <3>3, <4>1
      <4>2. CASE s \in submissions
        BY <2>1, <2>2, <3>4, <4>2 DEF TypeOK, TableInv, HandlesMatchRows
      <4>3. QED
        BY <3>1, <4>1, <4>2
    <3>6. QED
      BY <3>2, <3>5 DEF HandlesMatchRows
  <2>7. OneJobPerKey'
    BY <2>2 DEF Attach, Replayed, TableInv, OneJobPerKey
  <2>8. QED
    BY <2>3, <2>5, <2>6, <2>7 DEF TableInv
<1>6. ASSUME NEW w \in Workers, Claim(w) PROVE TableInv'
  <2>1. PICK o \in Ops : state[o] = "queued" /\ state' = [state EXCEPT ![o] = "running"]
    BY <1>6 DEF Claim, InState
  <2>2. UNCHANGED <<created, dedupe, request, submissions>>
    BY <1>6 DEF Claim
  <2>3. RowsNumbered' /\ DedupeIsRequest' /\ OneJobPerKey'
    BY <2>1, <2>2 DEF TypeOK, TableInv, RowsNumbered, DedupeIsRequest, OneJobPerKey
  <2>4. LiveDedupe' /\ HandlesMatchRows'
    BY <2>1, <2>2 DEF TypeOK, TableInv, LiveDedupe, HandlesMatchRows, InState, Active, Submissions
  <2>5. QED
    BY <2>3, <2>4 DEF TableInv
<1>7. ASSUME NEW w \in Workers, SetProgress(w) PROVE TableInv'
  BY <1>7, StoreUnchangedTable DEF SetProgress
<1>8. ASSUME NEW w \in Workers, NEW outcome \in Terminal, Finish(w, outcome)
      PROVE  TableInv'
  <2>1. task[w] \in Ops
    BY <1>8 DEF Finish, OrderInv, TaskIsOldest
  <2>2. QED
    BY <1>8, <2>1, SettleTable DEF Finish
<1>9. ASSUME NEW w \in Workers, FinishRefused(w) \/ StorageFault(w) \/ Crash(w)
      PROVE  TableInv'
  BY <1>9, StoreUnchangedTable DEF FinishRefused, StorageFault, ThreadDies, Crash, store
<1>10. ASSUME NEW w \in Workers, Start(w) PROVE TableInv'
  <2>1. /\ RecoverInterruptedOperations
        /\ UNCHANGED <<created, request, submissions>>
    BY <1>10 DEF Start, RecoverInterruptedOperations
  <2>2. \A o \in Ops :
          \/ state'[o] = state[o] /\ dedupe'[o] = dedupe[o]
          \/ state[o] = "running" /\ state'[o] = "queued" /\ dedupe'[o] = dedupe[o]
          \/ state[o] = "running" /\ state'[o] = "failed" /\ dedupe'[o] = Vacated
    BY <2>1, RecoverRows
  <2>3. RowsNumbered' /\ DedupeIsRequest' /\ OneJobPerKey'
    BY <2>1, <2>2 DEF TableInv, RowsNumbered, DedupeIsRequest, OneJobPerKey
  <2>4. LiveDedupe'
    BY <2>1, <2>2 DEF TableInv, LiveDedupe, InState, Active
  <2>5. HandlesMatchRows'
    BY <2>1, <2>2 DEF TypeOK, TableInv, HandlesMatchRows, Submissions
  <2>6. QED
    BY <2>3, <2>4, <2>5 DEF TableInv
<1>11. ASSUME NEW w \in Workers, Ready(w) PROVE TableInv'
  BY <1>11, PurgeTable DEF Ready
<1>12. CASE UNCHANGED vars
  BY <1>12, StoreUnchangedTable DEF vars, store
<1>13. QED
  BY <1>1, <1>2, <1>3, <1>4, <1>5, <1>6, <1>7, <1>8, <1>9, <1>10, <1>11, <1>12
     DEF Next, Submit, Run, Lifecycle

LEMMA TableInvariant == Spec => []TableInv
<1>1. Init => TableInv
  BY JobQueueAssumption
     DEF Init, TableInv, RowsNumbered, LiveDedupe, DedupeIsRequest, HandlesMatchRows,
         OneJobPerKey, InState, Active, Ops
<1>2. QED
  BY <1>1, TypeCorrect, OrderInvariant, TableStep, PTL DEF Spec

\* Deduplication covers exactly the live operations: no two of them do the
\* same work, and an ended one never absorbs a later request.
THEOREM Coalesced == Spec => []LiveDedupe
  BY TableInvariant, PTL DEF TableInv

\* No row a claim can meet lacks a handle, and every handle leads to a row
\* with the work it asked for: the "queued operation has no submission" error
\* of claim_next_operation cannot arise.
THEOREM HandlesSound == Spec => []HandlesMatchRows
  BY TableInvariant, PTL DEF TableInv

\* A key of a caller names one job for as long as its handle exists, also when
\* requests, retries and purges of several processes interleave.
THEOREM KeysNameOneJob == Spec => []OneJobPerKey
  BY TableInvariant, PTL DEF TableInv

-----------------------------------------------------------------------------
(* Ends, retention and the limit of the queue.                             *)

\* What a step may do to the state of a row.
LEMMA StateStep ==
    ASSUME TypeOK, OrderInv, [Next]_vars, NEW o \in Ops
    PROVE  \/ state'[o] = state[o]
           \/ state[o] \in Terminal /\ state'[o] = "purged"
           \/ state[o] \in Active /\ state'[o] \in Active \cup Terminal
           \/ /\ o = created + 1 /\ state'[o] = "queued"
              /\ Cardinality(InState(Active)) < MaxActive
              /\ \A p \in Ops : p # o => state'[p] = state[p]
<1> USE JobQueueAssumption, NoRequestAssumption
<1>1. ASSUME PurgeTerminalOperations
      PROVE  state'[o] = state[o] \/ (state[o] \in Terminal /\ state'[o] = "purged")
  BY <1>1 DEF PurgeTerminalOperations, Expired
<1>2. ASSUME NEW w \in Workers, SubmitCreate(w)
      PROVE  \/ state'[o] = state[o]
             \/ /\ o = created + 1 /\ state'[o] = "queued"
                /\ Cardinality(InState(Active)) < MaxActive
                /\ \A p \in Ops : p # o => state'[p] = state[p]
  BY <1>2 DEF SubmitCreate, TypeOK, ActiveCount
<1>3. ASSUME NEW w \in Workers, Claim(w)
      PROVE  state'[o] = state[o] \/ (state[o] \in Active /\ state'[o] \in Active)
  BY <1>3 DEF Claim, InState, TypeOK, Active
<1>4. ASSUME NEW w \in Workers, NEW outcome \in Terminal, Finish(w, outcome)
      PROVE  state'[o] = state[o] \/ (state[o] \in Active /\ state'[o] \in Terminal)
  BY <1>4 DEF Finish, Settle, TypeOK
<1>5. ASSUME NEW w \in Workers, Start(w)
      PROVE  state'[o] = state[o] \/ (state[o] \in Active /\ state'[o] \in Active \cup Terminal)
  BY <1>5, RecoverRows DEF Start, Active, Terminal
<1>6. CASE UNCHANGED state
  BY <1>6
<1>7. QED
  BY <1>1, <1>2, <1>3, <1>4, <1>5, <1>6
     DEF Next, Submit, Run, Lifecycle, BeginSubmit, SubmitReplay, SubmitJoin, SubmitRefused,
         SetProgress, FinishRefused, StorageFault, ThreadDies, Ready, Crash, Tick, vars, store

\* A job that ended keeps its end until it is purged: TerminalIsFinal of
\* JobQueue, for any number of processes.
THEOREM EndsAreFinal == Spec => TerminalIsFinal
<1>1. TypeOK /\ OrderInv /\ [Next]_vars =>
        [\A o \in Ops : state[o] \in Terminal => state'[o] \in {state[o], "purged"}]_vars
  <2> SUFFICES ASSUME TypeOK, OrderInv, [Next]_vars, NEW o \in Ops, state[o] \in Terminal
               PROVE  state'[o] \in {state[o], "purged"}
    OBVIOUS
  <2>1. state[o] \notin Active /\ state[o] # "absent"
    BY DEF Terminal, Active
  <2>2. o # created + 1
    BY <2>1 DEF OrderInv, RowsNumbered, TypeOK, Ops
  <2>3. QED
    BY <2>1, <2>2, StateStep
<1>2. QED
  BY <1>1, TypeCorrect, OrderInvariant, PTL DEF Spec, TerminalIsFinal

\* A row that has come to its end bears the time of it: neither progress, nor
\* recovery, nor another process stamps it afterwards.
EndStamped == \A o \in Ops : state[o] \in Terminal => ended[o] = updated[o]

LEMMA EndStampedStep == TypeOK /\ EndStamped /\ [Next]_vars => EndStamped'
<1> SUFFICES ASSUME TypeOK, EndStamped, [Next]_vars, NEW o \in Ops, state'[o] \in Terminal
             PROVE  ended'[o] = updated'[o]
  BY DEF EndStamped
<1>1. CASE state[o] \in Terminal /\ UNCHANGED <<ended, updated>>
  BY <1>1 DEF EndStamped
<1>2. CASE PurgeTerminalOperations /\ UNCHANGED ended
  <2>1. state[o] \in Terminal
    BY <1>2 DEF PurgeTerminalOperations, Terminal
  <2>2. QED
    BY <1>1, <1>2, <2>1 DEF PurgeTerminalOperations
<1>3. ASSUME NEW w \in Workers, SubmitCreate(w) PROVE ended'[o] = updated'[o]
  <2>1. o # created + 1
    BY <1>3 DEF SubmitCreate, TypeOK, Terminal
  <2>2. QED
    BY <1>3, <2>1 DEF SubmitCreate, EndSubmit, EndStamped, TypeOK
<1>4. ASSUME NEW w \in Workers, Claim(w) \/ SetProgress(w) PROVE ended'[o] = updated'[o]
  BY <1>4 DEF Claim, SetProgress, EndStamped, TypeOK, Terminal
<1>5. ASSUME NEW w \in Workers, NEW outcome \in Terminal, Finish(w, outcome)
      PROVE  ended'[o] = updated'[o]
  <2>1. CASE o = task[w]
    <3>1. state[o] \notin Terminal /\ updated'[o] = now
      BY <1>5, <2>1 DEF Finish, Settle, TypeOK, Active, Terminal
    <3>2. QED
      BY <1>5, <3>1 DEF Finish, RecordEnds
  <2>2. CASE o # task[w]
    BY <1>5, <2>2 DEF Finish, Settle, RecordEnds, EndStamped, TypeOK
  <2>3. QED
    BY <2>1, <2>2
<1>6. ASSUME NEW w \in Workers, Start(w) PROVE ended'[o] = updated'[o]
  BY <1>6 DEF Start, RecoverInterruptedOperations, RecordEnds, InState, EndStamped, TypeOK, Terminal
<1>7. CASE UNCHANGED <<state, updated, ended>>
  BY <1>1, <1>7
<1>8. QED
  BY <1>2, <1>3, <1>4, <1>5, <1>6, <1>7
     DEF Next, Submit, Run, Lifecycle, BeginSubmit, EndSubmit, SubmitReplay, SubmitJoin, SubmitRefused,
         FinishRefused, StorageFault, ThreadDies, Ready, Crash, Tick, vars, store

\* A handle outlives the end of its operation by the retention window and no
\* request or start after that: HandleRetention of JobQueue, for any number of
\* processes, crashes and recoveries.  The purge compares the time of the last
\* transition, which EndStamped shows to be that of the end.
THEOREM HandlesRetained == Spec => HandleRetention
<1>1. TypeOK /\ EndStamped /\ [Next]_vars =>
        [ /\ submissions \ submissions' \subseteq Outdated
          /\ (\E w \in Workers : Accepts(w) \/ Opens(w)) => submissions' \cap Outdated = {} ]_vars
  <2> SUFFICES ASSUME TypeOK, EndStamped, [Next]_vars
               PROVE  [ /\ submissions \ submissions' \subseteq Outdated
                        /\ (\E w \in Workers : Accepts(w) \/ Opens(w)) => submissions' \cap Outdated = {} ]_vars
    OBVIOUS
  <2>1. Outdated = {s \in submissions : s.op \in Expired}
    BY DEF Outdated, Expired, EndStamped, TypeOK, Submissions
  <2>2. CASE PurgeTerminalOperations
    BY <2>1, <2>2 DEF PurgeTerminalOperations
  <2>3. CASE /\ submissions \subseteq submissions'
             /\ \A w \in Workers : ~Accepts(w) /\ ~Opens(w)
    BY <2>3
  <2>4. ASSUME NEW w \in Workers, Submit(w)
        PROVE  submissions \subseteq submissions' /\ \A v \in Workers : ~Accepts(v) /\ ~Opens(v)
    BY <2>4 DEF Submit, SubmitReplay, SubmitJoin, SubmitCreate, SubmitRefused, EndSubmit, Attach, Accepts,
                Opens, TypeOK, store
  <2>5. ASSUME NEW w \in Workers, Run(w) \/ Start(w) \/ Crash(w)
        PROVE  submissions \subseteq submissions' /\ \A v \in Workers : ~Accepts(v) /\ ~Opens(v)
    BY <2>5 DEF Run, Claim, SetProgress, Finish, Settle, FinishRefused, StorageFault, ThreadDies, Start,
                RecoverInterruptedOperations, Crash, Accepts, Opens, TypeOK, store
  <2>6. CASE Tick \/ UNCHANGED vars
    BY <2>6 DEF Tick, Accepts, Opens, vars, store
  <2>7. QED
    BY <2>2, <2>3, <2>4, <2>5, <2>6 DEF Next, Lifecycle, BeginSubmit, Ready
<1>2. Init => EndStamped
  BY DEF Init, EndStamped, Terminal
<1>3. QED
  BY <1>1, <1>2, TypeCorrect, EndStampedStep, PTL DEF Spec, HandleRetention

\* A set of rows is finite, and a subset of it is no larger.
LEMMA RowsFinite ==
    ASSUME NEW S \in SUBSET Ops
    PROVE  /\ IsFiniteSet(S) /\ Cardinality(S) \in Nat
           /\ \A T \in SUBSET S : Cardinality(T) <= Cardinality(S)
<1>1. IsFiniteSet(Ops)
  BY JobQueueAssumption, FS_Interval DEF Ops
<1>2. IsFiniteSet(S)
  BY <1>1, FS_Subset
<1>3. QED
  BY <1>2, FS_Subset, FS_CardinalityType

\* The limit of the queue holds also when recovery puts rows back, since those
\* were counted while they ran: QueueBounded of JobQueue.
THEOREM Bounded == Spec => []QueueBounded
<1> USE JobQueueAssumption
<1>1. Init => QueueBounded
  <2> SUFFICES ASSUME Init PROVE QueueBounded
    OBVIOUS
  <2>1. InState(Active) = {}
    BY DEF Init, InState, Active
  <2>2. QED
    BY <2>1, FS_EmptySet DEF QueueBounded
<1>2. TypeOK /\ TypeOK' /\ OrderInv /\ QueueBounded /\ [Next]_vars => QueueBounded'
  <2> SUFFICES ASSUME TypeOK, OrderInv, QueueBounded, [Next]_vars PROVE QueueBounded'
    OBVIOUS
  <2> DEFINE Before == InState(Active)
             After == {o \in Ops : state'[o] \in Active}
  <2>1. Before \in SUBSET Ops /\ After \in SUBSET Ops /\ After = InState(Active)'
    BY DEF InState, Ops, Active
  <2>2. Cardinality(Before) \in Nat /\ Cardinality(Before) <= MaxActive /\ IsFiniteSet(Before)
    BY <2>1, RowsFinite DEF QueueBounded
  <2>3. CASE After \subseteq Before
    <3>1. Cardinality(After) <= Cardinality(Before)
      BY <2>1, <2>3, RowsFinite
    <3>2. Cardinality(After) \in Nat
      BY <2>1, RowsFinite
    <3>3. QED
      BY <2>1, <2>2, <3>1, <3>2 DEF QueueBounded
  <2>4. CASE ~(After \subseteq Before)
    <3>1. PICK o \in Ops : state'[o] \in Active /\ state[o] \notin Active
      BY <2>4 DEF InState
    <3>2. /\ Cardinality(Before) < MaxActive
          /\ \A p \in Ops : p # o => state'[p] = state[p]
      BY <3>1, StateStep DEF Active, Terminal
    <3>3. After = Before \cup {o} /\ o \notin Before
      BY <3>1, <3>2 DEF InState
    <3>4. Cardinality(After) = Cardinality(Before) + 1
      BY <2>2, <3>3, FS_AddElement
    <3>5. QED
      BY <2>1, <2>2, <3>2, <3>4 DEF QueueBounded
  <2>5. QED
    BY <2>3, <2>4
<1>3. QED
  BY <1>1, <1>2, TypeCorrect, OrderInvariant, PTL DEF Spec

-----------------------------------------------------------------------------
(* The runner of a single process.                                         *)

\* A step that leaves the running rows, the phases and the tasks alone.
LEMMA RunningUnchanged ==
    ASSUME TypeOK, OrderInv, RunnerOwnsRunning, UNCHANGED <<phase, task>>,
           \A o \in Ops : state[o] = "running" <=> state'[o] = "running"
    PROVE  RunnerOwnsRunning'
<1>1. \A w \in Workers : phase[w] = "busy" => task[w] \in Ops
  BY DEF OrderInv, TaskIsOldest
<1>2. InState({"running"})' = InState({"running"})
  BY DEF InState
<1>3. QED
  BY <1>1, <1>2 DEF RunnerOwnsRunning

\* With one process on the database, a RUNNING row is always the one its
\* runner holds, or the process is down or dead: RunnerOwnsRunning of JobQueue,
\* which the deployment of one worker per database relies on.
THEOREM OneProcessOwns ==
    ASSUME NEW only, Workers = {only}
    PROVE  Spec => []RunnerOwnsRunning
<1> USE JobQueueAssumption, NoRequestAssumption
<1>1. Init => RunnerOwnsRunning
  BY DEF Init, RunnerOwnsRunning, InState
<1>2. TypeOK /\ OrderInv /\ RunnerOwnsRunning /\ [Next]_vars => RunnerOwnsRunning'
  <2> SUFFICES ASSUME TypeOK, OrderInv, RunnerOwnsRunning, [Next]_vars
               PROVE  RunnerOwnsRunning'
    OBVIOUS
  <2>1. CASE Tick
    BY <2>1, RunningUnchanged DEF Tick, store
  <2>2. ASSUME NEW w \in Workers, NEW call \in Calls, BeginSubmit(w, call)
        PROVE  RunnerOwnsRunning'
    BY <2>2, RunningUnchanged DEF BeginSubmit, PurgeTerminalOperations, Expired, Terminal
  <2>3. ASSUME NEW w \in Workers, SubmitReplay(w) \/ SubmitJoin(w) \/ SubmitRefused(w)
        PROVE  RunnerOwnsRunning'
    BY <2>3, RunningUnchanged DEF SubmitReplay, SubmitJoin, SubmitRefused, EndSubmit, store
  <2>4. ASSUME NEW w \in Workers, SubmitCreate(w) PROVE RunnerOwnsRunning'
    <3>1. /\ created + 1 \in Ops /\ state[created + 1] = "absent"
          /\ state' = [state EXCEPT ![created + 1] = "queued"]
          /\ UNCHANGED <<phase, task>>
      BY <2>4 DEF SubmitCreate, EndSubmit, TypeOK, Ops, OrderInv, RowsNumbered
    <3>2. QED
      BY <3>1, RunningUnchanged DEF TypeOK
  <2>5. ASSUME NEW w \in Workers, Claim(w) PROVE RunnerOwnsRunning'
    <3>1. PICK o \in Ops : state' = [state EXCEPT ![o] = "running"]
                           /\ task' = [task EXCEPT ![w] = o]
      BY <2>5 DEF Claim, InState
    <3>2. \A v \in Workers : v = w
      OBVIOUS
    <3>3. QED
      BY <2>5, <3>1, <3>2 DEF Claim, TypeOK, RunnerOwnsRunning, InState
  <2>6. ASSUME NEW w \in Workers, SetProgress(w) PROVE RunnerOwnsRunning'
    BY <2>6, RunningUnchanged DEF SetProgress
  <2>7. ASSUME NEW w \in Workers, NEW outcome \in Terminal, Finish(w, outcome)
        PROVE  RunnerOwnsRunning'
    <3>1. /\ phase[w] = "busy" /\ task[w] \in Ops /\ state[task[w]] = "running"
          /\ state' = [state EXCEPT ![task[w]] = outcome]
          /\ phase' = [phase EXCEPT ![w] = "idle"]
      BY <2>7 DEF Finish, Settle, RunnerOwnsRunning, OrderInv, TaskIsOldest
    <3>2. \A p \in Ops : state[p] = "running" => p = task[w]
      BY <3>1 DEF OrderInv, OneRunning, InState
    <3>3. \A v \in Workers : v = w
      OBVIOUS
    <3>4. QED
      BY <3>1, <3>2, <3>3 DEF TypeOK, RunnerOwnsRunning, InState, Terminal
  <2>8. ASSUME NEW w \in Workers, FinishRefused(w) \/ StorageFault(w)
        PROVE  RunnerOwnsRunning'
    <3>1. \A v \in Workers : v = w
      OBVIOUS
    <3>2. QED
      BY <2>8, <3>1
         DEF FinishRefused, StorageFault, ThreadDies, TypeOK, RunnerOwnsRunning, InState, store
  <2>9. ASSUME NEW w \in Workers, Start(w) PROVE RunnerOwnsRunning'
    <3>1. \A o \in Ops : state'[o] # "running"
      BY <2>9, RecoverRows DEF Start
    <3>2. \A v \in Workers : v = w
      OBVIOUS
    <3>3. QED
      BY <2>9, <3>1, <3>2 DEF Start, TypeOK, RunnerOwnsRunning, InState
  <2>10. ASSUME NEW w \in Workers, Ready(w) PROVE RunnerOwnsRunning'
    <3>1. \A o \in Ops : state'[o] = "running" => state[o] = "running"
      BY <2>10 DEF Ready, PurgeTerminalOperations
    <3>2. \A v \in Workers : v = w
      OBVIOUS
    <3>3. QED
      BY <2>10, <3>1, <3>2 DEF Ready, TypeOK, RunnerOwnsRunning, InState
  <2>11. ASSUME NEW w \in Workers, Crash(w) PROVE RunnerOwnsRunning'
    <3>1. \A v \in Workers : v = w
      OBVIOUS
    <3>2. QED
      BY <2>11, <3>1 DEF Crash, TypeOK, RunnerOwnsRunning, InState, store
  <2>12. CASE UNCHANGED vars
    BY <2>12, RunningUnchanged DEF vars, store
  <2>13. QED
    BY <2>1, <2>2, <2>3, <2>4, <2>5, <2>6, <2>7, <2>8, <2>9, <2>10, <2>11, <2>12
       DEF Next, Submit, Run, Lifecycle
<1>3. QED
  BY <1>1, <1>2, TypeCorrect, OrderInvariant, PTL DEF Spec

-----------------------------------------------------------------------------
(* The contract with the callers.                                          *)

\* The handle is in the submissions table.
Held(h) == \E s \in submissions : s.actor = h.actor /\ s.key = h.key /\ s.op = h.op

\* What GET /jobs/{id} answers before and after a step.
LEMMA Answers ==
    ASSUME NEW h \in Handles
    PROVE  /\ HandleStatus[h] = IF Held(h) THEN state[h.op] ELSE "none"
           /\ HandleStatus'[h] = IF Held(h)' THEN state'[h.op] ELSE "none"
  BY DEF HandleStatus, Held

\* A row of the submissions table is a handle that is held.
LEMMA RowIsHandle ==
    ASSUME TypeOK, NEW s \in submissions
    PROVE  LET h == [actor |-> s.actor, key |-> s.key, op |-> s.op]
           IN  h \in Handles /\ Held(h) /\ h.op = s.op
  BY DEF TypeOK, Submissions, Handles, Held

\* A step of the contract, told handle by handle.
LEMMA Moves ==
    ASSUME NEW H \in SUBSET Handles, NEW v,
           \A h \in Handles : HandleStatus'[h] = IF h \in H THEN v ELSE HandleStatus[h]
    PROVE  Contract!MoveTo(H, v)
<1>1. HandleStatus' = [h \in Handles |-> IF h \in H THEN v ELSE HandleStatus[h]]
  BY DEF HandleStatus
<1>2. QED
  BY <1>1 DEF Contract!MoveTo

\* Steps that callers cannot see.
LEMMA Unseen ==
    ASSUME \A h \in Handles : HandleStatus'[h] = HandleStatus[h]
    PROVE  UNCHANGED HandleStatus
  BY DEF HandleStatus

\* The handles that read RUNNING are those of the one running row.
LEMMA RunningHandles ==
    ASSUME TypeOK, OneRunning, HandlesMatchRows, NEW o \in Ops, state[o] = "running"
    PROVE  /\ Contract!Having({"running"}) = {h \in Handles : Held(h) /\ h.op = o}
           /\ Contract!Having({"running"}) # {}
<1>1. \A h \in Handles : HandleStatus[h] = "running" <=> Held(h) /\ h.op = o
  BY Answers DEF OneRunning, InState, Handles
<1>2. PICK s \in submissions : s.op = o
  BY DEF HandlesMatchRows
<1>3. QED
  BY <1>1, <1>2, RowIsHandle DEF Contract!Having

\* Purging is forgetting, when there is something to forget.
LEMMA PurgeForgets ==
    ASSUME TypeOK, HandlesMatchRows, PurgeTerminalOperations
    PROVE  \/ \E H \in SUBSET Handles : Contract!Forget(H)
           \/ UNCHANGED HandleStatus
<1> DEFINE H == {h \in Handles : Held(h) /\ h.op \in Expired}
<1>1. /\ \A o \in Ops : state'[o] = IF o \in Expired THEN "purged" ELSE state[o]
      /\ submissions' = {s \in submissions : s.op \notin Expired}
  BY DEF PurgeTerminalOperations
<1>2. \A h \in Handles : Held(h)' <=> Held(h) /\ h.op \notin Expired
  BY <1>1 DEF Held
<1>3. \A h \in Handles : HandleStatus'[h] = IF h \in H THEN "none" ELSE HandleStatus[h]
  BY <1>1, <1>2, Answers DEF Handles
<1>4. H \subseteq Contract!Having(Contract!Ended)
  BY Answers DEF Expired, Terminal, Contract!Having, Contract!Ended
<1>5. CASE H = {}
  BY <1>3, <1>5, Unseen
<1>6. CASE H # {}
  <2>1. Contract!MoveTo(H, "none")
    BY <1>3, Moves
  <2>2. QED
    BY <1>4, <1>6, <2>1 DEF Contract!Forget
<1>7. QED
  BY <1>5, <1>6

\* Recovery puts running jobs back or ends them as failed.
LEMMA RecoveryInterrupts ==
    ASSUME TypeOK, OneRunning, HandlesMatchRows, RecoverInterruptedOperations
    PROVE  \/ Contract!Interrupt
           \/ Contract!End("failed")
           \/ UNCHANGED HandleStatus
<1>1. submissions' = submissions
  BY DEF RecoverInterruptedOperations
<1>2. \A h \in Handles : Held(h)' <=> Held(h)
  BY <1>1 DEF Held
<1>3. \A h \in Handles : h.op \in Ops
  BY DEF Handles
<1>4. CASE \A o \in Ops : state[o] # "running"
  <2>1. \A h \in Handles : HandleStatus'[h] = HandleStatus[h]
    BY <1>2, <1>3, <1>4, Answers, RecoverRows
  <2>2. QED
    BY <2>1, Unseen
<1>5. CASE \E o \in Ops : state[o] = "running"
  <2>1. PICK o \in Ops : state[o] = "running"
    BY <1>5
  <2>2. PICK v \in {"queued", "failed"} : state'[o] = v
    BY <2>1, RecoverRows
  <2>3. \A p \in Ops : p # o => state'[p] = state[p]
    BY <2>1, RecoverRows DEF OneRunning, InState
  <2> DEFINE H == {h \in Handles : Held(h) /\ h.op = o}
  <2>4. \A h \in Handles : HandleStatus'[h] = IF h \in H THEN v ELSE HandleStatus[h]
    BY <1>2, <1>3, <2>2, <2>3, Answers
  <2>5. Contract!MoveTo(H, v)
    BY <2>4, Moves
  <2>6. H = Contract!Having({"running"}) /\ H # {}
    BY <2>1, RunningHandles
  <2> HIDE DEF H
  <2>7. QED
    BY <2>2, <2>5, <2>6 DEF Contract!Interrupt, Contract!End
<1>6. QED
  BY <1>4, <1>5

\* A submission that joins live work, or starts its own, is accepted.
LEMMA SubmissionAccepted ==
    ASSUME TypeOK, OrderInv, TableInv, NEW w \in Workers, SubmitJoin(w) \/ SubmitCreate(w)
    PROVE  \E h \in Handles : Contract!Accept(h)
<1> USE JobQueueAssumption, NoRequestAssumption
<1>1. pending[w] \in Calls /\ Replayed(pending[w]) = {}
  BY DEF SubmitJoin, SubmitCreate, EndSubmit, TypeOK
<1>2. PICK o \in Ops :
        /\ Attach(pending[w], o)
        /\ \A p \in Ops : p # o => state'[p] = state[p]
        /\ \/ state'[o] = "queued"
           \/ state[o] = "running" /\ state'[o] = "running"
  <2>1. CASE SubmitJoin(w)
    <3>1. PICK o \in Duplicates(pending[w]) : Attach(pending[w], o)
      BY <2>1 DEF SubmitJoin
    <3>2. o \in Ops /\ state[o] \in Active
      BY <1>1, <3>1 DEF Duplicates, TableInv, LiveDedupe, Calls
    <3>3. QED
      BY <2>1, <3>1, <3>2 DEF SubmitJoin, Active
  <2>2. CASE SubmitCreate(w)
    <3>1. created + 1 \in Ops
      BY <2>2 DEF SubmitCreate, TypeOK, Ops
    <3>2. QED
      BY <2>2, <3>1 DEF SubmitCreate, TypeOK
  <2>3. QED
    BY <2>1, <2>2
<1> DEFINE new == [actor |-> pending[w].actor, key |-> pending[w].key, op |-> o]
<1>3. new \in Handles
  BY <1>1 DEF Handles, Calls
<1>4. \A h \in Handles : Held(h)' <=> Held(h) \/ h = new
  <2>1. \A h \in Handles :
          h = new <=> h.actor = new.actor /\ h.key = new.key /\ h.op = new.op
    BY <1>3 DEF Handles
  <2> DEFINE row == [actor |-> pending[w].actor, key |-> pending[w].key,
                     request |-> pending[w].request, op |-> o]
  <2>2. /\ submissions' = submissions \cup {row}
        /\ row.actor = new.actor /\ row.key = new.key /\ row.op = new.op
    BY <1>2 DEF Attach
  <2> HIDE DEF new, row
  <2>3. QED
    BY <2>1, <2>2 DEF Held
<1>5. ~Held(new)
  BY <1>1 DEF Held, Replayed
<1>6. \A h \in Handles : Held(h) => state'[h.op] = state[h.op]
  <2> SUFFICES ASSUME NEW h \in Handles, Held(h) PROVE state'[h.op] = state[h.op]
    OBVIOUS
  <2>1. CASE SubmitJoin(w)
    BY <2>1 DEF SubmitJoin
  <2>2. CASE SubmitCreate(w)
    <3>1. state[created + 1] = "absent"
      BY <2>2 DEF SubmitCreate, OrderInv, RowsNumbered, TypeOK, Ops
    <3>2. state[h.op] # "absent"
      BY DEF Held, TableInv, HandlesMatchRows
    <3>3. QED
      BY <2>2, <3>1, <3>2 DEF SubmitCreate, TypeOK, Handles
  <2>3. QED
    BY <2>1, <2>2
<1>7. \A h \in Handles : HandleStatus'[h] = IF h \in {new} THEN state'[o] ELSE HandleStatus[h]
  <2>1. new.op = o
    OBVIOUS
  <2> HIDE DEF new
  <2>2. QED
    BY <1>3, <1>4, <1>5, <1>6, <2>1, Answers
<1>8. Contract!MoveTo({new}, state'[o])
  BY <1>3, <1>7, Moves
<1>9. HandleStatus[new] = "none"
  BY <1>3, <1>5, Answers
<1>10. state[o] = "running" => Contract!Having({"running"}) # {}
  BY RunningHandles DEF OrderInv, TableInv
<1> HIDE DEF new
<1>11. Contract!Accept(new)
  BY <1>2, <1>8, <1>9, <1>10 DEF Contract!Accept
<1>12. QED
  BY <1>3, <1>11

\* Claiming an operation starts all the jobs that share it.
LEMMA ClaimBegins ==
    ASSUME TypeOK, TableInv, NEW w \in Workers, Claim(w)
    PROVE  \E H \in SUBSET Handles : Contract!Begin(H)
<1>1. PICK o \in Ops : /\ state[o] = "queued" /\ state' = [state EXCEPT ![o] = "running"]
                       /\ \E s \in submissions : s.op = o
  BY DEF Claim, InState
<1>2. submissions' = submissions /\ \A p \in Ops : state[p] # "running"
  BY DEF Claim, EnvironmentFree, InState
<1> DEFINE H == {h \in Handles : Held(h) /\ h.op = o}
<1>3. \A h \in Handles : (Held(h)' <=> Held(h)) /\ h.op \in Ops
  BY <1>2 DEF Held, Handles
<1>4. \A h \in Handles : HandleStatus'[h] = IF h \in H THEN "running" ELSE HandleStatus[h]
  BY <1>1, <1>3, Answers DEF TypeOK
<1>5. H # {}
  BY <1>1, RowIsHandle
<1>6. Contract!Having({"running"}) = {}
  BY <1>2, <1>3, Answers DEF Contract!Having
<1>7. H \subseteq Contract!Having({"queued"})
  BY <1>1, Answers DEF Contract!Having
<1>8. Contract!MoveTo(H, "running")
  BY <1>4, Moves
<1> HIDE DEF H
<1>9. Contract!Begin(H)
  BY <1>5, <1>6, <1>7, <1>8 DEF Contract!Begin
<1>10. H \in SUBSET Handles
  BY DEF H
<1>11. QED
  BY <1>9, <1>10

\* The runner ends what is running.
LEMMA FinishEnds ==
    ASSUME TypeOK, OrderInv, TableInv, RunnerOwnsRunning,
           NEW w \in Workers, NEW outcome \in Terminal, Finish(w, outcome)
    PROVE  Contract!End(outcome)
<1> DEFINE o == task[w]
<1>1. o \in Ops /\ state[o] = "running"
  BY DEF Finish, OrderInv, TaskIsOldest, RunnerOwnsRunning
<1>2. state' = [state EXCEPT ![o] = outcome] /\ submissions' = submissions
  BY DEF Finish, Settle
<1> DEFINE H == {h \in Handles : Held(h) /\ h.op = o}
<1> HIDE DEF o
<1>3. \A h \in Handles : (Held(h)' <=> Held(h)) /\ h.op \in Ops
  BY <1>2 DEF Held, Handles
<1>4. \A h \in Handles : HandleStatus'[h] = IF h \in H THEN outcome ELSE HandleStatus[h]
  BY <1>1, <1>2, <1>3, Answers DEF TypeOK
<1>5. Contract!MoveTo(H, outcome)
  BY <1>4, Moves
<1>6. H = Contract!Having({"running"}) /\ H # {}
  BY <1>1, RunningHandles DEF OrderInv, TableInv
<1> HIDE DEF H
<1>7. QED
  BY <1>5, <1>6 DEF Contract!End

\* Every step of a single process is a step of the contract or invisible.
LEMMA ContractStep ==
    ASSUME TypeOK, OrderInv, TableInv, RunnerOwnsRunning, [Next]_vars
    PROVE  [Contract!ContractNext]_HandleStatus
<1>1. ASSUME PurgeTerminalOperations PROVE [Contract!ContractNext]_HandleStatus
  BY <1>1, PurgeForgets DEF TableInv, Contract!ContractNext
<1>2. ASSUME NEW w \in Workers, SubmitJoin(w) \/ SubmitCreate(w)
      PROVE  Contract!ContractNext
  BY <1>2, SubmissionAccepted DEF Contract!ContractNext
<1>3. ASSUME NEW w \in Workers, Claim(w) PROVE Contract!ContractNext
  BY <1>3, ClaimBegins DEF Contract!ContractNext
<1>4. ASSUME NEW w \in Workers, NEW outcome \in Terminal, Finish(w, outcome)
      PROVE  Contract!ContractNext
  BY <1>4, FinishEnds DEF Contract!ContractNext, Contract!Ended, Terminal
<1>5. ASSUME NEW w \in Workers, Start(w) PROVE [Contract!ContractNext]_HandleStatus
  <2>1. RecoverInterruptedOperations
    BY <1>5 DEF Start
  <2>2. QED
    BY <2>1, RecoveryInterrupts
       DEF OrderInv, TableInv, Contract!ContractNext, Contract!Ended
<1>6. ASSUME UNCHANGED <<state, submissions>> PROVE UNCHANGED HandleStatus
  BY <1>6 DEF HandleStatus
<1>7. QED
  BY <1>1, <1>2, <1>3, <1>4, <1>5, <1>6
     DEF Next, Submit, Run, Lifecycle, BeginSubmit, SubmitReplay, SubmitRefused, SetProgress,
         FinishRefused, StorageFault, ThreadDies, Ready, Crash, Tick, vars, store

\* A worker that runs as one process keeps the contract of JobView with its
\* callers, as a refinement: every step of the queue is a step of JobContract
\* for the handles, or changes none of them.
THEOREM KeepsContract ==
    ASSUME NEW only, Workers = {only}
    PROVE  Spec => ImplementsContract
<1>1. Init => Contract!ContractInit
  BY DEF Init, Contract!ContractInit, HandleStatus
<1>2. TypeOK /\ OrderInv /\ TableInv /\ RunnerOwnsRunning /\ [Next]_vars
        => [Contract!ContractNext]_HandleStatus
  BY ContractStep
<1>3. Spec => []RunnerOwnsRunning
  BY OneProcessOwns
<1>4. QED
  BY <1>1, <1>2, <1>3, TypeCorrect, OrderInvariant, TableInvariant, PTL
     DEF Spec, ImplementsContract, Contract!ContractSpec
=============================================================================
