-------------------------- MODULE GatewaySyncProofs --------------------------
(***************************************************************************)
(* For any users, batches and settings of the worker: types, and that a    *)
(* preparation whose own work made the document hands it to the rebuild.   *)
(***************************************************************************)
EXTENDS GatewaySync, TLAPS

USE GatewaySyncAssumption DEF GatewaySyncAssumption

-----------------------------------------------------------------------------
(* Types of the queue, the ages and the job table.                         *)

NoRepeat(q) == \A i, j \in DOMAIN q : q[i] = q[j] => i = j

\* Joining a live operation, or a new one at the end, repeats nothing.
LEMMA EnqueueType ==
    ASSUME queue \in Seq(Ingests \cup {Rebuild}), NoRepeat(queue),
           NEW k \in Ingests \cup {Rebuild}
    PROVE  Enqueue(k) \in Seq(Ingests \cup {Rebuild}) /\ NoRepeat(Enqueue(k))
<1>1. CASE \E i \in DOMAIN queue : queue[i] = k
    BY <1>1 DEF Enqueue
<1>2. CASE ~\E i \in DOMAIN queue : queue[i] = k
    <2>1. Enqueue(k) = Append(queue, k)
        BY <1>2 DEF Enqueue
    <2>2. /\ Append(queue, k) \in Seq(Ingests \cup {Rebuild})
          /\ DOMAIN Append(queue, k) = 1..Len(queue) + 1
          /\ \A i \in 1..Len(queue) : Append(queue, k)[i] = queue[i]
          /\ Append(queue, k)[Len(queue) + 1] = k
          /\ DOMAIN queue = 1..Len(queue)
        OBVIOUS
    <2> QED BY <1>2, <2>1, <2>2 DEF NoRepeat
<1> QED BY <1>1, <1>2

\* Taking the head repeats nothing either.
LEMMA TailType ==
    ASSUME queue \in Seq(Ingests \cup {Rebuild}), NoRepeat(queue), queue # <<>>
    PROVE  /\ Tail(queue) \in Seq(Ingests \cup {Rebuild}) /\ NoRepeat(Tail(queue))
           /\ Head(queue) \in Ingests \cup {Rebuild}
<1>1. /\ Tail(queue) \in Seq(Ingests \cup {Rebuild}) /\ Len(queue) \in Nat \ {0}
      /\ DOMAIN queue = 1..Len(queue)
      /\ DOMAIN Tail(queue) = 1..Len(queue) - 1
      /\ \A i \in 1..Len(queue) - 1 : Tail(queue)[i] = queue[i + 1]
      /\ Head(queue) = queue[1]
    OBVIOUS
<1>2. NoRepeat(Tail(queue))
    BY <1>1 DEF NoRepeat
<1> QED BY <1>1, <1>2

\* An age stops one past its limit.
LEMMA OlderType ==
    ASSUME NEW limit \in Nat, limit <= Retention, NEW age \in Ages
    PROVE  Older(limit, age) \in Ages
BY DEF Older, Ages

HandleStates == {"none", "live", "succeeded", "failed"}

\* Purging withdraws handles and does nothing else to them.
LEMMA KeptType ==
    ASSUME TypeOK
    PROVE  /\ Kept \in [Users -> [Ingests -> HandleStates]]
           /\ KeptAges \in [Users -> [Ingests -> Ages]]
           /\ \A u \in Users, k \in Ingests : Kept[u][k] \in {"none", handle[u][k]}
BY DEF TypeOK, Kept, KeptAges, HandleStates, Ages

\* What the end of an operation does to queue, handles and preparations.
LEMMA ConcludeType ==
    ASSUME TypeOK, queue # <<>>, NEW outcome \in {"succeeded", "failed"}, Conclude(outcome)
    PROVE  /\ handle' \in [Users -> [Ingests -> HandleStates]]
           /\ fresh' \in [Users -> BOOLEAN]
           /\ queue' \in Seq(Ingests \cup {Rebuild}) /\ NoRepeat(queue')
           /\ UNCHANGED <<ended, pc, at, spent>>
<1>1. NoRepeat(queue) /\ queue \in Seq(Ingests \cup {Rebuild})
    BY DEF TypeOK, NoRepeat
<1>2. queue' = Tail(queue) /\ UNCHANGED <<ended, pc, at, spent>>
    BY DEF Conclude
<1>3. handle' \in [Users -> [Ingests -> HandleStates]]
    BY DEF Conclude, TypeOK, HandleStates
<1>4. fresh' \in [Users -> BOOLEAN]
    BY DEF Conclude, TypeOK
<1> QED BY <1>1, <1>2, <1>3, <1>4, TailType

\* Answering a request resets what is remembered of it.
LEMMA ReturnType ==
    ASSUME TypeOK, NEW u \in Users, Return(u)
    PROVE  /\ pc' \in [Users -> {"idle", "submitting", "waiting", "prepared", "failed"}]
           /\ at' \in [Users -> Ingests \cup {0}] /\ \A v \in Underway' : at'[v] \in Ingests
           /\ spent' \in [Users -> 0..Timeout]
           /\ fresh' \in [Users -> BOOLEAN]
BY DEF Return, TypeOK, Underway

\* Every step keeps the types.
LEMMA TypeStep == TypeOK /\ [Next]_vars => TypeOK'
<1> SUFFICES ASSUME TypeOK, [Next]_vars PROVE TypeOK'
    OBVIOUS
<1> USE DEF preparation, jobs, data
<1>1. ASSUME NEW u \in Users, Begin(u) PROVE TypeOK'
    <2>1. 1 \in Ingests
        BY DEF Ingests, Numbers, Finalize
    <2> QED BY <1>1, <2>1 DEF Begin, TypeOK, Underway
<1>2. ASSUME NEW u \in Users, SubmitNew(u) PROVE TypeOK'
    <2>1. at[u] \in Ingests
        BY <1>2 DEF SubmitNew, TypeOK, Underway
    <2>2. queue' \in Seq(Ingests \cup {Rebuild}) /\ NoRepeat(queue')
        BY <1>2, <2>1, EnqueueType DEF SubmitNew, TypeOK, NoRepeat
    <2>3. handle' \in [Users -> [Ingests -> HandleStates]] /\ ended' \in [Users -> [Ingests -> Ages]]
        BY <1>2, <2>1, KeptType DEF SubmitNew, HandleStates
    <2>4. pc' \in [Users -> {"idle", "submitting", "waiting", "prepared", "failed"}]
        BY <1>2 DEF SubmitNew, TypeOK
    <2> QED BY <1>2, <2>2, <2>3, <2>4 DEF SubmitNew, TypeOK, Underway, NoRepeat, HandleStates
<1>3. ASSUME NEW u \in Users, SubmitReplayed(u) PROVE TypeOK'
    <2>1. handle' \in [Users -> [Ingests -> HandleStates]] /\ ended' \in [Users -> [Ingests -> Ages]]
        BY <1>3, KeptType DEF SubmitReplayed
    <2>2. pc' \in [Users -> {"idle", "submitting", "waiting", "prepared", "failed"}]
        BY <1>3 DEF SubmitReplayed, TypeOK
    <2>3. fresh' \in [Users -> BOOLEAN]
        BY <1>3 DEF SubmitReplayed, TypeOK
    <2> QED BY <1>3, <2>1, <2>2, <2>3 DEF SubmitReplayed, TypeOK, Underway, HandleStates
<1>4. ASSUME NEW u \in Users, Advance(u) PROVE TypeOK'
    <2>0. at[u] \in Ingests
        BY <1>4 DEF Advance, TypeOK, Underway
    <2>1. at[u] # Finalize => at[u] + 1 \in Ingests
        BY <2>0 DEF Ingests, Numbers, Finalize
    <2>2. at' \in [Users -> Ingests \cup {0}] /\ \A v \in Underway' : at'[v] \in Ingests
        <3>1. CASE at[u] = Finalize
            BY <1>4, <3>1 DEF Advance, TypeOK, Underway
        <3>2. CASE at[u] # Finalize
            <4>1. /\ at' = [at EXCEPT ![u] = at[u] + 1] /\ at[u] + 1 \in Ingests
                  /\ \A v \in Users \ {u} : pc'[v] = pc[v]
                BY <1>4, <2>1, <3>2 DEF Advance, TypeOK
            <4> QED BY <4>1 DEF TypeOK, Underway
        <3> QED BY <3>1, <3>2
    <2>3. pc' \in [Users -> {"idle", "submitting", "waiting", "prepared", "failed"}]
        BY <1>4 DEF Advance, TypeOK
    <2> QED BY <1>4, <2>2, <2>3 DEF Advance, TypeOK
<1>5. ASSUME NEW u \in Users, Fail(u) PROVE TypeOK'
    BY <1>5 DEF Fail, TypeOK, Underway
<1>6. ASSUME NEW u \in Users, GiveUp(u) \/ Report(u) PROVE TypeOK'
    BY <1>6, ReturnType DEF GiveUp, Report, TypeOK
<1>7. ASSUME NEW u \in Users, SubmitRebuild(u) PROVE TypeOK'
    <2>1. queue' \in Seq(Ingests \cup {Rebuild}) /\ NoRepeat(queue')
        BY <1>7, EnqueueType DEF SubmitRebuild, TypeOK, NoRepeat
    <2>2. handle' \in [Users -> [Ingests -> HandleStates]] /\ ended' \in [Users -> [Ingests -> Ages]]
        BY <1>7, KeptType DEF SubmitRebuild
    <2> QED BY <1>7, <2>1, <2>2, ReturnType DEF SubmitRebuild, TypeOK, NoRepeat, HandleStates
<1>8. CASE RunBatch
    <2>1. staged' \subseteq Numbers /\ stagedAge' \in Ages
        BY <1>8 DEF RunBatch, TypeOK, Ages
    <2> QED BY <1>8, <2>1, ConcludeType DEF RunBatch, TypeOK, Underway, NoRepeat, HandleStates
<1>9. CASE RunFinalize
    <2>1. staged' \subseteq Numbers /\ stagedAge' \in Ages /\ finalAge' \in Ages /\ final' \in BOOLEAN
        BY <1>9 DEF RunFinalize, TypeOK, Ages
    <2> QED BY <1>9, <2>1, ConcludeType DEF RunFinalize, TypeOK, Underway, NoRepeat, HandleStates
<1>10. CASE RunFinalizeIncomplete \/ RefuseIngest
    BY <1>10, ConcludeType DEF RunFinalizeIncomplete, RefuseIngest, TypeOK, Underway, NoRepeat, HandleStates
<1>11. CASE RunRebuild
    <2>0. 0 \in Ages
        BY DEF Ages
    <2>1. index' \in BOOLEAN /\ indexAge' \in Ages
        BY <1>11, <2>0 DEF RunRebuild, TypeOK
    <2> QED BY <1>11, <2>1, ConcludeType DEF RunRebuild, TypeOK, Underway, NoRepeat, HandleStates
<1>12. CASE Maintain
    <2>1. staged' \subseteq Numbers /\ stagedAge' \in Ages /\ finalAge' \in Ages /\ indexAge' \in Ages
        BY <1>12 DEF Maintain, TypeOK, Ages
    <2>2. final' \in BOOLEAN /\ index' \in BOOLEAN /\ maintained' \in BOOLEAN
        BY <1>12 DEF Maintain, TypeOK
    <2> QED BY <1>12, <2>1, <2>2 DEF Maintain, TypeOK, Underway
<1>13. CASE Tick
    <2>1. spent' \in [Users -> 0..Timeout]
        BY <1>13 DEF Tick, TypeOK
    <2>0. 0 \in Ages /\ \A a \in Ages : Older(Grace, a) \in Ages /\ Older(Retention, a) \in Ages
        BY OlderType DEF Ages
    <2>2. ended' \in [Users -> [Ingests -> Ages]]
        BY <1>13, <2>0 DEF Tick, TypeOK
    <2>3. stagedAge' \in Ages /\ finalAge' \in Ages /\ indexAge' \in Ages
        BY <1>13, <2>0 DEF Tick, TypeOK
    <2> QED BY <1>13, <2>1, <2>2, <2>3 DEF Tick, TypeOK, Underway
<1>14. CASE UNCHANGED vars
    BY <1>14 DEF vars, TypeOK, Underway
<1> QED
    BY <1>1, <1>2, <1>3, <1>4, <1>5, <1>6, <1>7, <1>8, <1>9, <1>10, <1>11, <1>12, <1>13, <1>14
    DEF Next, Follow, Execute

\* The queue is empty and nothing has an age.
LEMMA InitType == Init => TypeOK
<1>1. 0 \in Ages /\ 0 \in 0..Timeout
    BY DEF Ages
<1>2. <<>> \in Seq(Ingests \cup {Rebuild}) /\ DOMAIN <<>> = {}
    OBVIOUS
<1>3. {} \subseteq Numbers
    OBVIOUS
<1> SUFFICES ASSUME Init PROVE TypeOK
    OBVIOUS
<1>4. /\ queue \in Seq(Ingests \cup {Rebuild})
      /\ \A i, j \in DOMAIN queue : queue[i] = queue[j] => i = j
    <2>1. queue = <<>>
        BY DEF Init
    <2> QED BY <2>1, <1>2
<1>5. handle \in [Users -> [Ingests -> HandleStates]] /\ ended \in [Users -> [Ingests -> Ages]]
    BY <1>1 DEF Init, HandleStates
<1>6. pc \in [Users -> {"idle", "submitting", "waiting", "prepared", "failed"}]
    BY DEF Init
<1> QED BY <1>1, <1>3, <1>4, <1>5, <1>6 DEF Init, TypeOK, Underway, HandleStates

\* For any users, batches and settings the variables keep their types; no
\* operation is in the queue twice.
THEOREM TypeCorrect == Spec => []TypeOK
BY InitType, TypeStep, PTL DEF Spec

-----------------------------------------------------------------------------
(* The document a preparation made itself outlasts the preparation.        *)

\* u has the document it asked for: its finalize operation ended well, or it
\* is done.
Holds(u) ==
    /\ at[u] = Finalize
    /\ \/ pc[u] = "prepared"
       \/ pc[u] = "waiting" /\ handle[u][Finalize] = "succeeded"

\* That document is there, and is no older than the preparation.
Young == \A u \in Users : fresh[u] /\ Holds(u) => final /\ finalAge <= spent[u]

\* A preparation that has nothing to do is not one that finalized.
Idle == \A u \in Users : pc[u] = "idle" => at[u] = 0

IInv == TypeOK /\ Idle /\ Young

\* What the end of an operation does to the handle and the freshness of u.
LEMMA ConcludeHandles ==
    ASSUME TypeOK, NEW u \in Users, NEW outcome \in {"succeeded", "failed"}, Conclude(outcome)
    PROVE  /\ fresh'[u] = (fresh[u] /\ ~(Head(queue) = Finalize /\ final /\ u \in Underway))
           /\ handle'[u][Finalize] =
                IF Head(queue) = Finalize /\ handle[u][Finalize] = "live"
                THEN outcome ELSE handle[u][Finalize]
           /\ pc' = pc /\ at' = at /\ spent' = spent
<1>1. Finalize \in Ingests
    BY DEF Ingests, Finalize
<1>2. handle'[u] = [j \in Ingests |->
         IF j = Head(queue) /\ handle[u][j] = "live" THEN outcome ELSE handle[u][j]]
    BY DEF Conclude
<1>3. handle'[u][Finalize] =
         IF Finalize = Head(queue) /\ handle[u][Finalize] = "live"
         THEN outcome ELSE handle[u][Finalize]
    BY <1>1, <1>2
<1>4. fresh'[u] = (fresh[u] /\ ~(Head(queue) = Finalize /\ final /\ u \in Underway))
    BY DEF Conclude
<1> QED BY <1>3, <1>4 DEF Conclude

\* Every step keeps the document young, if no preparation outlives the grace.
LEMMA YoungStep ==
    ASSUME Timeout <= Grace, IInv, [Next]_vars, NEW v \in Users
    PROVE  /\ pc'[v] = "idle" => at'[v] = 0
           /\ fresh'[v] /\ Holds(v)' => final' /\ finalAge' <= spent'[v]
<1> USE DEF preparation, jobs, data
<1> DEFINE Same == /\ pc'[v] = pc[v] /\ at'[v] = at[v] /\ spent'[v] = spent[v]
                   /\ (fresh'[v] => fresh[v])
                   /\ handle'[v][Finalize] \in {"none", handle[v][Finalize]}
           Stays == final => final' /\ finalAge' = finalAge
           Good == /\ pc'[v] = "idle" => at'[v] = 0
                   /\ fresh'[v] /\ Holds(v)' => final' /\ finalAge' <= spent'[v]
<1> SUFFICES Good
    OBVIOUS
<1>a. /\ TypeOK /\ (pc[v] = "idle" => at[v] = 0)
      /\ fresh[v] /\ Holds(v) => final /\ finalAge <= spent[v]
    BY DEF IInv, Idle, Young
<1>b. Finalize \in Ingests /\ Finalize # 0
    BY DEF Ingests, Finalize
<1>c. Kept[v][Finalize] \in {"none", handle[v][Finalize]}
    BY <1>a, <1>b, KeptType
<1>d. /\ pc \in [Users -> {"idle", "submitting", "waiting", "prepared", "failed"}]
      /\ at \in [Users -> Ingests \cup {0}] /\ spent \in [Users -> 0..Timeout] /\ fresh \in [Users -> BOOLEAN]
      /\ handle \in [Users -> [Ingests -> HandleStates]]
    BY <1>a DEF TypeOK, HandleStates
\* A preparation a step does not touch keeps what it holds, with the document;
\* one that begins, submits or ends holds none.
<1>e. Same /\ Stays => Good
    BY <1>a DEF Holds
<1>f. ~Holds(v)' /\ (pc'[v] = "idle" => at'[v] = 0) => Good
    OBVIOUS
<1> HIDE DEF Good
<1>1. ASSUME NEW u \in Users, Begin(u) PROVE Good
    <2>1. CASE u = v
        <3>1. CASE index
            BY <1>1, <2>1, <3>1, <1>b, <1>d, <1>f DEF Begin, Holds
        <3>2. CASE ~index
            BY <1>1, <2>1, <3>2, <1>d, <1>f DEF Begin, Holds
        <3> QED BY <3>1, <3>2
    <2>2. CASE u # v
        BY <1>1, <2>2, <1>d, <1>e DEF Begin
    <2> QED BY <2>1, <2>2
<1>2. ASSUME NEW u \in Users, SubmitNew(u) PROVE Good
    <2>1. CASE u = v
        <3>1. pc'[v] = "waiting" /\ at'[v] = at[v] /\ at[v] \in Ingests
            BY <1>2, <2>1, <1>a, <1>d DEF SubmitNew, TypeOK, Underway
        <3>2. handle'[v][at[v]] = "live"
            BY <1>2, <2>1, <1>a, <3>1, KeptType DEF SubmitNew
        <3> QED BY <3>1, <3>2, <1>f DEF Holds
    <2>2. CASE u # v
        <3>1. handle'[v] = Kept[v]
            BY <1>2, <2>2, <1>a, KeptType DEF SubmitNew
        <3> QED BY <1>2, <2>2, <3>1, <1>c, <1>d, <1>e DEF SubmitNew
    <2> QED BY <2>1, <2>2
<1>3. ASSUME NEW u \in Users, SubmitReplayed(u) PROVE Good
    <2>1. CASE u = v
        <3>1. pc'[v] = "waiting" /\ ~fresh'[v]
            BY <1>3, <2>1, <1>d DEF SubmitReplayed
        <3> QED BY <3>1 DEF Good
    <2>2. CASE u # v
        BY <1>3, <2>2, <1>c, <1>d, <1>e DEF SubmitReplayed
    <2> QED BY <2>1, <2>2
<1>4. ASSUME NEW u \in Users, Advance(u) PROVE Good
    <2>1. CASE u = v /\ at[u] = Finalize
        <3>1. Holds(v) /\ pc'[v] = "prepared"
            BY <1>4, <2>1, <1>d DEF Advance, Holds
        <3>2. UNCHANGED <<final, finalAge, spent, fresh>>
            BY <1>4 DEF Advance
        <3> QED BY <3>1, <3>2, <1>a DEF Good
    <2>2. CASE u = v /\ at[u] # Finalize
        <3>1. pc'[v] = "submitting"
            BY <1>4, <2>2, <1>d DEF Advance
        <3> QED BY <3>1, <1>f DEF Holds
    <2>3. CASE u # v
        <3>1. pc'[v] = pc[v] /\ at'[v] = at[v]
            BY <1>4, <2>3, <1>d DEF Advance
        <3> QED BY <1>4, <3>1, <1>e DEF Advance
    <2> QED BY <2>1, <2>2, <2>3
<1>5. ASSUME NEW u \in Users, Fail(u) PROVE Good
    <2>1. CASE u = v
        <3>1. pc'[v] = "failed"
            BY <1>5, <2>1, <1>d DEF Fail
        <3> QED BY <3>1, <1>f DEF Holds
    <2>2. CASE u # v
        BY <1>5, <2>2, <1>d, <1>e DEF Fail
    <2> QED BY <2>1, <2>2
<1>6. ASSUME NEW u \in Users, Return(u), UNCHANGED data,
             handle'[v][Finalize] \in {"none", handle[v][Finalize]}
      PROVE  Good
    <2>1. CASE u = v
        <3>1. pc'[v] = "idle" /\ at'[v] = 0
            BY <1>6, <2>1, <1>d DEF Return
        <3> QED BY <3>1, <1>f DEF Holds
    <2>2. CASE u # v
        BY <1>6, <2>2, <1>d, <1>e DEF Return
    <2> QED BY <2>1, <2>2
<1>7. ASSUME NEW u \in Users, GiveUp(u) \/ Report(u) PROVE Good
    BY <1>7, <1>6 DEF GiveUp, Report
<1>8. ASSUME NEW u \in Users, SubmitRebuild(u) PROVE Good
    BY <1>8, <1>6, <1>c DEF SubmitRebuild
<1>9. CASE RunBatch \/ RunFinalizeIncomplete \/ RefuseIngest \/ RunRebuild
    <2>1. PICK outcome \in {"succeeded", "failed"} :
              /\ Conclude(outcome)
              /\ Head(queue) # Finalize \/ outcome = "failed"
        BY <1>9 DEF RunBatch, RunFinalizeIncomplete, RefuseIngest, RunRebuild, Numbers, Finalize, Rebuild
    <2>2. UNCHANGED <<final, finalAge>>
        BY <1>9 DEF RunBatch, RunFinalizeIncomplete, RefuseIngest, RunRebuild, data
    <2> QED BY <2>1, <2>2, <1>a, <1>d, ConcludeHandles DEF Good, Holds
<1>10. CASE RunFinalize
    <2>1. Conclude("succeeded") /\ Head(queue) = Finalize /\ final' = TRUE
          /\ finalAge' = IF final THEN finalAge ELSE 0
        BY <1>10 DEF RunFinalize
    <2>2. /\ fresh'[v] = (fresh[v] /\ ~(final /\ v \in Underway))
          /\ handle'[v][Finalize] =
               IF handle[v][Finalize] = "live" THEN "succeeded" ELSE handle[v][Finalize]
          /\ pc' = pc /\ at' = at /\ spent' = spent
        BY <2>1, <1>a, ConcludeHandles
    <2>3. spent[v] \in 0..Timeout
        BY <1>d
    <2>4. CASE final
        <3>1. fresh'[v] /\ Holds(v)' => fresh[v] /\ Holds(v)
            BY <2>2, <2>4 DEF Holds, Underway
        <3> QED BY <3>1, <2>1, <2>2, <2>4, <1>a DEF Good
    <2>5. CASE ~final
        BY <2>1, <2>2, <2>3, <2>5, <1>a DEF Good
    <2> QED BY <2>4, <2>5
<1>11. CASE Maintain
    <2>1. UNCHANGED <<pc, at, spent, fresh, handle>>
        BY <1>11 DEF Maintain
    <2>2. ASSUME fresh[v], Holds(v) PROVE final' /\ finalAge' = finalAge
        <3>1. final /\ finalAge <= spent[v] /\ spent[v] \in 0..Timeout /\ finalAge \in Ages
            BY <2>2, <1>a, <1>d DEF TypeOK
        <3>2. ~(finalAge > Grace)
            BY <3>1 DEF Ages
        <3> QED BY <1>11, <3>1, <3>2 DEF Maintain, Orphan
    <2> QED BY <2>1, <2>2, <1>a DEF Good, Holds
<1>12. CASE Tick
    <2>1. UNCHANGED <<pc, at, fresh, handle, final>>
        BY <1>12 DEF Tick
    <2>2. ASSUME fresh[v], Holds(v) PROVE final /\ finalAge' <= spent'[v]
        <3>1. final /\ finalAge <= spent[v] /\ spent[v] \in 0..Timeout /\ finalAge \in Ages
            BY <2>2, <1>a, <1>d DEF TypeOK
        <3>2. spent'[v] = spent[v] + 1
            BY <1>12, <2>2 DEF Tick, Holds, Underway
        <3>3. finalAge' <= finalAge + 1
            BY <1>12, <3>1 DEF Tick, Older, Ages
        <3> QED BY <3>1, <3>2, <3>3, <1>12 DEF Tick, Older, Ages
    <2> QED BY <2>1, <2>2, <1>a DEF Good, Holds
<1>13. CASE UNCHANGED vars
    BY <1>13, <1>e DEF vars
<1> QED
    BY <1>1, <1>2, <1>3, <1>4, <1>5, <1>7, <1>8, <1>9, <1>10, <1>11, <1>12, <1>13
    DEF Next, Follow, Execute

\* Where no preparation outlives the grace period, as with 840 s and one hour
\* (no check of the code compares the two), the invariant holds for any users,
\* batches and settings.
THEOREM Invariance == ASSUME Timeout <= Grace PROVE Spec => []IInv
<1>1. Init => IInv
    <2> SUFFICES ASSUME Init PROVE IInv
        OBVIOUS
    <2>1. TypeOK
        BY InitType
    <2>2. Idle /\ Young
        BY DEF Init, Idle, Young, Holds
    <2> QED BY <2>1, <2>2 DEF IInv
<1>2. IInv /\ [Next]_vars => IInv'
    <2> SUFFICES ASSUME IInv, [Next]_vars PROVE IInv'
        OBVIOUS
    <2>1. TypeOK'
        BY TypeStep DEF IInv
    <2>2. Idle' /\ Young'
        BY YoungStep DEF Idle, Young
    <2> QED BY <2>1, <2>2 DEF IInv
<1> QED BY <1>1, <1>2, PTL DEF Spec

\* A preparation whose submissions were all new and whose finalize operation
\* made the document leaves it for the rebuild, whatever other preparations,
\* the runner and the maintenance pass do meanwhile.
THEOREM FreshPreparationsAreEffective ==
    ASSUME Timeout <= Grace PROVE Spec => []FreshPreparationEffective
<1>1. IInv => FreshPreparationEffective
    BY DEF IInv, Young, Holds, FreshPreparationEffective
<1> QED BY <1>1, Invariance, PTL
=============================================================================
