------------------------- MODULE ReplayGuardProofs -------------------------
(***************************************************************************)
(* Theorems about ReplayGuard for any skew, any number of nonces and any   *)
(* length of a run.                                                        *)
(***************************************************************************)
EXTENDS ReplayGuard, TLAPS

-----------------------------------------------------------------------------
(* Type correctness.                                                       *)

\* Remembered rows are rows of the table that the claim does not forget.
LEMMA RememberedRows ==
    /\ Remembered \subseteq replayNonces
    /\ \A r \in replayNonces : r \in Remembered <=> ~(r.expiresAt < seenAt)
  BY DEF Remembered, Forgotten

\* A row is well formed and carries the nonce of its request.
LEMMA RowForType ==
    ASSUME NEW m \in Requests
    PROVE  /\ RowFor(m) \in Rows
           /\ RowFor(m).nonce = m.nonce
           /\ RowFor(m).expiresAt = m.timestamp + Skew
           /\ m.timestamp \in Int
  BY ReplayGuardAssumption DEF RowFor, Requests, Rows

\* The table keeps its shape and its primary key: TypeOK of ReplayGuard.
THEOREM TypeCorrect == Spec => []TypeOK
<1> USE ReplayGuardAssumption
<1>1. Init => TypeOK
  BY DEF Init, TypeOK
<1>2. TypeOK /\ [Next]_vars => TypeOK'
  <2> SUFFICES ASSUME TypeOK, [Next]_vars PROVE TypeOK'
    OBVIOUS
  <2>1. ASSUME NEW m \in Requests, Verify(m) PROVE TypeOK'
    BY <2>1 DEF Verify, TypeOK
  <2>2. CASE Accept
    <3>1. verifying \in Requests
      BY <2>2 DEF Accept, TypeOK
    <3>2. replayNonces' \subseteq Rows
      BY <2>2, <3>1, RowForType, RememberedRows DEF Accept, TypeOK
    <3>3. \A r, s \in replayNonces' : r.nonce = s.nonce => r = s
      BY <2>2, <3>1, RowForType, RememberedRows DEF Accept, TypeOK, Known
    <3>4. accepted' \in [Requests -> Nat]
      BY <2>2, <3>1 DEF Accept, TypeOK
    <3>5. QED
      BY <2>2, <3>2, <3>3, <3>4 DEF Accept, TypeOK
  <2>3. CASE Refuse
    BY <2>3 DEF Refuse, TypeOK
  <2>4. CASE Abandon
    BY <2>4 DEF Abandon, TypeOK
  <2>5. CASE Tick
    BY <2>5 DEF Tick, TypeOK
  <2>6. CASE UNCHANGED vars
    BY <2>6 DEF vars, TypeOK
  <2>7. QED
    BY <2>1, <2>2, <2>3, <2>4, <2>5, <2>6 DEF Next
<1>3. QED
  BY <1>1, <1>2, PTL DEF Spec

-----------------------------------------------------------------------------
(* A request is accepted once.                                             *)

\* The request being verified was in the window when the clock was read.
WindowInv ==
    verifying # NoRequest =>
        /\ seenAt - verifying.timestamp <= Skew
        /\ verifying.timestamp - seenAt <= Skew

\* The window of the request is over, for the verification under way too.
Past(m) ==
    /\ m.timestamp + Skew < now
    /\ verifying # NoRequest => m.timestamp + Skew < seenAt

\* An accepted request has its row, or it can no longer be accepted.
MemoryInv ==
    \A m \in Requests : accepted[m] # 0 =>
        accepted[m] = 1 /\ (RowFor(m) \in replayNonces \/ Past(m))

\* A request is let in by the window it is checked against.
LEMMA WindowStep ==
    ASSUME TypeOK, WindowInv, [Next]_vars
    PROVE  WindowInv'
<1>1. ASSUME NEW m \in Requests, Verify(m) PROVE WindowInv'
  BY <1>1 DEF Verify, InWindow, WindowInv
<1>2. CASE Accept
  BY <1>2 DEF Accept, WindowInv
<1>3. CASE Refuse
  BY <1>3 DEF Refuse, WindowInv
<1>4. CASE Abandon
  BY <1>4 DEF Abandon, WindowInv
<1>5. CASE Tick
  BY <1>5 DEF Tick, WindowInv
<1>6. CASE UNCHANGED vars
  BY <1>6 DEF vars, WindowInv
<1>7. QED
  BY <1>1, <1>2, <1>3, <1>4, <1>5, <1>6 DEF Next

\* A claim that forgets a row comes after the window of the row's request, and
\* one that succeeds is not for a request with a row.
LEMMA AcceptStep ==
    ASSUME TypeOK, WindowInv, MemoryInv, Accept
    PROVE  MemoryInv'
<1> USE ReplayGuardAssumption
<1>1. verifying \in Requests /\ verifying # NoRequest
  BY DEF Accept, TypeOK
<1>2. now \in Int /\ seenAt \in Int /\ Skew \in Int /\ seenAt <= now
  BY DEF TypeOK
<1>3. accepted[verifying] = 0
  <2>1. SUFFICES ASSUME accepted[verifying] # 0 PROVE FALSE
    OBVIOUS
  <2>2. verifying.timestamp \in Int /\ ~(verifying.timestamp + Skew < seenAt)
    BY <1>1, <1>2, RowForType DEF WindowInv
  <2>3. RowFor(verifying) \in replayNonces
    BY <1>1, <2>1, <2>2 DEF MemoryInv, Past
  <2>4. RowFor(verifying) \in Remembered
    BY <1>1, <2>2, <2>3, RowForType, RememberedRows
  <2>5. QED
    BY <1>1, <2>4, RowForType DEF Accept, Known
<1>4. SUFFICES ASSUME NEW m \in Requests, accepted'[m] # 0
               PROVE  accepted'[m] = 1 /\ (RowFor(m) \in replayNonces' \/ Past(m)')
  BY DEF MemoryInv, RowFor
<1>5. CASE m = verifying
  <2>1. accepted'[m] = 1
    BY <1>1, <1>3, <1>5 DEF Accept, TypeOK
  <2>2. RowFor(m) \in replayNonces'
    BY <1>5 DEF Accept
  <2>3. QED
    BY <2>1, <2>2
<1>6. CASE m # verifying
  <2>1. accepted'[m] = accepted[m]
    BY <1>1, <1>6 DEF Accept, TypeOK
  <2>2. accepted[m] = 1 /\ (RowFor(m) \in replayNonces \/ Past(m))
    BY <1>4, <2>1 DEF MemoryInv
  <2>3. m.timestamp \in Int
    BY RowForType
  <2>4. CASE Past(m)
    BY <1>1, <2>1, <2>2, <2>4 DEF Past, Accept
  <2>5. CASE RowFor(m) \in Remembered
    BY <2>1, <2>2, <2>5 DEF Accept
  <2>6. CASE RowFor(m) \in replayNonces /\ RowFor(m) \notin Remembered
    <3>1. m.timestamp + Skew < seenAt
      BY <2>6, RowForType, RememberedRows
    <3>2. m.timestamp + Skew < now
      BY <1>2, <2>3, <3>1
    <3>3. QED
      BY <2>1, <2>2, <3>2 DEF Past, Accept
  <2>7. QED
    BY <2>2, <2>4, <2>5, <2>6
<1>7. QED
  BY <1>5, <1>6

\* Every step keeps the memory.
LEMMA MemoryStep ==
    ASSUME TypeOK, TypeOK', WindowInv, MemoryInv, [Next]_vars
    PROVE  MemoryInv'
<1> USE ReplayGuardAssumption DEF TypeOK, MemoryInv, RowFor, Past
<1>1. ASSUME NEW m \in Requests, Verify(m) PROVE MemoryInv'
  BY <1>1 DEF Verify
<1>2. CASE Accept
  BY <1>2, AcceptStep
<1>3. CASE Refuse
  BY <1>3 DEF Refuse
<1>4. CASE Abandon
  BY <1>4 DEF Abandon
<1>5. CASE Tick
  <2>1. ASSUME NEW m \in Requests PROVE m.timestamp \in Int
    BY RowForType
  <2>2. QED
    BY <1>5, <2>1 DEF Tick
<1>6. CASE UNCHANGED vars
  BY <1>6 DEF vars
<1>7. QED
  BY <1>1, <1>2, <1>3, <1>4, <1>5, <1>6 DEF Next

\* No request is accepted twice: AcceptedOnce of ReplayGuard.
THEOREM Once == Spec => []AcceptedOnce
<1>1. Init => WindowInv /\ MemoryInv
  BY DEF Init, WindowInv, MemoryInv
<1>2. TypeOK /\ TypeOK' /\ WindowInv /\ MemoryInv /\ [Next]_vars => (WindowInv /\ MemoryInv)'
  BY WindowStep, MemoryStep
<1>3. TypeOK /\ MemoryInv => AcceptedOnce
  BY DEF MemoryInv, AcceptedOnce, TypeOK
<1>4. QED
  BY <1>1, <1>2, <1>3, TypeCorrect, PTL DEF Spec

-----------------------------------------------------------------------------
(* Rows expire.                                                            *)

\* A row is made from a timestamp at most one skew ahead of the clock, and the
\* clock only advances: RowsExpire of ReplayGuard.
THEOREM Forgetful == Spec => []RowsExpire
<1> USE ReplayGuardAssumption
<1>1. Init => WindowInv /\ RowsExpire
  BY DEF Init, WindowInv, RowsExpire
<1>2. ASSUME TypeOK, TypeOK', WindowInv, RowsExpire, [Next]_vars PROVE RowsExpire'
  <2>1. ASSUME NEW m \in Requests, Verify(m) PROVE RowsExpire'
    BY <2>1, <1>2 DEF Verify, RowsExpire
  <2>2. CASE Accept
    <3>1. verifying \in Requests /\ now' = now
      BY <2>2, <1>2 DEF Accept, TypeOK
    <3>2. verifying.timestamp + Skew <= now + 2 * Skew
      BY <2>2, <1>2, <3>1, RowForType DEF Accept, WindowInv, TypeOK
    <3>3. \A r \in Remembered : r.expiresAt <= now + 2 * Skew
      BY <1>2, RememberedRows DEF RowsExpire
    <3>4. QED
      BY <2>2, <3>1, <3>2, <3>3, RowForType DEF Accept, RowsExpire
  <2>3. CASE Refuse
    BY <2>3, <1>2 DEF Refuse, RowsExpire
  <2>4. CASE Abandon
    BY <2>4, <1>2 DEF Abandon, RowsExpire
  <2>5. CASE Tick
    BY <2>5, <1>2 DEF Tick, RowsExpire, TypeOK, Rows
  <2>6. CASE UNCHANGED vars
    BY <2>6, <1>2 DEF vars, RowsExpire
  <2>7. QED
    BY <1>2, <2>1, <2>2, <2>3, <2>4, <2>5, <2>6 DEF Next
<1>3. TypeOK /\ TypeOK' /\ WindowInv /\ RowsExpire /\ [Next]_vars => (WindowInv /\ RowsExpire)'
  BY <1>2, WindowStep
<1>4. QED
  BY <1>1, <1>3, TypeCorrect, PTL DEF Spec

=============================================================================
