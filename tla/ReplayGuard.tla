---------------------------- MODULE ReplayGuard ----------------------------
(***************************************************************************)
(* The nonce table that keeps a signed request from being taken twice:     *)
(* verify_request (novo_chat/protocol.py) against JobStore.claim           *)
(* (novo_chat/jobs.py).                                                    *)
(*                                                                         *)
(* The worker verifies in the middleware of its only event loop, so one    *)
(* request at a time is between the look at the clock and the claim; the   *)
(* claim may wait there for the database.  A request stands for all that   *)
(* carry its signature, and arrives any number of times.  The clock of the *)
(* worker does not go back; the sender's may differ from it.               *)
(***************************************************************************)
EXTENDS Integers

CONSTANTS
    Nonces,
    Skew,       \* max_clock_skew_seconds
    MaxTime,    \* bound: the clocks stop here
    NoRequest   \* the event loop is verifying nothing

Requests == [nonce : Nonces, timestamp : 0..MaxTime]

ASSUME ReplayGuardAssumption ==
    /\ Skew \in Nat
    /\ MaxTime \in Nat
    /\ NoRequest \notin Requests

VARIABLES
    now,           \* the clock of the worker
    verifying,     \* the request inside verify_request
    seenAt,        \* actual_now of that call
    replayNonces,  \* table replay_nonces
    accepted       \* history: how often each request was accepted

vars == <<now, verifying, seenAt, replayNonces, accepted>>

Rows == [nonce : Nonces, expiresAt : 0..MaxTime + Skew]

TypeOK ==
    /\ now \in 0..MaxTime
    /\ verifying \in Requests \cup {NoRequest}
    /\ seenAt \in 0..now
    /\ replayNonces \subseteq Rows
    /\ \A r, s \in replayNonces : r.nonce = s.nonce => r = s   \* PRIMARY KEY
    /\ accepted \in [Requests -> Nat]

Init ==
    /\ now = 0
    /\ verifying = NoRequest
    /\ seenAt = 0
    /\ replayNonces = {}
    /\ accepted = [m \in Requests |-> 0]

-----------------------------------------------------------------------------
\* Mutant: only old requests are outside the window.
NotTooOld(m) == now - m.timestamp <= Skew

\* abs(actual_now - timestamp) <= max_clock_skew_seconds
InWindow(m) == now - m.timestamp <= Skew /\ m.timestamp - now <= Skew

\* Mutant: a nonce is forgotten in the last second its request is accepted.
ForgottenAtBoundary(r) == r.expiresAt <= seenAt

\* DELETE FROM replay_nonces WHERE expires_at < seen_at
Forgotten(r) == r.expiresAt < seenAt

Remembered == {r \in replayNonces : ~Forgotten(r)}

RowFor(m) == [nonce |-> m.nonce, expiresAt |-> m.timestamp + Skew]

\* Mutant: the row, not its key, has to be new.
RowKnown(m) == RowFor(m) \in Remembered

\* The INSERT meets the primary key.
Known(m) == \E r \in Remembered : r.nonce = m.nonce

\* A request in the window whose signature is right.
Verify(m) ==
    /\ verifying = NoRequest
    /\ InWindow(m)
    /\ verifying' = m
    /\ seenAt' = now
    /\ UNCHANGED <<now, replayNonces, accepted>>

\* The claim is committed and the request goes to its handler.
Accept ==
    /\ verifying # NoRequest
    /\ ~Known(verifying)
    /\ replayNonces' = Remembered \cup {RowFor(verifying)}
    /\ accepted' = [accepted EXCEPT ![verifying] = @ + 1]
    /\ verifying' = NoRequest
    /\ UNCHANGED <<now, seenAt>>

\* REQUEST_REPLAYED: the deletion is rolled back with the insertion.
Refuse ==
    /\ verifying # NoRequest
    /\ Known(verifying)
    /\ verifying' = NoRequest
    /\ UNCHANGED <<now, seenAt, replayNonces, accepted>>

\* The worker stops before the commit, or the claim times out on the database.
Abandon ==
    /\ verifying # NoRequest
    /\ verifying' = NoRequest
    /\ UNCHANGED <<now, seenAt, replayNonces, accepted>>

Tick ==
    /\ now < MaxTime
    /\ now' = now + 1
    /\ UNCHANGED <<verifying, seenAt, replayNonces, accepted>>

Next ==
    \/ \E m \in Requests : Verify(m)
    \/ Accept \/ Refuse \/ Abandon \/ Tick

Spec == Init /\ [][Next]_vars

-----------------------------------------------------------------------------
(* Properties.                                                             *)

\* A request is accepted at most once, however often it arrives and however
\* long its claim waits: its row outlives the window it is accepted in.
AcceptedOnce == \A m \in Requests : accepted[m] <= 1

\* A row is kept for at most twice the skew: no sender, whatever its clock,
\* leaves a row that the worker would not come to delete.
RowsExpire == \A r \in replayNonces : r.expiresAt <= now + 2 * Skew

=============================================================================
