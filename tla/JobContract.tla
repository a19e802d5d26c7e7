---------------------------- MODULE JobContract ----------------------------
(***************************************************************************)
(* What the holder of a public job ID is promised (JobView as JobStore     *)
(* lets a caller see it), without operations, processes or deduplication:  *)
(* a job is queued, runs, ends once and is forgotten; jobs that share work *)
(* move together; one piece of work runs at a time; an interruption either *)
(* puts running work back in the queue or ends it as failed.               *)
(***************************************************************************)
CONSTANT Handles

VARIABLE status    \* what GET /jobs/{id} answers; "none" is JOB_NOT_FOUND

Live == {"queued", "running"}
Ended == {"succeeded", "failed"}
JobStatus == Live \cup Ended \cup {"none"}

Having(S) == {h \in Handles : status[h] \in S}

MoveTo(H, s) == status' = [h \in Handles |-> IF h \in H THEN s ELSE status[h]]

ContractInit == status = [h \in Handles |-> "none"]

\* A new handle starts a job of its own or joins a live one.
Accept(h) ==
    /\ status[h] = "none"
    /\ \/ MoveTo({h}, "queued")
       \/ Having({"running"}) # {} /\ MoveTo({h}, "running")

\* The jobs that share one operation start together, with nothing running.
Begin(H) ==
    /\ Having({"running"}) = {}
    /\ H # {}
    /\ H \subseteq Having({"queued"})
    /\ MoveTo(H, "running")

\* All that runs is one operation: its jobs end with the same outcome.
End(outcome) ==
    /\ Having({"running"}) # {}
    /\ MoveTo(Having({"running"}), outcome)

Interrupt ==
    /\ Having({"running"}) # {}
    /\ MoveTo(Having({"running"}), "queued")

Forget(H) ==
    /\ H # {}
    /\ H \subseteq Having(Ended)
    /\ MoveTo(H, "none")

ContractNext ==
    \/ \E h \in Handles : Accept(h)
    \/ \E H \in SUBSET Handles : Begin(H) \/ Forget(H)
    \/ \E outcome \in Ended : End(outcome)
    \/ Interrupt

ContractSpec == ContractInit /\ [][ContractNext]_status

=============================================================================
