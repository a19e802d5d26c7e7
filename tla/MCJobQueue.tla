---------------------------- MODULE MCJobQueue ----------------------------
(* Small instances of JobQueue: requests that are resumed after a crash    *)
(* (rebuild, finalize) and one that is not (query).                        *)
EXTENDS JobQueue, TLC

\* Callers, idempotency keys and resumable requests are interchangeable.
CallerSymmetry == Permutations(Actors) \cup Permutations(Keys) \cup Permutations(Resumable)

=============================================================================
