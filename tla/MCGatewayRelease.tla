-------------------------- MODULE MCGatewayRelease --------------------------
(* A small instance of GatewayRelease.                                     *)
EXTENDS GatewayRelease, TLC

\* Users, revisions and job ids are interchangeable, and so are callers.
Symmetry ==
    Permutations(Users) \cup Permutations(Revisions) \cup Permutations(JobIds) \cup Permutations(Callers)

=============================================================================
