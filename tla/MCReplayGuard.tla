-------------------------- MODULE MCReplayGuard --------------------------
(* Small instances of ReplayGuard.                                         *)
EXTENDS ReplayGuard, TLC

\* Nonces are compared for equality only.
NonceSymmetry == Permutations(Nonces)

=============================================================================
