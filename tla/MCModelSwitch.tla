--------------------------- MODULE MCModelSwitch ---------------------------
(* A small instance of ModelSwitch: staging with two approved models and   *)
(* production with one.                                                    *)
EXTENDS ModelSwitch, TLC

CONSTANTS staging, production, m1, m2, m3

TwoAndOne == (staging :> {m1, m2}) @@ (production :> {m3})
FiveAndOne == (staging :> 5) @@ (production :> 1)
=============================================================================
