----------------------------- MODULE MCTelemetry -----------------------------
(***************************************************************************)
(* An instance of the generator for TLC.                                   *)
(***************************************************************************)
EXTENDS Telemetry

CONSTANTS h1, h2, p1, p2, MaxMishaps

TwoProfiles == <<h1, h2>>
TwoPartitions == [h \in {h1, h2} |-> IF h = h1 THEN p1 ELSE p2]

(* How many mishaps come together in one behaviour.                        *)
FewMishaps == retries + expired + timeouts + (life - 1) <= MaxMishaps

(* Injectors do not know of each other: one of them is enough.             *)
OneHostPerturbed == injectors[h2].type = "none" /\ injectors[h2].cooldown_remaining = 0

Bounds == FewMishaps /\ OneHostPerturbed
=============================================================================
