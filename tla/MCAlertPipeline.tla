--------------------------- MODULE MCAlertPipeline ---------------------------
(***************************************************************************)
(* Instances of AlertPipeline for TLC.                                     *)
(***************************************************************************)
EXTENDS AlertPipeline

CONSTANTS h1, h2, p1, p2, MaxMishaps

(* Two hosts whose keys hash to different partitions.                      *)
TwoHosts == {h1, h2}
TwoPartitions == [h \in TwoHosts |-> IF h = h1 THEN p1 ELSE p2]

(* Each kind of mishap has its own bound in AlertPipeline; this one bounds *)
(* how many of them come together in one behaviour.                        *)
FewMishaps ==
    retries + expired + (detector_life - 1) + (agent_life - 1) + rejoins + faults
        <= MaxMishaps
=============================================================================
