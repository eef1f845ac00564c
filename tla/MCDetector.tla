----------------------------- MODULE MCDetector -----------------------------
(***************************************************************************)
(* Instances of the detector for TLC: the logs of telemetry.raw that the   *)
(* configurations choose from.                                             *)
(***************************************************************************)
EXTENDS DetectorProperties

CONSTANTS h1, h2, p1

OneHost == {h1}
TwoHosts == {h1, h2}
OnePartition == [h \in Hosts |-> p1]

At(h, ts) == [host |-> h, ts |-> ts]

(* One host, n events, one tick apart, which is 2 s here.                  *)
Ticks(h, n) == [i \in 1..n |-> At(h, 2 * i)]

(* Seven events of one host, one tick apart.                               *)
OrderlyLogs == {[p \in Partitions |-> Ticks(h1, 7)]}

(* The same number with gaps, with one far ahead of its time, with repeats. *)
DisorderlyTimes ==
    {<<2, 4, 6, 7, 8, 9, 13>>, <<1, 2, 9, 4, 5, 6, 12>>, <<3, 4, 4, 5, 8, 8, 12>>,
     <<2, 4, 6, 12, 8, 10, 12>>}

DisorderlyLogs ==
    {[p \in Partitions |-> [i \in 1..7 |-> At(h1, times[i])]] : times \in DisorderlyTimes}

(* Two hosts whose keys hash to one partition; h1 can be alerted twice.    *)
SharedLogs ==
    {[p \in Partitions |-> <<At(h1, 2), At(h2, 2), At(h1, 4), At(h1, 6), At(h1, 9)>>]}

(* Eight events of one host, one tick apart.                               *)
RestartLogs == {[p \in Partitions |-> Ticks(h1, 8)]}

(* Bound: exceptions, crashes and rejoins of one behaviour.                *)
MaxMishaps == 2

FewMishaps == faults + rejoins + (life - 1) <= MaxMishaps
=============================================================================
