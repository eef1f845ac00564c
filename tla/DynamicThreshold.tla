-------------------------- MODULE DynamicThreshold --------------------------
(***************************************************************************)
(* services/detector/app/dynamic_threshold.py: the adaptive threshold of   *)
(* one host.  Scores are naturals (a fixed-point reading of the floats);   *)
(* the threshold is kept multiplied by 100, so that numpy's linear         *)
(* interpolation between two order statistics is exact integer arithmetic. *)
(* The module has no state: `history' is HostModelState.score_history after*)
(* the new score was appended, so the new score is Last(history).          *)
(***************************************************************************)
EXTENDS Integers, Sequences, FiniteSets, SequencesExt

CONSTANTS
    Percentile,       \* det_threshold_percentile, a whole number of percent
    MinHistory,       \* MIN_HISTORY_FOR_THRESHOLD
    CooldownSeconds,  \* det_alert_cooldown_seconds
    NoTime            \* Python's None in last_alert_time / last_early_warning_time

ASSUME PercentileAssumption == Percentile \in 0..100
ASSUME MinHistoryAssumption == MinHistory \in Nat \ {0}
ASSUME CooldownAssumption   == CooldownSeconds \in Nat
ASSUME NoTimeAssumption     == NoTime \notin Nat

(* The k-th smallest value of a non-empty history, counted from 1.         *)
OrderStatistic(history, k) ==
    CHOOSE v \in Range(history) :
        /\ Cardinality({i \in DOMAIN history : history[i] < v}) < k
        /\ Cardinality({i \in DOMAIN history : history[i] <= v}) >= k

(* Faulty: the percentile counted from the top.                            *)
ScaledThresholdOfLowTail(history) ==
    100 * OrderStatistic(history, ((100 - Percentile) * (Len(history) - 1)) \div 100 + 1)

(* np.percentile(history, Percentile), times 100: the point at fractional  *)
(* rank Percentile/100 * (n - 1) of the sorted history.                    *)
ScaledThreshold(history) ==
    LET n    == Len(history)
        rank == Percentile * (n - 1)
        low  == OrderStatistic(history, rank \div 100 + 1)
        high == IF rank \div 100 + 2 <= n
                THEN OrderStatistic(history, rank \div 100 + 2)
                ELSE low
    IN  100 * low + (rank % 100) * (high - low)

HasThreshold(history) == Len(history) >= MinHistory

IsAnomaly(history) ==
    /\ HasThreshold(history)
    /\ 100 * Last(history) > ScaledThreshold(history)

SumSeq(s) == FoldLeft(LAMBDA acc, x : acc + x, 0, s)

(* n * n * np.var(history): the variance without its denominators.         *)
ScaledVariance(history) ==
    Len(history) * SumSeq([i \in DOMAIN history |-> history[i] * history[i]])
        - SumSeq(history) * SumSeq(history)

(* Faulty: the variance in place of the standard deviation.                *)
IsCriticalByVariance(history) ==
    LET excess == (100 * Last(history) - ScaledThreshold(history)) * Len(history)
    IN  excess * Len(history) > 100 * ScaledVariance(history)

(* raw_score > threshold + np.std(history), squared to stay in integers;   *)
(* asked only of an anomaly, whose left-hand side is positive.             *)
IsCritical(history) ==
    LET excess == (100 * Last(history) - ScaledThreshold(history)) * Len(history)
    IN  excess * excess > 10000 * ScaledVariance(history)

(* Faulty: the distance in time taken without its sign.                    *)
CooldownActiveEitherWay(last, now) ==
    last # NoTime /\ now - last < CooldownSeconds /\ last - now < CooldownSeconds

(* (now - last).total_seconds() < cooldown, the difference may be negative.*)
CooldownActive(last, now) == last # NoTime /\ now - last < CooldownSeconds
=============================================================================
