--------------------------- MODULE DominantMetric ---------------------------
(***************************************************************************)
(* Which metric an alert is about: services/agent/app/alert_context.py     *)
(* decides it for the tools' synthetic answers by z-scores, over the rows  *)
(* the alert brings along; MockLLMClient (llm_client.py) guesses it again  *)
(* by ratios, over the rows that query_recent_metrics finds when the tool  *)
(* runs.  `table' holds a host's rows of metrics in the order of their ids,*)
(* `windows' the values of each metric in some rows, in their order.  Both *)
(* quotients are compared by cross-multiplication.                         *)
(***************************************************************************)
EXTENDS Integers, Sequences, FiniteSets, SequencesExt

CONSTANTS
    QuerySeconds,  \* the `minutes' the mock passes to query_recent_metrics
    QueryLimit     \* the LIMIT of its statement

ASSUME QueryAssumption == QuerySeconds \in Nat /\ QueryLimit \in Nat \ {0}

METRIC_NAMES == <<"cpu_pct", "mem_pct", "latency_ms", "error_rate_pct">>

Metrics == Range(METRIC_NAMES)

MetricsRow == [ts : Nat, value : [Metrics -> Nat]]

ValuesOf(rows) == [m \in Metrics |-> [i \in DOMAIN rows |-> rows[i].value[m]]]

(* recent_metric_snapshots at row a: the n rows the detector had buffered, *)
(* that row the last of them.  Rows written later are not among them.      *)
RecentMetrics(table, a, n) == SubSeq(table, a - n + 1, a)

(* WHERE ts >= now() - interval *)
FreshRows(table, now) == {i \in DOMAIN table : table[i].ts >= now - QuerySeconds}

(* Faulty: without the DESC.                                               *)
ReturnedBeforeAscending(table, now, i) ==
    {j \in FreshRows(table, now) : table[j].ts < table[i].ts}

(* ORDER BY ts DESC: the rows a result lists before row i.                 *)
ReturnedBefore(table, now, i) ==
    {j \in FreshRows(table, now) : table[j].ts > table[i].ts}

(* The rows of query_recent_metrics(ctx, minutes).  Timestamps of a host   *)
(* are taken to differ; the database is free in how it orders equal ones.  *)
QueryRecentMetrics(table, now) ==
    LET fresh == FreshRows(table, now)
    IN  [k \in 1..Min({QueryLimit, Cardinality(fresh)}) |->
           table[CHOOSE i \in fresh : Cardinality(ReturnedBefore(table, now, i)) = k - 1]]

AddUp(s) == FoldLeft(LAMBDA acc, x : acc + x, 0, s)

(* rows[0], taken to be the newest.                                        *)
Latest(window) == Head(window)

(* n times the distance of the alert's own value, the last of its window,  *)
(* from the mean.                                                          *)
Deviation(window) ==
    LET d == Len(window) * Last(window) - AddUp(window)
    IN  IF d < 0 THEN -d ELSE d

(* n * n times the variance.                                               *)
Spread(window) ==
    Len(window) * AddUp([i \in DOMAIN window |-> window[i] * window[i]])
        - AddUp(window) * AddUp(window)

(* Faulty: the deviations themselves are compared.                         *)
MoreDeviantByValue(v, w) == Deviation(v) > Deviation(w)

(* z(v) > z(w); a metric without spread has z = 0.                         *)
MoreDeviant(v, w) ==
    /\ Deviation(v) > 0
    /\ \/ Deviation(w) = 0
       \/ Deviation(v) * Deviation(v) * Spread(w) > Deviation(w) * Deviation(w) * Spread(v)

(* _compute_dominant_metric: the first metric always beats the initial -1. *)
DominantMetric(windows) ==
    IF \A m \in Metrics : windows[m] = <<>> THEN "latency_ms"
    ELSE FoldLeft(LAMBDA best, m : IF MoreDeviant(windows[m], windows[best]) THEN m ELSE best,
                  METRIC_NAMES[1], METRIC_NAMES)

(* latest / mean of v is greater than that of w, both means positive.      *)
GreaterRatio(v, w) == Latest(v) * AddUp(w) > Latest(w) * AddUp(v)

(* One turn of the loop of _infer_dominant_metric: `best' is <<>> until a  *)
(* metric was measured, then <<best_metric>>; the first one always beats   *)
(* the initial -1, and metrics with a mean of 0 are passed over.           *)
BetterRatio(windows, best, m) ==
    IF AddUp(windows[m]) > 0 /\ (best # <<>> => GreaterRatio(windows[m], windows[best[1]]))
    THEN <<m>> ELSE best

(* MockLLMClient._infer_dominant_metric.                                   *)
InferredMetric(windows) ==
    LET best == FoldLeft(LAMBDA b, m : BetterRatio(windows, b, m), <<>>, METRIC_NAMES)
    IN  IF best = <<>> THEN "latency_ms" ELSE best[1]
=============================================================================
