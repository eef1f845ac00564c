---------------------------- MODULE MCAlgorithms ----------------------------
(***************************************************************************)
(* The pure algorithms of the detector and the agent against what they are *)
(* meant to say: every score history and every trend window up to a length,*)
(* grown element by element, and every combination of metric windows.      *)
(***************************************************************************)
EXTENDS DynamicThreshold, TrendForecast, DominantMetric

CONSTANTS
    HistoryScores, MaxHistory,  \* the scores a history may hold, and how many
    Moves,                      \* <<scale, shift>>: other levels of a host's scores
    TrendScores, Gaps, MaxWindow,  \* scores, distances and number of points
    Thresholds, Steps, Ticks,   \* the ramps looked for, and what they may meet
    MetricWindows,              \* the recent values of all metrics
    Units,                      \* <<scale, shift>>: other units of a metric
    RowValues, RowGaps, MaxRows,   \* values, distances and number of a host's rows
    Delays                      \* from the newest row to the query

ASSUME HistoryScoresAssumption == HistoryScores \subseteq Nat
ASSUME MovesAssumption         == Moves \subseteq (Nat \ {0}) \X Nat
ASSUME TrendScoresAssumption   == TrendScores \subseteq Nat
ASSUME GapsAssumption          == Gaps \subseteq Nat
ASSUME ThresholdsAssumption    == Thresholds \subseteq Nat
ASSUME StepsAssumption         == Steps \subseteq Int
ASSUME TicksAssumption         == Ticks \subseteq Nat \ {0}
ASSUME UnitsAssumption         == Units \subseteq (Int \ {0}) \X Int
ASSUME RowValuesAssumption     == RowValues \subseteq [Metrics -> Nat]
ASSUME RowGapsAssumption       == RowGaps \subseteq Nat \ {0}
ASSUME DelaysAssumption        == Delays \subseteq Int

\* Windows are made of rows that hold all four metrics.
ASSUME MetricWindowsAssumption ==
    \A w \in MetricWindows :
        /\ w \in [Metrics -> Seq(Nat)]
        /\ \A m, other \in Metrics : Len(w[m]) > 0 /\ Len(w[m]) = Len(w[other])

VARIABLES history, points, windows, table

vars == <<history, points, windows, table>>

NoWindows == [m \in Metrics |-> <<>>]

Init == history = <<>> /\ points = <<>> /\ windows = NoWindows /\ table = <<>>

GrowHistory ==
    /\ points = <<>> /\ windows = NoWindows /\ table = <<>>
    /\ Len(history) < MaxHistory
    /\ \E score \in HistoryScores : history' = Append(history, score)
    /\ UNCHANGED <<points, windows, table>>

(* Telemetry may repeat a timestamp, but not fill a window with one.       *)
GrowWindow ==
    /\ history = <<>> /\ windows = NoWindows /\ table = <<>>
    /\ Len(points) < MaxWindow
    /\ \E gap \in Gaps, score \in TrendScores :
         points' = Append(points,
            [ts |-> IF points = <<>> THEN 10 ELSE Last(points).ts + gap, score |-> score])
    /\ Len(points') >= MinPoints => \E i \in DOMAIN points' : points'[i].ts # points'[1].ts
    /\ UNCHANGED <<history, windows, table>>

FillWindows ==
    /\ history = <<>> /\ points = <<>> /\ windows = NoWindows /\ table = <<>>
    /\ windows' \in MetricWindows
    /\ UNCHANGED <<history, points, table>>

(* A host is sampled every tick, and once per tick.                        *)
GrowTable ==
    /\ history = <<>> /\ points = <<>> /\ windows = NoWindows
    /\ Len(table) < MaxRows
    /\ \E gap \in RowGaps, value \in RowValues :
         table' = Append(table,
            [ts |-> IF table = <<>> THEN 10 ELSE Last(table).ts + gap, value |-> value])
    /\ UNCHANGED <<history, points, windows>>

Next == GrowHistory \/ GrowWindow \/ FillWindows \/ GrowTable

Spec == Init /\ [][Next]_vars
-----------------------------------------------------------------------------
(* Flat, with a spike up or down, a ramp, and noise of two sizes.          *)
Shapes(n) ==
    {[i \in 1..n |-> f[IF i = n THEN 3 ELSE (i % 2) + 1]] :
        f \in {<<0, 0, 0>>, <<2, 2, 2>>, <<1, 1, 5>>, <<3, 3, 4>>, <<4, 4, 1>>, <<2, 3, 4>>,
               <<1, 7, 4>>}}

ShapedWindows == UNION {[Metrics -> Shapes(n)] : n \in {1, 4}}

ScoreMoves == {<<1, 7>>, <<3, 0>>}

MetricUnits == {<<1, 7>>, <<5, 0>>, <<-1, 9>>}

RampSteps == -2..3

(* A calm host without errors, two heights of two metrics, and both raised.*)
HostRows ==
    {[m \in Metrics |-> CASE m = "latency_ms" -> v[1] [] m = "error_rate_pct" -> v[2]
                         [] OTHER -> 2] :
        v \in {<<2, 0>>, <<3, 0>>, <<5, 0>>, <<2, 1>>, <<2, 4>>, <<3, 4>>}}
-----------------------------------------------------------------------------
(* `If a new score is higher than 95% of what's been typical' (docstring,  *)
(* dynamic_threshold.py:11-13): of a history only the top 100 - Percentile *)
(* percent of its scores can lie above the threshold, the new one included,*)
(* and a new maximum always does; no verdict before MinHistory scores.     *)
AnomaliesAreTheTopShare ==
    history # <<>> =>
        LET threshold == ScaledThreshold(history)
            above == {i \in DOMAIN history : 100 * history[i] > threshold}
            maximum == \A i \in 1..(Len(history) - 1) : history[i] < Last(history)
        IN  /\ 100 * Cardinality(above) <= (100 - Percentile) * (Len(history) - 1) + 99
            /\ IsAnomaly(history) =>
                  Len(history) \in above /\ Len(history) >= MinHistory
            /\ Percentile < 100 /\ Len(history) \in (MinHistory..MaxHistory) \ {1} /\ maximum
                  => IsAnomaly(history)

(* The verdict depends on the host's own baseline only: shifting or scaling*)
(* all its scores changes neither verdict nor severity; and a worse score  *)
(* on the same past is judged at least as severely, although it raises the *)
(* threshold and the deviation it is held against (dynamic_threshold.py:   *)
(* 3-6 and 48-64).                                                         *)
VerdictFollowsBaseline ==
    history # <<>> =>
        LET worse == [history EXCEPT ![Len(history)] = @ + 1]
        IN  /\ \A change \in Moves :
                  LET moved == [i \in DOMAIN history |-> change[1] * history[i] + change[2]]
                  IN  /\ IsAnomaly(moved) = IsAnomaly(history)
                      /\ IsAnomaly(history) => IsCritical(moved) = IsCritical(history)
            /\ IsAnomaly(history) => IsAnomaly(worse)
            /\ IsAnomaly(history) /\ IsCritical(history) => IsCritical(worse)
-----------------------------------------------------------------------------
Xs == SmoothedTimes(points)
Ys == SmoothedScores(points)

(* The R^2 gate decides by the residuals of the fitted line, 1 - ss_res /  *)
(* ss_tot >= the limit (trend_forecast.py:72-85), here with slope C/D and  *)
(* intercept cleared of denominators.                                      *)
GateMatchesResiduals ==
    LET n == Len(Xs)
        D == Covariance(Xs, Xs)
        C == Covariance(Xs, Ys)
        residual(i) == n * D * Ys[i] - n * C * Xs[i] - (D * Total(Ys) - C * Total(Xs))
        squares == Total([i \in 1..n |-> residual(i) * residual(i)])
    IN  n >= 2 /\ D > 0 /\ Covariance(Ys, Ys) > 0 =>
          (FitsWell(Xs, Ys)
             <=> 100 * squares <= (100 - MinRSquared) * Covariance(Ys, Ys) * n * D * D)

SteadyRamp(step, tick) ==
    \A i \in 1..(Len(points) - 1) :
        /\ points[i + 1].ts - points[i].ts = tick
        /\ points[i + 1].score - points[i].score = step

(* A steady ramp of enough points is predicted exactly when it rises and   *)
(* the time until it, trailing by half the smoothing window, meets the     *)
(* threshold is within the horizon; flat and falling ones never are        *)
(* (trend_forecast.py:16-24, 73-92).                                       *)
RampIsForecastExactly ==
    \A step \in Steps, tick \in Ticks, threshold \in Thresholds :
        /\ Len(points) >= MinPoints /\ Len(points) >= 2 /\ Len(points) > SmoothingWindow
        /\ SteadyRamp(step, tick)
        => LET trailing == 100 * step * (SmoothingScale(points) - 1)  \* twice the lag, times 100
               gap == 2 * threshold - 200 * Last(points).score + trailing
           IN  PredictsBreach(points, threshold)
                 <=> step > 0 /\ gap >= 0 /\ gap * tick <= 200 * step * HorizonSeconds
-----------------------------------------------------------------------------
(* The metric an alert is said to be about does not depend on the units it *)
(* or any other is measured in, nor on its sign: percentages, milliseconds *)
(* and error rates are comparable (alert_context.py:30-50).                *)
DominanceIgnoresUnits ==
    windows # NoWindows =>
        \A m \in Metrics, change \in Units :
            LET moved == [windows EXCEPT ![m] =
                            [i \in DOMAIN @ |-> change[1] * @[i] + change[2]]]
            IN  DominantMetric(moved) = DominantMetric(windows)
-----------------------------------------------------------------------------
OnlyMover(m) ==
    \A other \in Metrics \ {m} : \A i \in DOMAIN table :
        table[i].value[other] = table[1].value[other]

(* From row start on metric m is above all it was before, and it does not  *)
(* fall again.                                                             *)
RisesAt(m, start) ==
    \A i, j \in DOMAIN table :
        i < j =>
            IF i < start /\ start <= j THEN table[i].value[m] < table[j].value[m]
            ELSE start <= i => table[i].value[m] <= table[j].value[m]

(* Row i is among those query_recent_metrics finds.                        *)
InReach(i, now) ==
    /\ table[i].ts >= now - QuerySeconds
    /\ Len(table) - i < QueryLimit

(* The tools and the mock, which go by other rows and another measure, tell*)
(* one story about an incident that one metric makes and that still lasts  *)
(* when the tool runs, however long after the alert and whatever number of *)
(* rows later, if the alert brought along a row from before the incident   *)
(* and the query still finds one (alert_context.py:31-34, llm_client.py:   *)
(* 167-183, query_recent_metrics.py:14-24).                                *)
IncidentTellsOneStory ==
    \A m \in Metrics, start \in DOMAIN table \ {1}, delay \in Delays :
        LET now == Last(table).ts + delay
        IN  OnlyMover(m) /\ RisesAt(m, start) /\ InReach(start - 1, now)
              => /\ InferredMetric(ValuesOf(QueryRecentMetrics(table, now))) = m
                 /\ \A a \in start..Len(table) : \A n \in (a - start + 2)..a :
                      DominantMetric(ValuesOf(RecentMetrics(table, a, n))) = m
=============================================================================
