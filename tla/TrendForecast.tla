---------------------------- MODULE TrendForecast ----------------------------
(***************************************************************************)
(* services/detector/app/trend_forecast.py: the early-warning forecast.    *)
(* `points' is HostModelState.trend_window after the new point was         *)
(* appended: a sequence of [ts, score].  The least-squares line, its R^2   *)
(* and the time to breach are ratios of integers, compared by              *)
(* cross-multiplication; the forecast is reduced to whether evaluate()     *)
(* returns a number or None.                                               *)
(***************************************************************************)
EXTENDS Integers, Sequences, SequencesExt

CONSTANTS
    MinPoints,        \* det_trend_min_points
    SmoothingWindow,  \* det_trend_smoothing_window
    MinRSquared,      \* det_trend_min_r_squared, in percent
    HorizonSeconds    \* det_trend_horizon_minutes * 60

ASSUME MinPointsAssumption   == MinPoints \in Nat
ASSUME SmoothingAssumption   == SmoothingWindow \in Nat
ASSUME MinRSquaredAssumption == MinRSquared \in 1..100
ASSUME HorizonAssumption     == HorizonSeconds \in Nat

Total(s) == FoldLeft(LAMBDA acc, x : acc + x, 0, s)

Smooths(points) == SmoothingWindow > 1 /\ Len(points) >= SmoothingWindow

(* The factor by which SmoothedScores exceeds the smoothed scores.         *)
SmoothingScale(points) == IF Smooths(points) THEN SmoothingWindow ELSE 1

(* _trailing_moving_average, each mean times SmoothingScale: the sums of   *)
(* the full windows.                                                       *)
SmoothedScores(points) ==
    IF Smooths(points)
    THEN [i \in 1..(Len(points) - SmoothingWindow + 1) |->
             Total([j \in 1..SmoothingWindow |-> points[i + j - 1].score])]
    ELSE [i \in DOMAIN points |-> points[i].score]

(* Seconds since the first point, aligned to the last element of a window. *)
SmoothedTimes(points) ==
    LET skip == IF Smooths(points) THEN SmoothingWindow - 1 ELSE 0
    IN  [i \in 1..(Len(points) - skip) |-> points[i + skip].ts - points[1].ts]

(* n*n times the covariance of two sequences of one length.                *)
Covariance(xs, ys) ==
    Len(xs) * Total([i \in DOMAIN xs |-> xs[i] * ys[i]]) - Total(xs) * Total(ys)

(* np.polyfit(xs, ys, 1) has a positive slope.  When only the first point  *)
(* has a time of its own, all xs are equal and polyfit returns a line whose*)
(* R^2 is 0, which the gate below (at least 1 percent) refuses: the fit    *)
(* counts as not rising.  Windows whose points all carry one time, where   *)
(* polyfit raises, are left out: the generator stamps one event per tick.  *)
Rising(xs, ys) == Covariance(xs, xs) > 0 /\ Covariance(xs, ys) > 0

(* Faulty: the limit applied to the correlation, not to its square.        *)
FitsWellByCorrelation(xs, ys) ==
    /\ Covariance(ys, ys) > 0
    /\ 10000 * Covariance(xs, ys) * Covariance(xs, ys)
         >= MinRSquared * MinRSquared * Covariance(xs, xs) * Covariance(ys, ys)

(* r_squared >= det_trend_min_r_squared; 0 when the scores are all equal.  *)
FitsWell(xs, ys) ==
    /\ Covariance(ys, ys) > 0
    /\ 100 * Covariance(xs, ys) * Covariance(xs, ys)
         >= MinRSquared * Covariance(xs, xs) * Covariance(ys, ys)

(* Faulty: a breach that is due now is not counted.                        *)
BreachesLater(xs, ys, scale, scaled_threshold) ==
    LET gap == scale * scaled_threshold - 100 * Last(ys)
    IN  /\ gap > 0
        /\ gap * Covariance(xs, xs) <= 100 * HorizonSeconds * Covariance(xs, ys)

(* 0 <= (threshold - last smoothed score) / slope <= horizon, for a rising *)
(* line; the threshold comes times 100.                                    *)
BreachesWithinHorizon(xs, ys, scale, scaled_threshold) ==
    LET gap == scale * scaled_threshold - 100 * Last(ys)
    IN  /\ gap >= 0
        /\ gap * Covariance(xs, xs) <= 100 * HorizonSeconds * Covariance(xs, ys)

(* evaluate() returns a number of minutes.  The caller has checked that a  *)
(* threshold exists and that the event itself is no anomaly.               *)
PredictsBreach(points, scaled_threshold) ==
    LET xs == SmoothedTimes(points)
        ys == SmoothedScores(points)
    IN  /\ Len(points) >= MinPoints
        /\ Len(ys) >= 2
        /\ Rising(xs, ys)
        /\ FitsWell(xs, ys)
        /\ BreachesWithinHorizon(xs, ys, SmoothingScale(points), scaled_threshold)
=============================================================================
