--------------------------- MODULE DetectorProofs ---------------------------
(***************************************************************************)
(* Theorems of the detector, for every value of its constants.  The        *)
(* arithmetic of thresholds and forecasts stays closed in these proofs:    *)
(* nothing below depends on which events are anomalies.                    *)
(***************************************************************************)
EXTENDS DetectorProperties, SequenceTheorems, FiniteSetTheorems, TLAPS

(* deque.append keeps a deque a deque.                                     *)
LEMMA PushType ==
    ASSUME NEW S, NEW deque \in Seq(S), NEW x \in S, NEW limit
    PROVE  Push(deque, x, limit) \in Seq(S)
<1>1. Append(deque, x) \in Seq(S) /\ Append(deque, x) # <<>>
  BY AppendProperties
<1>2. Tail(Append(deque, x)) \in Seq(S)
  BY <1>1, HeadTailProperties
<1> QED  BY <1>1, <1>2 DEF Push

(* The smaller of two naturals is a natural.                               *)
LEMMA MinType == \A a, b \in Nat : Min({a, b}) \in Nat
<1> SUFFICES ASSUME NEW a \in Nat, NEW b \in Nat
             PROVE  Min({a, b}) \in Nat
  OBVIOUS
<1>1. \E x \in {a, b} : \A y \in {a, b} : x <= y
  OBVIOUS
<1>2. Min({a, b}) \in {a, b}
  BY <1>1 DEF Min
<1> QED  BY <1>2

(* The verdict on a scored event: three flags and one of the severities.   *)
LEMMA VerdictTypes ==
    ASSUME NEW state, NEW now
    PROVE  /\ IsAnomaly(state.score_history) \in BOOLEAN
           /\ ShouldPublishAlert(state, now) \in BOOLEAN
           /\ Predicted(state) \in BOOLEAN
           /\ Severity(state.score_history) \in Severities
<1>1. IsAnomaly(state.score_history) \in BOOLEAN
  BY DEF IsAnomaly
<1>2. ShouldPublishAlert(state, now) \in BOOLEAN
  BY DEF ShouldPublishAlert
<1>3. Predicted(state) \in BOOLEAN
  BY DEF Predicted
<1>4. Severity(state.score_history) \in Severities
  BY DEF Severity, Severities
<1> QED  BY <1>1, <1>2, <1>3, <1>4

(* A host the registry has not seen yet gets a HostModelState.             *)
LEMMA FreshStateType == FreshState \in HostModelState
BY DEF FreshState, HostModelState

(* compute_feature_vector keeps a HostModelState a HostModelState.         *)
LEMMA ComputeFeatureVectorType ==
    ASSUME NEW state \in HostModelState, NEW offset \in Nat
    PROVE  ComputeFeatureVector(state, offset) \in HostModelState
<1>1. Push(state.raw_buffer, offset, RollingWindow) \in Seq(Nat)
  BY PushType DEF HostModelState
<1> QED  BY <1>1 DEF ComputeFeatureVector, HostModelState

(* Setting one field of a HostModelState.                                  *)
LEMMA CounterUpdate ==
    ASSUME NEW state \in HostModelState, NEW n \in Nat
    PROVE  /\ [state EXCEPT !.warmup_features = n] \in HostModelState
           /\ [state EXCEPT !.train_window = n] \in HostModelState
           /\ [state EXCEPT !.events_since_fit = n] \in HostModelState
           /\ [state EXCEPT !.model_version = n] \in HostModelState
           /\ [state EXCEPT !.is_warmed_up = TRUE] \in HostModelState
BY DEF HostModelState

(* So does an event before the model is fitted, with or without the fit.   *)
LEMMA WarmUpType ==
    ASSUME NEW state \in HostModelState
    PROVE  WarmUp(state) \in HostModelState
<1> DEFINE window == Min({state.warmup_features + 1, TrainWindowSize})
           a == [state EXCEPT !.model_version = state.model_version + 1]
           b == [a EXCEPT !.train_window = window]
           c == [b EXCEPT !.is_warmed_up = TRUE]
           d == [c EXCEPT !.warmup_features = 0]
           e == [d EXCEPT !.events_since_fit = 0]
           f == [state EXCEPT !.warmup_features = state.warmup_features + 1]
           g == [f EXCEPT !.events_since_fit = state.events_since_fit + 1]
<1>1. /\ state.warmup_features + 1 \in Nat
      /\ state.model_version + 1 \in Nat
      /\ state.events_since_fit + 1 \in Nat
      /\ TrainWindowSize \in Nat
  BY SizesAssumption DEF HostModelState
<1>2. window \in Nat
  BY <1>1, MinType
<1>3. e \in HostModelState
  <2>1. a \in HostModelState
    BY <1>1, CounterUpdate
  <2>2. b \in HostModelState
    <3> HIDE DEF a, window
    <3> QED  BY <1>2, <2>1, CounterUpdate
  <2>3. c \in HostModelState
    <3> HIDE DEF b
    <3> QED  BY <2>2, CounterUpdate
  <2>4. d \in HostModelState
    <3> HIDE DEF c
    <3> QED  BY <2>3, CounterUpdate
  <2>5. e \in HostModelState
    <3> HIDE DEF d
    <3> QED  BY <2>4, CounterUpdate
  <2> QED  BY <2>5
<1>4. g \in HostModelState
  <2>1. f \in HostModelState
    BY <1>1, CounterUpdate
  <2>2. g \in HostModelState
    <3> HIDE DEF f
    <3> QED  BY <1>1, <2>1, CounterUpdate
  <2> QED  BY <2>2
<1>5. WarmUp(state) = IF WarmupDone(state) THEN e ELSE g
  BY Zenon DEF WarmUp
<1> HIDE DEF e, g
<1> QED  BY <1>3, <1>4, <1>5

(* So does an event after it, with or without a refit.                     *)
LEMMA TrainType ==
    ASSUME NEW state \in HostModelState
    PROVE  Train(state) \in HostModelState
<1> DEFINE window  == Min({state.train_window + 1, TrainWindowSize})
           refit   == RefitDue(state, window)
           events  == IF refit THEN 0 ELSE state.events_since_fit + 1
           version == IF refit THEN state.model_version + 1 ELSE state.model_version
           a == [state EXCEPT !.train_window = window]
           b == [a EXCEPT !.events_since_fit = events]
           c == [b EXCEPT !.model_version = version]
<1>1. state.train_window + 1 \in Nat /\ TrainWindowSize \in Nat
  BY SizesAssumption DEF HostModelState
<1>2. window \in Nat
  BY <1>1, MinType
<1>3. events \in Nat /\ version \in Nat
  <2> HIDE DEF refit
  <2> QED  BY DEF HostModelState
<1>4. Train(state) = c
  BY Zenon DEF Train
<1> HIDE DEF window, refit, events, version
<1>5. a \in HostModelState
  BY <1>2, CounterUpdate
<1>6. b \in HostModelState
  <2> HIDE DEF a
  <2> QED  BY <1>3, <1>5, CounterUpdate
<1>7. c \in HostModelState
  <2> HIDE DEF b
  <2> QED  BY <1>3, <1>6, CounterUpdate
<1> QED  BY <1>4, <1>7

(* So does recording a score in both histories.                            *)
LEMMA RecordScoreType ==
    ASSUME NEW state \in HostModelState, NEW raw_score \in Nat, NEW now \in Nat
    PROVE  RecordScore(state, raw_score, now) \in HostModelState
<1>1. Push(state.score_history, raw_score, HistorySize) \in Seq(Nat)
  BY PushType DEF HostModelState
<1>2. /\ [ts |-> now, score |-> raw_score] \in [ts : Nat, score : Nat]
      /\ state.trend_window \in Seq([ts : Nat, score : Nat])
  BY DEF HostModelState
<1>3. Push(state.trend_window, [ts |-> now, score |-> raw_score], TrendWindowSize)
        \in Seq([ts : Nat, score : Nat])
  BY <1>2, PushType
<1> QED  BY <1>1, <1>3 DEF RecordScore, HostModelState
-----------------------------------------------------------------------------
(* What the cooldowns need to know of the in-memory operations.            *)
LEMMA ClocksKept ==
    ASSUME NEW state \in HostModelState, NEW offset, NEW raw_score, NEW now
    PROVE  /\ ComputeFeatureVector(state, offset).last_alert_time = state.last_alert_time
           /\ ComputeFeatureVector(state, offset).last_early_warning_time
                = state.last_early_warning_time
           /\ WarmUp(state).last_alert_time = state.last_alert_time
           /\ WarmUp(state).last_early_warning_time = state.last_early_warning_time
           /\ Train(state).last_alert_time = state.last_alert_time
           /\ Train(state).last_early_warning_time = state.last_early_warning_time
           /\ RecordScore(state, raw_score, now).last_alert_time = state.last_alert_time
           /\ RecordScore(state, raw_score, now).last_early_warning_time
                = state.last_early_warning_time
<1>1. /\ ComputeFeatureVector(state, offset).last_alert_time = state.last_alert_time
      /\ ComputeFeatureVector(state, offset).last_early_warning_time
           = state.last_early_warning_time
  BY DEF ComputeFeatureVector, HostModelState
<1>2. /\ WarmUp(state).last_alert_time = state.last_alert_time
      /\ WarmUp(state).last_early_warning_time = state.last_early_warning_time
  BY DEF WarmUp, HostModelState
<1>3. /\ Train(state).last_alert_time = state.last_alert_time
      /\ Train(state).last_early_warning_time = state.last_early_warning_time
  BY DEF Train, HostModelState
<1>4. /\ RecordScore(state, raw_score, now).last_alert_time = state.last_alert_time
      /\ RecordScore(state, raw_score, now).last_early_warning_time
           = state.last_early_warning_time
  BY DEF RecordScore, HostModelState
<1> QED  BY <1>1, <1>2, <1>3, <1>4

(* The event poll() returns is an event of one of the hosts.               *)
LEMMA NextEvent ==
    ASSUME TypeOK, NEW p \in Partitions, position[p] < Len(telemetry[p])
    PROVE  /\ telemetry[p][position[p] + 1] \in Event
           /\ position[p] + 1 \in Nat
<1>1. telemetry[p] \in Seq(Event) /\ position[p] \in Nat
  BY TelemetryAssumption DEF TypeOK
<1>2. position[p] + 1 \in 1..Len(telemetry[p])
  BY <1>1
<1> QED  BY <1>1, <1>2, ElementOfSeq

(* One poll, as far as types and cooldowns are concerned: a job that raises*)
(* no early warning yet, and a state whose reactive clock moved to the     *)
(* event's time exactly if an alert will be published, which an active     *)
(* cooldown forbids.                                                       *)
LEMMA ConsumeEffect ==
    ASSUME TypeOK, NEW p \in Partitions, ConsumeWarmup(p) \/ ConsumeScored(p)
    PROVE  \E h \in Hosts, s \in HostModelState, j \in Job :
              /\ states' = [states EXCEPT ![h] = s]
              /\ job' = j
              /\ j.host = h
              /\ ~j.is_early_warning
              /\ s.last_early_warning_time = states[h].last_early_warning_time
              /\ IF j.should_publish_alert
                 THEN /\ s.last_alert_time = j.ts
                      /\ ~CooldownActive(states[h].last_alert_time, j.ts)
                 ELSE s.last_alert_time = states[h].last_alert_time
<1> DEFINE event == telemetry[p][position[p] + 1]
           h     == event.host
           o     == position[p] + 1
           state == ComputeFeatureVector(states[h], o)
<1>1. event \in Event /\ o \in Nat
  BY NextEvent DEF ConsumeWarmup, ConsumeScored, PollEvent
<1>2. h \in Hosts /\ event.ts \in Nat
  BY <1>1 DEF Event
<1>3. states[h] \in HostModelState
  BY <1>2 DEF TypeOK
<1>4. /\ state \in HostModelState
      /\ state.last_alert_time = states[h].last_alert_time
      /\ state.last_early_warning_time = states[h].last_early_warning_time
  BY <1>1, <1>3, ComputeFeatureVectorType, ClocksKept
<1>5. CASE ConsumeWarmup(p)
  <2> DEFINE s == WarmUp(state)
             j == JobFor(p, FALSE, FALSE, "none", FALSE, FALSE)
  <2>1. states' = [states EXCEPT ![h] = s] /\ job' = j
    BY <1>5 DEF ConsumeWarmup
  <2>2. /\ s \in HostModelState
        /\ s.last_alert_time = states[h].last_alert_time
        /\ s.last_early_warning_time = states[h].last_early_warning_time
    BY <1>4, WarmUpType, ClocksKept
  <2>3. "none" \in Severities
    BY DEF Severities
  <2>4. /\ j \in Job
        /\ j.host = h
        /\ j.is_early_warning = FALSE
        /\ j.should_publish_alert = FALSE
    BY <1>1, <1>2, <2>3 DEF JobFor, Job
  <2> HIDE DEF s, j, h
  <2> QED  BY <1>2, <2>1, <2>2, <2>4
<1>6. CASE ConsumeScored(p)
  <2>1. PICK raw_score \in Scores :
          LET scored  == RecordScore(Train(state), raw_score, event.ts)
              publish == ShouldPublishAlert(scored, event.ts)
          IN  /\ states' = [states EXCEPT ![h] =
                              IF publish THEN [scored EXCEPT !.last_alert_time = event.ts]
                                         ELSE scored]
              /\ job' = JobFor(p, TRUE, IsAnomaly(scored.score_history),
                               Severity(scored.score_history), publish, Predicted(scored))
    BY <1>6, Zenon DEF ConsumeScored, AlertArmed
  <2> DEFINE scored  == RecordScore(Train(state), raw_score, event.ts)
             publish == ShouldPublishAlert(scored, event.ts)
             s == IF publish THEN [scored EXCEPT !.last_alert_time = event.ts] ELSE scored
             j == JobFor(p, TRUE, IsAnomaly(scored.score_history),
                         Severity(scored.score_history), publish, Predicted(scored))
  <2>2. states' = [states EXCEPT ![h] = s] /\ job' = j
    BY <2>1, Zenon
  <2>3. /\ scored \in HostModelState
        /\ scored.last_alert_time = states[h].last_alert_time
        /\ scored.last_early_warning_time = states[h].last_early_warning_time
    <3>1. /\ Train(state) \in HostModelState
          /\ Train(state).last_alert_time = states[h].last_alert_time
          /\ Train(state).last_early_warning_time = states[h].last_early_warning_time
      BY <1>4, TrainType, ClocksKept
    <3>2. raw_score \in Nat
      BY ScoresAssumption
    <3> HIDE DEF event, state, h
    <3>3. scored \in HostModelState
      BY <1>2, <3>1, <3>2, RecordScoreType
    <3>4. /\ scored.last_alert_time = Train(state).last_alert_time
          /\ scored.last_early_warning_time = Train(state).last_early_warning_time
      BY <3>1, ClocksKept
    <3> QED  BY <3>1, <3>3, <3>4
  <2>4. publish => ~CooldownActive(states[h].last_alert_time, event.ts)
    BY <2>3 DEF ShouldPublishAlert
  <2>5. /\ publish \in BOOLEAN
        /\ j \in Job
        /\ j.host = h
        /\ j.ts = event.ts
        /\ j.is_early_warning = FALSE
        /\ j.should_publish_alert = publish
    <3>1. /\ IsAnomaly(scored.score_history) \in BOOLEAN
          /\ publish \in BOOLEAN
          /\ Predicted(scored) \in BOOLEAN
          /\ Severity(scored.score_history) \in Severities
          /\ TRUE \in BOOLEAN
      BY VerdictTypes
    <3> HIDE DEF publish, scored
    <3> QED  BY <1>1, <1>2, <3>1 DEF JobFor, Job
  <2> HIDE DEF scored, publish, j, h
  <2>6. /\ s \in HostModelState
        /\ s.last_early_warning_time = scored.last_early_warning_time
        /\ s.last_alert_time = IF publish THEN event.ts ELSE scored.last_alert_time
    BY <1>2, <2>3 DEF HostModelState
  <2> HIDE DEF s, event
  <2> QED  BY <1>2, <2>2, <2>3, <2>4, <2>5, <2>6
<1> QED  BY <1>5, <1>6
-----------------------------------------------------------------------------
(* The detector starts with every variable in its type.                    *)
LEMMA TypeInit == Init => TypeOK
<1> SUFFICES ASSUME Init PROVE TypeOK
  OBVIOUS
<1>1. states \in [Hosts -> HostModelState]
  BY FreshStateType DEF Init
<1>2. 1 \in 1..MaxLives /\ 0 \in 0..MaxFaults /\ 0 \in 0..MaxRejoins
  BY BoundsAssumption
<1> QED  BY <1>1, <1>2 DEF Init, TypeOK

(* A raise counts as a fault and ends the handler.                         *)
LEMMA RaiseType == TypeOK /\ Raise => faults' \in 0..MaxFaults
BY BoundsAssumption DEF TypeOK, Raise

(* Every step, a crash or an exception included, keeps the types.          *)
LEMMA TypeStep == TypeOK /\ [Next]_vars => TypeOK'
<1> SUFFICES ASSUME TypeOK, [Next]_vars PROVE TypeOK'
  OBVIOUS
<1>1. CASE Consume
  <2>1. PICK p \in Partitions : ConsumeWarmup(p) \/ ConsumeScored(p)
    BY <1>1 DEF Consume
  <2>2. PICK h \in Hosts, s \in HostModelState, j \in Job :
           states' = [states EXCEPT ![h] = s] /\ job' = j
    BY <2>1, ConsumeEffect
  <2>3. states' \in [Hosts -> HostModelState] /\ job' \in Job
    BY <2>2 DEF TypeOK
  <2>4. PollEvent(p)
    BY <2>1 DEF ConsumeWarmup, ConsumeScored
  <2>5. position' \in [Partitions -> Nat]
    BY <2>4 DEF TypeOK, PollEvent
  <2> QED  BY <2>3, <2>4, <2>5 DEF TypeOK, PollEvent, log_vars, table_vars
<1>2. CASE InsertMetric
  <2>1. job \in Job /\ life \in Nat /\ metrics \in Seq(MetricRow)
    BY <1>2, BoundsAssumption DEF TypeOK, InsertMetric
  <2>2. states[job.host].model_version \in Nat
    BY <2>1 DEF TypeOK, HostModelState, Job
  <2>3. metrics' \in Seq(MetricRow)
    <3> DEFINE row ==
          [host |-> job.host, partition |-> job.partition, offset |-> job.offset,
           ts |-> job.ts, is_anomaly |-> job.is_anomaly, severity |-> job.severity,
           predicted |-> job.predicted,
           model_version |-> IF job.scored THEN states[job.host].model_version ELSE 0,
           life |-> life]
    <3>1. row \in MetricRow
      BY <2>1, <2>2 DEF MetricRow, Job
    <3>2. metrics' = Append(metrics, row)
      BY <1>2 DEF InsertMetric
    <3> HIDE DEF row
    <3> QED  BY <2>1, <3>1, <3>2
  <2>4. faults' \in 0..MaxFaults
    BY <1>2, RaiseType DEF TypeOK, InsertMetric
  <2>5. /\ pc' \in {"poll", "insert_alert", "early_warning"}
        /\ IF pc' = "poll" THEN job' = NoJob ELSE job' \in Job
    <3>1. [job EXCEPT !.metrics_id = Len(metrics) + 1] \in Job
      BY <2>1 DEF Job
    <3> QED  BY <1>2, <3>1 DEF InsertMetric, Return, Raise
  <2> QED  BY <1>2, <2>3, <2>4, <2>5 DEF TypeOK, InsertMetric, log_vars
<1>3. CASE InsertAlert
  <2>1. job \in Job /\ life \in Nat /\ alerts \in Seq(AlertRow)
    BY <1>3, BoundsAssumption DEF TypeOK, InsertAlert
  <2>2. states[job.host].raw_buffer \in Seq(Nat)
    BY <2>1 DEF TypeOK, HostModelState, Job
  <2>3. alerts' \in Seq(AlertRow)
    <3> DEFINE row ==
          [host |-> job.host, partition |-> job.partition, offset |-> job.offset,
           triggered_at |-> job.ts,
           severity |-> IF job.is_early_warning THEN "warning" ELSE job.severity,
           metrics_id |-> job.metrics_id, is_early_warning |-> job.is_early_warning,
           recent_metrics |-> states[job.host].raw_buffer, life |-> life]
    <3>1. row \in AlertRow
      BY <2>1, <2>2 DEF AlertRow, Job, Severities
    <3>2. alerts' = Append(alerts, row)
      BY <1>3 DEF InsertAlert
    <3> HIDE DEF row
    <3> QED  BY <2>1, <3>1, <3>2
  <2>4. faults' \in 0..MaxFaults
    BY <1>3, RaiseType DEF TypeOK, InsertAlert
  <2>5. /\ pc' \in {"poll", "publish_alert"}
        /\ IF pc' = "poll" THEN job' = NoJob ELSE job' \in Job
    BY <1>3, <2>1 DEF InsertAlert, Return, Raise
  <2> QED  BY <1>3, <2>3, <2>4, <2>5 DEF TypeOK, InsertAlert, log_vars
<1>4. CASE PublishAlert
  <2>1. Len(alerts) \in Nat
    BY DEF TypeOK
  <2>2. produced' \in Seq(Nat)
    BY <1>4, <2>1 DEF TypeOK, PublishAlert, AlertToPublish
  <2>3. /\ pc' \in {"poll", "early_warning"}
        /\ IF pc' = "poll" THEN job' = NoJob ELSE job' \in Job
    BY <1>4 DEF TypeOK, PublishAlert, Return
  <2> QED  BY <1>4, <2>2, <2>3 DEF TypeOK, PublishAlert, log_vars
<1>5. CASE EarlyWarning
  <2>1. job \in Job
    BY <1>5 DEF TypeOK, EarlyWarning
  <2>2. states' \in [Hosts -> HostModelState]
    <3>1. job.host \in Hosts /\ job.ts \in Nat
      BY <2>1 DEF Job
    <3>2. EarlyWarningArmed(states[job.host]) \in HostModelState
      <4>1. states[job.host] \in HostModelState
        BY <3>1 DEF TypeOK
      <4> QED  BY <3>1, <4>1 DEF EarlyWarningArmed, HostModelState
    <3> QED  BY <1>5, <3>1, <3>2 DEF TypeOK, EarlyWarning
  <2>3. /\ pc' \in {"poll", "insert_alert"}
        /\ IF pc' = "poll" THEN job' = NoJob ELSE job' \in Job
    <3>1. [job EXCEPT !.is_early_warning = TRUE] \in Job
      BY <2>1 DEF Job
    <3> QED  BY <1>5, <3>1 DEF EarlyWarning, Return
  <2> QED  BY <1>5, <2>2, <2>3 DEF TypeOK, EarlyWarning, table_vars, log_vars
<1>6. CASE HandlerFails
  <2>1. faults' \in 0..MaxFaults
    BY <1>6, RaiseType DEF HandlerFails
  <2> QED  BY <1>6, <2>1 DEF TypeOK, HandlerFails, Raise, Return, table_vars, log_vars
<1>7. CASE CommitOffsets
  BY <1>7 DEF TypeOK, CommitOffsets, StoredOffsets, table_vars, log_vars
<1>8. CASE Crash
  <2>1. states' \in [Hosts -> HostModelState]
    BY <1>8, FreshStateType DEF Crash
  <2>2. life' \in 1..MaxLives
    BY <1>8, BoundsAssumption DEF TypeOK, Crash
  <2> QED  BY <1>8, <2>1, <2>2 DEF TypeOK, Crash, ResumeOffsets, Return, table_vars
<1>9. CASE Rejoin
  <2>1. rejoins' \in 0..MaxRejoins
    BY <1>9, BoundsAssumption DEF TypeOK, Rejoin
  <2> QED  BY <1>9, <2>1 DEF TypeOK, Rejoin, ResumeOffsets, table_vars
<1>10. CASE UNCHANGED vars
  BY <1>10 DEF TypeOK, vars
<1> QED  BY <1>1, <1>2, <1>3, <1>4, <1>5, <1>6, <1>7, <1>8, <1>9, <1>10 DEF Next, Handle

(* The variables keep their types: in particular the tables hold complete  *)
(* rows only, and the handler has locals exactly while it runs.            *)
THEOREM TypeCorrect == Spec => []TypeOK
BY TypeInit, TypeStep, PTL DEF Spec
-----------------------------------------------------------------------------
(* A cooldown clock holds a time, or none.                                 *)
LEMMA ClockType ==
    ASSUME TypeOK, NEW h \in Hosts, NEW early \in BOOLEAN
    PROVE  Clock(h, early) \in Nat \cup {NoTime}
<1>1. states[h] \in HostModelState
  BY DEF TypeOK
<1> QED  BY <1>1 DEF Clock, HostModelState

(* The columns of an alerts row that the cooldowns are about.              *)
LEMMA AlertType ==
    ASSUME TypeOK, NEW i \in DOMAIN alerts
    PROVE  /\ alerts[i].host \in Hosts
           /\ alerts[i].is_early_warning \in BOOLEAN
           /\ alerts[i].triggered_at \in Nat
           /\ alerts[i].life \in Nat
<1>1. alerts[i] \in AlertRow
  BY ElementOfSeq DEF TypeOK
<1> QED  BY <1>1 DEF AlertRow

(* A cooldown that is not active lies behind every time before the clock.  *)
LEMMA CooldownOver ==
    ASSUME NEW last \in Nat \cup {NoTime}, NEW now \in Nat, NEW ts \in Nat,
           ~CooldownActive(last, now), last # NoTime, ts <= last
    PROVE  ts + CooldownSeconds <= now
BY CooldownAssumption, NoTimeAssumption DEF CooldownActive

(* A step that moves no clock, raises no alert and arms nothing anew.      *)
LEMMA QuietStep ==
    ASSUME TypeOK, ClocksCoverAlerts, UNCHANGED <<states, alerts, life>>,
           pc' = "insert_metric" => ~job'.is_early_warning,
           \A h \in Hosts, early \in BOOLEAN :
              Arming(h, early)' => Arming(h, early) /\ job'.ts = job.ts
    PROVE  ClocksCoverAlerts'
<1>1. ASSUME NEW h \in Hosts, NEW early \in BOOLEAN
      PROVE  /\ Clock(h, early)' = Clock(h, early)
             /\ Arming(h, early)' => Arming(h, early) /\ job'.ts = job.ts
             /\ Arming(h, early) => Clock(h, early) = job.ts
  <2>1. Clock(h, early)' = Clock(h, early)
    BY Zenon DEF Clock
  <2>2. Arming(h, early) => Clock(h, early) = job.ts
    BY <1>1, Zenon DEF ClocksCoverAlerts
  <2>3. Arming(h, early)' => Arming(h, early) /\ job'.ts = job.ts
    BY <1>1, Zenon
  <2> QED  BY <2>1, <2>2, <2>3
<1>2. ASSUME NEW i \in DOMAIN alerts, NEW h \in Hosts, NEW early \in BOOLEAN,
             CoveredByClock(i, h, early)
      PROVE  CoveredByClock(i, h, early)'
  <2>1. Clock(h, early)' = Clock(h, early) /\ (Arming(h, early)' => Arming(h, early))
    BY <1>1, <1>2
  <2> QED  BY <1>2, <2>1 DEF CoveredByClock
<1>3. \A h \in Hosts, early \in BOOLEAN : Arming(h, early)' => Clock(h, early)' = job'.ts
  BY <1>1, Zenon
<1>4. \A i \in DOMAIN alerts :
         /\ alerts[i].life <= life
         /\ CoveredByClock(i, alerts[i].host, alerts[i].is_early_warning)'
  BY <1>2, AlertType, Zenon DEF ClocksCoverAlerts
<1> QED  BY <1>3, <1>4 DEF ClocksCoverAlerts, CoveredByClock

(* Polling an event and arming the reactive clock for it.                  *)
LEMMA ConsumeCovers ==
    ASSUME TypeOK, ClocksCoverAlerts, Consume
    PROVE  ClocksCoverAlerts'
<1>1. PICK p \in Partitions : ConsumeWarmup(p) \/ ConsumeScored(p)
  BY DEF Consume
<1>2. /\ pc = "poll"
      /\ pc' = "insert_metric"
      /\ alerts' = alerts
      /\ life' = life
  BY <1>1 DEF ConsumeWarmup, ConsumeScored, PollEvent, log_vars, table_vars
<1>3. PICK h \in Hosts, s \in HostModelState, j \in Job :
         /\ states' = [states EXCEPT ![h] = s]
         /\ job' = j
         /\ j.host = h
         /\ ~j.is_early_warning
         /\ s.last_early_warning_time = states[h].last_early_warning_time
         /\ IF j.should_publish_alert
            THEN /\ s.last_alert_time = j.ts
                 /\ ~CooldownActive(states[h].last_alert_time, j.ts)
            ELSE s.last_alert_time = states[h].last_alert_time
  BY <1>1, ConsumeEffect
<1>4. /\ states' \in [Hosts -> HostModelState]
      /\ states'[h] = s
      /\ \A g \in Hosts : g # h => states'[g] = states[g]
  BY <1>3 DEF TypeOK
<1>5. j.ts \in Nat
  BY DEF Job
<1>6. \A g \in Hosts, early \in BOOLEAN :
         Arming(g, early)' <=> g = h /\ j.should_publish_alert /\ ~early
  BY <1>2, <1>3 DEF Arming
<1>7. \A g \in Hosts, early \in BOOLEAN : Arming(g, early)' => Clock(g, early)' = job'.ts
  <2> SUFFICES ASSUME NEW g \in Hosts, NEW early \in BOOLEAN, Arming(g, early)'
               PROVE  Clock(g, early)' = job'.ts
    OBVIOUS
  <2>1. g = h /\ j.should_publish_alert /\ ~early
    BY <1>6
  <2> QED  BY <1>3, <1>4, <2>1 DEF Clock
<1>8. ASSUME NEW i \in DOMAIN alerts, NEW g \in Hosts, NEW early \in BOOLEAN,
             CoveredByClock(i, g, early)
      PROVE  CoveredByClock(i, g, early)'
  <2>1. alerts[i].triggered_at \in Nat
    BY <1>8, AlertType
  <2>2. CASE Arming(g, early)'
    <3>1. g = h /\ j.should_publish_alert /\ ~early
      BY <1>6, <1>8, <2>2
    <3>2. /\ Clock(g, early) = states[h].last_alert_time
          /\ Clock(g, early)' = j.ts
      BY <1>3, <1>4, <3>1 DEF Clock
    <3>3. Clock(g, early) \in Nat \cup {NoTime}
      BY <1>8, ClockType
    <3>4. ~CooldownActive(Clock(g, early), j.ts)
      BY <1>3, <3>1, <3>2
    <3>5. alerts[i].life = life =>
             /\ Clock(g, early) # NoTime
             /\ alerts[i].triggered_at <= Clock(g, early)
      BY <1>8 DEF CoveredByClock
    <3>6. alerts[i].life = life => alerts[i].triggered_at + CooldownSeconds <= j.ts
      BY <1>5, <2>1, <3>3, <3>4, <3>5, CooldownOver
    <3>7. alerts[i].life = life => alerts[i].triggered_at <= j.ts /\ j.ts # NoTime
      BY <1>5, <2>1, <3>6, CooldownAssumption, NoTimeAssumption
    <3> QED  BY <1>2, <3>2, <3>6, <3>7 DEF CoveredByClock
  <2>3. CASE ~Arming(g, early)'
    <3>1. Clock(g, early)' = Clock(g, early)
      <4>1. g # h \/ early \/ ~j.should_publish_alert
        BY <1>6, <1>8, <2>3
      <4> QED  BY <1>3, <1>4, <1>8, <4>1 DEF Clock
    <3> QED  BY <1>2, <1>8, <2>3, <3>1 DEF CoveredByClock
  <2> QED  BY <2>2, <2>3
<1>9. \A i \in DOMAIN alerts :
         /\ alerts[i].life <= life
         /\ CoveredByClock(i, alerts[i].host, alerts[i].is_early_warning)'
  BY <1>2, <1>8, AlertType, Zenon DEF ClocksCoverAlerts
<1>10. pc' = "insert_metric" => ~job'.is_early_warning
  BY <1>3
<1>11. \A i \in DOMAIN alerts' :
         /\ alerts'[i].life <= life'
         /\ CoveredByClock(i, alerts[i].host, alerts[i].is_early_warning)'
  BY <1>2, <1>9
<1> QED  BY <1>7, <1>10, <1>11, Zenon DEF ClocksCoverAlerts

(* Arming the early-warning clock.                                         *)
LEMMA EarlyWarningCovers ==
    ASSUME TypeOK, ClocksCoverAlerts, EarlyWarning
    PROVE  ClocksCoverAlerts'
<1> DEFINE h == job.host
<1>1. /\ pc = "early_warning"
      /\ alerts' = alerts
      /\ life' = life
      /\ job \in Job
      /\ h \in Hosts
      /\ job.ts \in Nat
  BY DEF EarlyWarning, TypeOK, Job, log_vars, table_vars
<1>2. CASE pc' = "poll"
  <2>1. UNCHANGED <<states, alerts, life>>
    BY <1>1, <1>2 DEF EarlyWarning
  <2>2. \A g \in Hosts, early \in BOOLEAN : ~Arming(g, early)'
    BY <1>2 DEF Arming
  <2> QED  BY <1>2, <2>1, <2>2, QuietStep
<1>3. CASE pc' # "poll"
  <2>1. /\ ~CooldownActive(states[h].last_early_warning_time, job.ts)
        /\ states' = [states EXCEPT ![h] = EarlyWarningArmed(@)]
        /\ job' = [job EXCEPT !.is_early_warning = TRUE]
        /\ pc' = "insert_alert"
    BY <1>3 DEF EarlyWarning, EarlyWarningDue, Return
  <2>2. /\ states[h] \in HostModelState
        /\ states'[h] = EarlyWarningArmed(states[h])
        /\ \A g \in Hosts : g # h => states'[g] = states[g]
    BY <1>1, <2>1 DEF TypeOK
  <2>3. /\ states'[h].last_early_warning_time = job.ts
        /\ states'[h].last_alert_time = states[h].last_alert_time
    BY <2>2 DEF EarlyWarningArmed, HostModelState
  <2>4. job'.host = h /\ job'.ts = job.ts /\ job'.is_early_warning
    BY <1>1, <2>1 DEF Job
  <2> HIDE DEF h
  <2>5. \A g \in Hosts, early \in BOOLEAN : Arming(g, early)' <=> g = h /\ early
    BY <2>1, <2>4 DEF Arming
  <2>6. \A g \in Hosts, early \in BOOLEAN :
           Arming(g, early)' => Clock(g, early)' = job'.ts
    BY <2>3, <2>4, <2>5 DEF Clock
  <2>7. ASSUME NEW i \in DOMAIN alerts, NEW g \in Hosts, NEW early \in BOOLEAN,
               CoveredByClock(i, g, early)
        PROVE  CoveredByClock(i, g, early)'
    <3>1. alerts[i].triggered_at \in Nat
      BY <2>7, AlertType
    <3>2. CASE Arming(g, early)'
      <4>1. g = h /\ early
        BY <2>5, <2>7, <3>2
      <4>2. /\ Clock(g, early) = states[h].last_early_warning_time
            /\ Clock(g, early)' = job.ts
        BY <2>3, <4>1 DEF Clock
      <4>3. Clock(g, early) \in Nat \cup {NoTime}
        BY <2>7, ClockType
      <4>4. alerts[i].life = life =>
               /\ Clock(g, early) # NoTime
               /\ alerts[i].triggered_at <= Clock(g, early)
        BY <2>7 DEF CoveredByClock
      <4>5. alerts[i].life = life => alerts[i].triggered_at + CooldownSeconds <= job.ts
        BY <1>1, <2>1, <3>1, <4>2, <4>3, <4>4, CooldownOver
      <4>6. alerts[i].life = life => alerts[i].triggered_at <= job.ts /\ job.ts # NoTime
        BY <1>1, <3>1, <4>5, CooldownAssumption, NoTimeAssumption
      <4> QED  BY <1>1, <4>2, <4>5, <4>6 DEF CoveredByClock
    <3>3. CASE ~Arming(g, early)'
      <4>1. g # h \/ ~early
        BY <2>5, <2>7, <3>3
      <4>2. Clock(g, early)' = Clock(g, early)
        BY <2>2, <2>3, <2>7, <4>1 DEF Clock
      <4> QED  BY <1>1, <2>7, <3>3, <4>2 DEF CoveredByClock
    <3> QED  BY <3>2, <3>3
  <2>8. \A i \in DOMAIN alerts :
           /\ alerts[i].life <= life
           /\ CoveredByClock(i, alerts[i].host, alerts[i].is_early_warning)'
    BY <1>1, <2>7, AlertType, Zenon DEF ClocksCoverAlerts
  <2>9. pc' = "insert_metric" => ~job'.is_early_warning
    BY <2>1
  <2>10. \A i \in DOMAIN alerts' :
           /\ alerts'[i].life <= life'
           /\ CoveredByClock(i, alerts[i].host, alerts[i].is_early_warning)'
    BY <1>1, <2>8
  <2> QED  BY <2>6, <2>9, <2>10, Zenon DEF ClocksCoverAlerts
<1> QED  BY <1>2, <1>3

(* The alert being inserted is the one its clock was armed for.            *)
LEMMA InsertAlertEffect ==
    ASSUME TypeOK, ClocksCoverAlerts, InsertAlert
    PROVE  /\ job \in Job
           /\ Arming(job.host, job.is_early_warning)
           /\ Clock(job.host, job.is_early_warning) = job.ts
           /\ Len(alerts) \in Nat
           /\ DOMAIN alerts = 1..Len(alerts)
           /\ DOMAIN alerts' = 1..(Len(alerts) + 1)
           /\ \A i \in DOMAIN alerts : alerts'[i] = alerts[i]
           /\ alerts'[Len(alerts) + 1].host = job.host
           /\ alerts'[Len(alerts) + 1].is_early_warning = job.is_early_warning
           /\ alerts'[Len(alerts) + 1].triggered_at = job.ts
           /\ alerts'[Len(alerts) + 1].life = life
<1>1. pc = "insert_alert" /\ job \in Job
  BY DEF InsertAlert, TypeOK
<1>2. Arming(job.host, job.is_early_warning)
  BY <1>1 DEF Arming
<1>3. job.host \in Hosts /\ job.is_early_warning \in BOOLEAN
  BY <1>1 DEF Job
<1>4. Clock(job.host, job.is_early_warning) = job.ts
  BY <1>2, <1>3, Zenon DEF ClocksCoverAlerts
<1> DEFINE row ==
      [host |-> job.host, partition |-> job.partition, offset |-> job.offset,
       triggered_at |-> job.ts,
       severity |-> IF job.is_early_warning THEN "warning" ELSE job.severity,
       metrics_id |-> job.metrics_id, is_early_warning |-> job.is_early_warning,
       recent_metrics |-> states[job.host].raw_buffer, life |-> life]
<1>5. /\ row.host = job.host
      /\ row.is_early_warning = job.is_early_warning
      /\ row.triggered_at = job.ts
      /\ row.life = life
  OBVIOUS
<1>6. alerts' = Append(alerts, row)
  BY DEF InsertAlert
<1> HIDE DEF row
<1>7. /\ Len(alerts) \in Nat
      /\ DOMAIN alerts = 1..Len(alerts)
      /\ DOMAIN alerts' = 1..(Len(alerts) + 1)
      /\ \A i \in DOMAIN alerts : alerts'[i] = alerts[i]
      /\ alerts'[Len(alerts) + 1] = row
  BY <1>6 DEF TypeOK
<1> QED  BY <1>1, <1>2, <1>4, <1>5, <1>7

(* Inserting that alert: its clock has reached it already.                 *)
LEMMA InsertAlertCovers ==
    ASSUME TypeOK, ClocksCoverAlerts, InsertAlert
    PROVE  ClocksCoverAlerts'
<1> DEFINE n == Len(alerts) + 1
<1>1. /\ pc' # "insert_metric"
      /\ states' = states
      /\ life' = life
      /\ life \in Nat
      /\ \A h \in Hosts, early \in BOOLEAN : ~Arming(h, early)'
  BY BoundsAssumption DEF InsertAlert, Raise, Return, log_vars, Arming, TypeOK
<1>2. ASSUME NEW h \in Hosts, NEW early \in BOOLEAN
      PROVE  Clock(h, early)' = Clock(h, early) /\ ~Arming(h, early)'
  <2>1. Clock(h, early)' = Clock(h, early)
    BY <1>1, Zenon DEF Clock
  <2>2. ~Arming(h, early)'
    BY <1>1, Zenon
  <2> QED  BY <2>1, <2>2
<1>3. ASSUME NEW i \in DOMAIN alerts, NEW h \in Hosts, NEW early \in BOOLEAN,
             CoveredByClock(i, h, early)
      PROVE  CoveredByClock(i, h, early)'
  <2>1. alerts'[i] = alerts[i]
    BY <1>3, InsertAlertEffect
  <2>2. Clock(h, early)' = Clock(h, early) /\ ~Arming(h, early)'
    BY <1>2, <1>3
  <2> QED  BY <1>1, <1>3, <2>1, <2>2 DEF CoveredByClock
<1>4. ASSUME NEW i \in DOMAIN alerts
      PROVE  /\ alerts'[i].life <= life'
             /\ CoveredByClock(i, alerts[i].host, alerts[i].is_early_warning)'
  <2>1. alerts'[i] = alerts[i]
    BY <1>4, InsertAlertEffect
  <2>2. PICK h \in Hosts, early \in BOOLEAN :
           h = alerts[i].host /\ early = alerts[i].is_early_warning
    BY <1>4, AlertType
  <2>3. alerts[i].life <= life /\ CoveredByClock(i, h, early)
    BY <1>4, <2>2, Zenon DEF ClocksCoverAlerts
  <2>4. CoveredByClock(i, h, early)'
    BY <1>3, <1>4, <2>3
  <2> QED  BY <1>1, <2>1, <2>2, <2>3, <2>4
<1>5. ASSUME NEW i, i = n
      PROVE  /\ alerts'[i].life <= life'
             /\ CoveredByClock(i, alerts[i].host, alerts[i].is_early_warning)'
  <2>1. PICK h \in Hosts, early \in BOOLEAN :
           h = job.host /\ early = job.is_early_warning
    BY InsertAlertEffect DEF Job
  <2>2. /\ alerts'[i].host = h
        /\ alerts'[i].is_early_warning = early
        /\ alerts'[i].triggered_at = job.ts
        /\ alerts'[i].life = life
        /\ job.ts \in Nat
    BY <1>5, <2>1, InsertAlertEffect DEF Job
  <2>3. Clock(h, early)' = job.ts /\ ~Arming(h, early)'
    BY <1>2, <2>1, InsertAlertEffect
  <2>4. CoveredByClock(i, h, early)'
    BY <1>1, <2>2, <2>3, NoTimeAssumption DEF CoveredByClock
  <2> QED  BY <1>1, <2>2, <2>4
<1>6. \A i \in DOMAIN alerts' :
         /\ alerts'[i].life <= life'
         /\ CoveredByClock(i, alerts[i].host, alerts[i].is_early_warning)'
  <2>1. \A i \in DOMAIN alerts' : i \in DOMAIN alerts \/ i = n
    BY InsertAlertEffect
  <2> QED  BY <1>4, <1>5, <2>1, Zenon
<1> QED  BY <1>1, <1>6, Zenon DEF ClocksCoverAlerts

(* Every step preserves the strengthening.                                 *)
LEMMA ClocksStep ==
    ASSUME TypeOK, ClocksCoverAlerts, [Next]_vars
    PROVE  ClocksCoverAlerts'
<1>1. CASE Consume
  BY <1>1, ConsumeCovers
<1>2. CASE InsertMetric
  <2>1. UNCHANGED <<states, alerts, life>>
    BY <1>2 DEF InsertMetric, log_vars
  <2>2. pc = "insert_metric" /\ job \in Job /\ ~job.is_early_warning
    BY <1>2 DEF InsertMetric, TypeOK, ClocksCoverAlerts
  <2>3. \/ pc' \in {"poll", "early_warning"}
        \/ /\ pc' = "insert_alert"
           /\ job.should_publish_alert
           /\ job' = [job EXCEPT !.metrics_id = Len(metrics) + 1]
    BY <1>2 DEF InsertMetric, Raise, Return
  <2>4. \A h \in Hosts, early \in BOOLEAN :
           Arming(h, early)' => Arming(h, early) /\ job'.ts = job.ts
    BY <2>2, <2>3 DEF Arming, Job
  <2>5. pc' # "insert_metric"
    BY <2>3
  <2> QED  BY <2>1, <2>4, <2>5, QuietStep
<1>3. CASE InsertAlert
  BY <1>3, InsertAlertCovers
<1>4. CASE PublishAlert \/ HandlerFails
  <2>1. UNCHANGED <<states, alerts, life>>
    BY <1>4 DEF PublishAlert, HandlerFails, log_vars, table_vars
  <2>2. pc' \in {"poll", "early_warning"}
    BY <1>4 DEF PublishAlert, HandlerFails, Raise, Return
  <2>3. \A h \in Hosts, early \in BOOLEAN : ~Arming(h, early)'
    BY <2>2 DEF Arming
  <2> QED  BY <2>1, <2>2, <2>3, QuietStep
<1>5. CASE EarlyWarning
  BY <1>5, EarlyWarningCovers
<1>6. CASE CommitOffsets \/ Rejoin \/ UNCHANGED vars
  <2>1. UNCHANGED <<states, alerts, life, pc, job>>
    BY <1>6 DEF CommitOffsets, Rejoin, log_vars, table_vars, vars
  <2>2. \A h \in Hosts, early \in BOOLEAN : Arming(h, early)' => Arming(h, early)
    BY <2>1 DEF Arming
  <2>3. pc' = "insert_metric" => ~job'.is_early_warning
    BY <2>1 DEF ClocksCoverAlerts
  <2> QED  BY <2>1, <2>2, <2>3, QuietStep
<1>7. CASE Crash
  <2>1. /\ pc' = "poll"
        /\ alerts' = alerts
        /\ life' = life + 1
        /\ life \in Nat
    BY <1>7, BoundsAssumption DEF Crash, Return, table_vars, TypeOK
  <2>2. \A i \in DOMAIN alerts : alerts[i].life <= life /\ alerts[i].life \in Nat
    BY AlertType DEF ClocksCoverAlerts
  <2>3. \A i \in DOMAIN alerts : alerts[i].life <= life' /\ alerts[i].life # life'
    BY <2>1, <2>2
  <2> QED  BY <2>1, <2>3 DEF ClocksCoverAlerts, CoveredByClock, Arming
<1> QED  BY <1>1, <1>2, <1>3, <1>4, <1>5, <1>6, <1>7 DEF Next, Handle

(* No alert of this life lies after the clock of its host and kind, and an *)
(* alert in flight comes the cooldown after every one of them              *)
(* (dynamic_threshold.py:66-72, main.py:97-117).                           *)
THEOREM ClocksCover == Spec => []ClocksCoverAlerts
<1>1. Init => ClocksCoverAlerts
  BY DEF Init, ClocksCoverAlerts, Arming
<1>2. TypeOK /\ ClocksCoverAlerts /\ [Next]_vars => ClocksCoverAlerts'
  BY ClocksStep, Zenon
<1> QED  BY <1>1, <1>2, TypeCorrect, PTL DEF Spec

(* Under the strengthening, a new row keeps its distance from the older    *)
(* ones of its host and kind; no other step touches the table.             *)
LEMMA SpacingStep ==
    ASSUME TypeOK, ClocksCoverAlerts, AlertSpacing, [Next]_vars
    PROVE  AlertSpacing'
<1>1. CASE InsertAlert
  <2> DEFINE n == Len(alerts) + 1
  <2> SUFFICES ASSUME NEW i \in DOMAIN alerts', NEW j \in DOMAIN alerts', i < j,
                      SameSource(alerts[i], alerts[j])'
               PROVE  alerts'[j].triggered_at - alerts'[i].triggered_at >= CooldownSeconds
    BY DEF AlertSpacing
  <2>1. /\ i \in DOMAIN alerts
        /\ alerts'[i] = alerts[i]
        /\ j \in DOMAIN alerts \/ j = n
    BY <1>1, InsertAlertEffect
  <2>2. CASE j \in DOMAIN alerts
    BY <1>1, <2>1, <2>2, InsertAlertEffect DEF AlertSpacing, SameSource
  <2>3. CASE j = n
    <3>1. /\ alerts[i].life = life
          /\ alerts[i].host = job.host
          /\ alerts[i].is_early_warning = job.is_early_warning
          /\ alerts'[j].triggered_at = job.ts
      BY <1>1, <2>1, <2>3, InsertAlertEffect DEF SameSource
    <3>2. CoveredByClock(i, job.host, job.is_early_warning)
      BY <2>1, <3>1 DEF ClocksCoverAlerts
    <3>3. alerts[i].triggered_at + CooldownSeconds <= job.ts
      BY <1>1, <3>1, <3>2, InsertAlertEffect DEF CoveredByClock
    <3>4. alerts[i].triggered_at \in Nat /\ job.ts \in Nat
      BY <1>1, <2>1, AlertType, InsertAlertEffect DEF Job
    <3> QED  BY <2>1, <3>1, <3>3, <3>4, CooldownAssumption
  <2> QED  BY <2>1, <2>2, <2>3
<1>2. CASE ~InsertAlert
  <2>1. alerts' = alerts
    BY <1>2 DEF Next, Handle, Consume, ConsumeWarmup, ConsumeScored, PollEvent,
                InsertMetric, PublishAlert, EarlyWarning, HandlerFails, CommitOffsets,
                Rejoin, Crash, table_vars, vars
  <2> QED  BY <2>1 DEF AlertSpacing, SameSource
<1> QED  BY <1>1, <1>2

(* Whatever the scores, the order of timestamps, the exceptions and the    *)
(* restarts: within one life, two alerts of one kind for one host are at   *)
(* least the cooldown apart (dynamic_threshold.py:66-72, main.py:97-117).  *)
THEOREM AlertsAreSpaced == Spec => []AlertSpacing
<1>1. Init => AlertSpacing
  BY DEF Init, AlertSpacing
<1>2. TypeOK /\ ClocksCoverAlerts /\ AlertSpacing /\ [Next]_vars => AlertSpacing'
  BY SpacingStep, Zenon
<1> QED  BY <1>1, <1>2, TypeCorrect, ClocksCover, PTL DEF Spec
-----------------------------------------------------------------------------
(* A clock is armed only when its cooldown is not active, that is, for an  *)
(* event which lies after it.                                              *)
LEMMA ArmedLater ==
    ASSUME NEW last \in Nat \cup {NoTime}, NEW now \in Nat,
           ~CooldownActive(last, now), last # NoTime
    PROVE  now # NoTime /\ now >= last
<1>1. last \in Nat
  OBVIOUS
<1>2. last + CooldownSeconds <= now
  BY <1>1, CooldownOver
<1> QED  BY <1>1, <1>2, CooldownAssumption, NoTimeAssumption

(* No step of one life takes a clock back or resets it.                    *)
LEMMA ClockStep ==
    ASSUME TypeOK, [Next]_vars, life' = life, NEW h \in Hosts, NEW early \in BOOLEAN,
           Clock(h, early) # NoTime
    PROVE  Clock(h, early)' # NoTime /\ Clock(h, early)' >= Clock(h, early)
<1>1. /\ Clock(h, early) \in Nat \cup {NoTime}
      /\ Clock(h, early) >= Clock(h, early)
  BY ClockType
<1>2. CASE Consume
  <2>1. PICK p \in Partitions : ConsumeWarmup(p) \/ ConsumeScored(p)
    BY <1>2 DEF Consume
  <2>2. PICK g \in Hosts, s \in HostModelState, j \in Job :
           /\ states' = [states EXCEPT ![g] = s]
           /\ s.last_early_warning_time = states[g].last_early_warning_time
           /\ IF j.should_publish_alert
              THEN /\ s.last_alert_time = j.ts
                   /\ ~CooldownActive(states[g].last_alert_time, j.ts)
              ELSE s.last_alert_time = states[g].last_alert_time
    BY <2>1, ConsumeEffect
  <2>3. states'[h] = IF h = g THEN s ELSE states[h]
    BY <2>2 DEF TypeOK
  <2>4. CASE h = g /\ ~early /\ j.should_publish_alert
    <3>1. Clock(h, early)' = j.ts /\ ~CooldownActive(Clock(h, early), j.ts)
      BY <2>2, <2>3, <2>4 DEF Clock
    <3>2. j.ts \in Nat
      BY DEF Job
    <3> QED  BY <1>1, <3>1, <3>2, ArmedLater
  <2>5. CASE ~(h = g /\ ~early /\ j.should_publish_alert)
    <3>1. Clock(h, early)' = Clock(h, early)
      BY <2>2, <2>3, <2>5 DEF Clock
    <3> QED  BY <1>1, <3>1
  <2> QED  BY <2>4, <2>5
<1>3. CASE EarlyWarning
  <2>1. job \in Job /\ job.host \in Hosts /\ job.ts \in Nat
    BY <1>3 DEF EarlyWarning, TypeOK, Job
  <2>2. CASE EarlyWarningDue(states[job.host]) /\ h = job.host /\ early
    <3>1. states'[h] = EarlyWarningArmed(states[h])
      BY <1>3, <2>1, <2>2 DEF EarlyWarning, TypeOK
    <3>2. states[h] \in HostModelState
      BY DEF TypeOK
    <3>3. Clock(h, early)' = job.ts
      BY <2>2, <3>1, <3>2 DEF Clock, EarlyWarningArmed, HostModelState
    <3>4. ~CooldownActive(Clock(h, early), job.ts)
      BY <2>2 DEF Clock, EarlyWarningDue
    <3> QED  BY <1>1, <2>1, <3>3, <3>4, ArmedLater
  <2>3. CASE ~(EarlyWarningDue(states[job.host]) /\ h = job.host /\ early)
    <3>1. \/ states' = states
          \/ /\ states' = [states EXCEPT ![job.host] = EarlyWarningArmed(@)]
             /\ h # job.host \/ ~early
      BY <1>3, <2>3 DEF EarlyWarning
    <3>2. states[h] \in HostModelState
      BY DEF TypeOK
    <3>3. \/ states'[h] = states[h]
          \/ states'[h] = EarlyWarningArmed(states[h]) /\ ~early
      BY <2>1, <3>1 DEF TypeOK
    <3>4. EarlyWarningArmed(states[h]).last_alert_time = states[h].last_alert_time
      BY <3>2 DEF EarlyWarningArmed, HostModelState
    <3>5. Clock(h, early)' = Clock(h, early)
      BY <3>3, <3>4, Zenon DEF Clock
    <3> QED  BY <1>1, <3>5
  <2> QED  BY <2>2, <2>3
<1>4. CASE Crash
  <2>1. life' = life + 1 /\ life \in Nat
    BY <1>4, BoundsAssumption DEF Crash, TypeOK
  <2> QED  BY <2>1
<1>5. CASE \/ InsertMetric \/ InsertAlert \/ PublishAlert \/ HandlerFails
           \/ CommitOffsets \/ Rejoin \/ UNCHANGED vars
  <2>1. states' = states
    BY <1>5 DEF InsertMetric, InsertAlert, PublishAlert, HandlerFails, CommitOffsets,
                Rejoin, vars
  <2>2. Clock(h, early)' = Clock(h, early)
    BY <2>1, Zenon DEF Clock
  <2> QED  BY <1>1, <2>2
<1> QED  BY <1>2, <1>3, <1>4, <1>5 DEF Next, Handle

(* Until the process restarts, an event with an old timestamp cannot reopen*)
(* a cooldown (dynamic_threshold.py:66-72, main.py:97-117).                *)
THEOREM ClocksNeverGoBack == Spec => ClocksAdvance
<1>1. ASSUME TypeOK, [Next]_vars, life' = life, NEW h \in Hosts
      PROVE  /\ states[h].last_alert_time # NoTime =>
                 /\ states'[h].last_alert_time # NoTime
                 /\ states'[h].last_alert_time >= states[h].last_alert_time
             /\ states[h].last_early_warning_time # NoTime =>
                 /\ states'[h].last_early_warning_time # NoTime
                 /\ states'[h].last_early_warning_time >= states[h].last_early_warning_time
  <2>1. \A early \in BOOLEAN : Clock(h, early) # NoTime =>
          Clock(h, early)' # NoTime /\ Clock(h, early)' >= Clock(h, early)
    BY <1>1, ClockStep
  <2>2. /\ Clock(h, FALSE) = states[h].last_alert_time
        /\ Clock(h, FALSE)' = states'[h].last_alert_time
        /\ Clock(h, TRUE) = states[h].last_early_warning_time
        /\ Clock(h, TRUE)' = states'[h].last_early_warning_time
    BY DEF Clock
  <2> QED  BY <2>1, <2>2
<1>2. TypeOK /\ [Next]_vars =>
        [life' = life =>
           \A h \in Hosts :
              /\ states[h].last_alert_time # NoTime =>
                   /\ states'[h].last_alert_time # NoTime
                   /\ states'[h].last_alert_time >= states[h].last_alert_time
              /\ states[h].last_early_warning_time # NoTime =>
                   /\ states'[h].last_early_warning_time # NoTime
                   /\ states'[h].last_early_warning_time
                        >= states[h].last_early_warning_time]_vars
  BY <1>1, Zenon
<1> QED  BY <1>2, TypeCorrect, PTL DEF Spec, ClocksAdvance
-----------------------------------------------------------------------------
(* A publication is pending only when there is a row to publish, which is  *)
(* what tells a pending publication from none in the refinement mapping.   *)
PendingHasRow == pc = "publish_alert" => Len(alerts) > 0

(* Only InsertAlert leads to publish_alert, and no row is ever deleted.    *)
LEMMA PendingStep == TypeOK /\ PendingHasRow /\ [Next]_vars => PendingHasRow'
<1> SUFFICES ASSUME TypeOK, PendingHasRow, [Next]_vars PROVE PendingHasRow'
  OBVIOUS
<1>1. CASE InsertAlert
  BY <1>1 DEF PendingHasRow, InsertAlert, TypeOK
<1>2. CASE ~InsertAlert
  BY <1>2 DEF PendingHasRow, Next, Handle, Consume, ConsumeWarmup, ConsumeScored, PollEvent,
              InsertMetric, PublishAlert, EarlyWarning, HandlerFails, CommitOffsets,
              Rejoin, Crash, Return, Raise, table_vars, vars
<1> QED  BY <1>1, <1>2

(* The row being inserted appears at the end of AlertSource's rows.        *)
LEMMA RowsAppend ==
    ASSUME TypeOK, ClocksCoverAlerts, InsertAlert
    PROVE  [i \in DOMAIN alerts |-> alerts[i].host]'
             = Append([i \in DOMAIN alerts |-> alerts[i].host], job.host)
<1> DEFINE rows == [i \in DOMAIN alerts |-> alerts[i].host]
<1>1. /\ DOMAIN alerts = 1..Len(alerts)
      /\ DOMAIN alerts' = 1..(Len(alerts) + 1)
      /\ Len(alerts) \in Nat
      /\ \A i \in DOMAIN alerts : alerts'[i].host = alerts[i].host
      /\ alerts'[Len(alerts) + 1].host = job.host
  BY InsertAlertEffect
<1>2. \A i \in DOMAIN alerts : alerts[i].host \in Hosts
  BY AlertType
<1>3. rows \in Seq(Hosts) /\ Len(rows) = Len(alerts)
  BY <1>1, <1>2
<1>4. job.host \in Hosts
  BY InsertAlertEffect DEF Job
<1> QED  BY <1>1, <1>3, <1>4

(* Every step of the detector is a step of AlertSource or changes none of  *)
(* its variables.                                                          *)
LEMMA SourceStep ==
    ASSUME TypeOK, ClocksCoverAlerts, PendingHasRow, [Next]_vars
    PROVE  [Source!SourceNext]_(Source!source_vars)
<1> USE DEF Source!source_vars
<1>1. CASE InsertAlert
  <2>1. PICK h \in Hosts : h = job.host
    BY <1>1, InsertAlertEffect DEF Job
  <2>2. Len(alerts') = Len(alerts) + 1
    BY <1>1 DEF InsertAlert, TypeOK
  <2>3. Len([i \in DOMAIN alerts |-> alerts[i].host]) = Len(alerts)
    BY DEF TypeOK
  <2>4. Source!InsertRow(h)
    BY <1>1, <2>1, <2>2, <2>3, RowsAppend
       DEF InsertAlert, Raise, Return, Source!InsertRow
  <2> QED  BY <2>4 DEF Source!SourceNext
<1>2. CASE PublishAlert
  <2>1. Source!Publish
    BY <1>2 DEF PublishAlert, AlertToPublish, Return, PendingHasRow, Source!Publish
  <2> QED  BY <2>1 DEF Source!SourceNext
<1>3. CASE HandlerFails \/ Crash
  <2>1. alerts' = alerts /\ produced' = produced /\ pc' = "poll"
    BY <1>3 DEF HandlerFails, Crash, Raise, Return, table_vars
  <2>2. Source!Abandon \/ UNCHANGED Source!source_vars
    BY <2>1 DEF PendingHasRow, Source!Abandon
  <2> QED  BY <2>2 DEF Source!SourceNext
<1>4. CASE \/ Consume \/ InsertMetric \/ EarlyWarning
           \/ CommitOffsets \/ Rejoin \/ UNCHANGED vars
  <2>1. /\ alerts' = alerts
        /\ produced' = produced
        /\ pc' = "publish_alert" <=> pc = "publish_alert"
    BY <1>4 DEF Consume, ConsumeWarmup, ConsumeScored, PollEvent, InsertMetric,
                EarlyWarning, CommitOffsets, Rejoin, Return, Raise, table_vars, vars
  <2> QED  BY <2>1
<1> QED  BY <1>1, <1>2, <1>3, <1>4 DEF Next, Handle

(* The detector implements AlertSource: an alert is inserted before it is  *)
(* produced, produced at most once, and then only the newest row; an       *)
(* exception or a crash abandons it (services/detector/app/main.py:80-119).*)
THEOREM DetectorImplementsSource == Spec => ImplementsAlertSource
<1>1. Init => Source!SourceInit /\ PendingHasRow
  BY DEF Init, Source!SourceInit, PendingHasRow
<1>2. TypeOK /\ PendingHasRow /\ [Next]_vars => PendingHasRow'
  BY PendingStep
<1>3. TypeOK /\ ClocksCoverAlerts /\ PendingHasRow /\ [Next]_vars
        => [Source!SourceNext]_(Source!source_vars)
  BY SourceStep, Zenon
<1> QED  BY <1>1, <1>2, <1>3, TypeCorrect, ClocksCover, PTL
         DEF Spec, ImplementsAlertSource, Source!SourceSpec

-----------------------------------------------------------------------------
(***************************************************************************)
(* The two tables: what an alerts row says of its metrics row, which       *)
(* events have a metrics row, and which of them were told.  The in-memory  *)
(* operations of an event enter by what they do to the buffer, the model   *)
(* and the verdict.                                                        *)
(***************************************************************************)

(* A host whose model is used has a fitted one.                            *)
ModelsAreFitted ==
    \A h \in Hosts : states[h].is_warmed_up => states[h].model_version > 0

(* While an event is handled, the buffer of its host ends with it, and the *)
(* verdict is one of: not scored, an anomaly, a prediction, neither.       *)
JobIsJudged ==
    pc # "poll" =>
        /\ Last(states[job.host].raw_buffer) = job.offset
        /\ job.scored => states[job.host].is_warmed_up
        /\ job.is_anomaly \/ job.predicted => job.scored
        /\ job.is_anomaly => ~job.predicted
        /\ job.should_publish_alert => job.is_anomaly
        /\ job.is_early_warning => job.predicted
        /\ pc = "insert_metric" => ~job.is_early_warning
        /\ pc = "insert_alert" => job.is_early_warning \/ job.is_anomaly

(* After insert_metric the handler holds the id of the newest row, which is*)
(* that of its event and repeats its verdict.                              *)
JobHasRow ==
    pc \in {"insert_alert", "publish_alert", "early_warning"} =>
        /\ job.metrics_id \in DOMAIN metrics
        /\ job.metrics_id = Len(metrics)
        /\ LET row == metrics[job.metrics_id]
           IN  /\ row.host = job.host
               /\ SameEvent(job, row)
               /\ row.life = life
               /\ row.ts = job.ts
               /\ row.is_anomaly = job.is_anomaly
               /\ row.predicted = job.predicted
               /\ row.model_version > 0

(* A deque with room for something ends with what was appended to it.      *)
LEMMA LastPushed ==
    ASSUME NEW S, NEW deque \in Seq(S), NEW x \in S, NEW limit \in Nat \ {0}
    PROVE  Last(Push(deque, x, limit)) = x
<1>1. PICK n \in Nat : n = Len(deque)
  OBVIOUS
<1>2. /\ Append(deque, x) \in Seq(S)
      /\ Len(Append(deque, x)) = n + 1
      /\ Append(deque, x)[n + 1] = x
  BY <1>1
<1>3. CASE n >= limit
  <2>1. Push(deque, x, limit) = Tail(Append(deque, x))
    BY <1>1, <1>3 DEF Push
  <2> DEFINE longer == Append(deque, x)
  <2>2. longer \in Seq(S) /\ Len(longer) = n + 1 /\ longer[n + 1] = x /\ n \in 1..n
    BY <1>2, <1>3
  <2> HIDE DEF longer
  <2>3. Len(Tail(longer)) = n /\ Tail(longer)[n] = longer[n + 1]
    BY <2>2, HeadTailProperties
  <2> QED  BY <2>1, <2>2, <2>3 DEF Last, longer
<1>4. CASE ~(n >= limit)
  BY <1>1, <1>2, <1>4 DEF Push, Last
<1> QED  BY <1>3, <1>4

(* compute_feature_vector appends to the buffer and leaves the model alone.*)
LEMMA ComputeFeatureVectorKeeps ==
    ASSUME NEW state \in HostModelState, NEW offset \in Nat
    PROVE  /\ Last(ComputeFeatureVector(state, offset).raw_buffer) = offset
           /\ ComputeFeatureVector(state, offset).is_warmed_up = state.is_warmed_up
           /\ ComputeFeatureVector(state, offset).model_version = state.model_version
<1>1. state.raw_buffer \in Seq(Nat)
  BY DEF HostModelState
<1>2. Last(Push(state.raw_buffer, offset, RollingWindow)) = offset
  <2>1. RollingWindow \in Nat \ {0}
    BY SizesAssumption
  <2> QED  BY <1>1, <2>1, LastPushed, Zenon
<1> QED  BY <1>2 DEF ComputeFeatureVector, HostModelState

(* The model has a version from the first fit on, and the code that fits it*)
(* leaves the buffer alone.                                                *)
LEMMA FittingKeeps ==
    ASSUME NEW state \in HostModelState
    PROVE  /\ WarmUp(state).raw_buffer = state.raw_buffer
           /\ WarmUp(state).is_warmed_up =>
                WarmUp(state).model_version > 0 \/ state.is_warmed_up
           /\ Train(state).raw_buffer = state.raw_buffer
           /\ Train(state).is_warmed_up = state.is_warmed_up
           /\ Train(state).model_version >= state.model_version
<1>1. /\ WarmUp(state).raw_buffer = state.raw_buffer
      /\ WarmUp(state).is_warmed_up =>
           WarmUp(state).model_version > 0 \/ state.is_warmed_up
  BY DEF WarmUp, HostModelState
<1>2. /\ Train(state).raw_buffer = state.raw_buffer
      /\ Train(state).is_warmed_up = state.is_warmed_up
      /\ Train(state).model_version >= state.model_version
  BY DEF Train, HostModelState
<1> QED  BY <1>1, <1>2

(* Recording a score leaves the buffer and the model alone.                *)
LEMMA RecordScoreKeeps ==
    ASSUME NEW state \in HostModelState, NEW raw_score, NEW now
    PROVE  /\ RecordScore(state, raw_score, now).raw_buffer = state.raw_buffer
           /\ RecordScore(state, raw_score, now).is_warmed_up = state.is_warmed_up
           /\ RecordScore(state, raw_score, now).model_version = state.model_version
BY DEF RecordScore, HostModelState

(* One poll, as far as the tables are concerned: the locals name the event *)
(* polled, its verdict is one of four, and an anomaly goes unpublished only*)
(* while the cooldown of its host is active.                               *)
LEMMA ConsumeVerdict ==
    ASSUME TypeOK, ModelsAreFitted, NEW p \in Partitions, ConsumeWarmup(p) \/ ConsumeScored(p)
    PROVE  \E h \in Hosts, s \in HostModelState, j \in Job :
              /\ states' = [states EXCEPT ![h] = s]
              /\ job' = j
              /\ j.host = h
              /\ j.partition = p
              /\ j.offset = position[p] + 1
              /\ ~j.is_early_warning
              /\ Last(s.raw_buffer) = j.offset
              /\ s.is_warmed_up => s.model_version > 0
              /\ j.scored => s.is_warmed_up
              /\ j.is_anomaly \/ j.predicted => j.scored
              /\ j.is_anomaly => ~j.predicted
              /\ j.should_publish_alert => j.is_anomaly
              /\ j.is_anomaly /\ ~j.should_publish_alert =>
                   CooldownActive(states[h].last_alert_time, j.ts)
<1> DEFINE event == telemetry[p][position[p] + 1]
           h     == event.host
           o     == position[p] + 1
           state == ComputeFeatureVector(states[h], o)
<1>1. event \in Event /\ o \in Nat
  BY NextEvent DEF ConsumeWarmup, ConsumeScored, PollEvent
<1>2. h \in Hosts /\ event.ts \in Nat
  BY <1>1 DEF Event
<1>3. states[h] \in HostModelState
  BY <1>2 DEF TypeOK
<1>4. /\ state \in HostModelState
      /\ state.last_alert_time = states[h].last_alert_time
      /\ Last(state.raw_buffer) = o
      /\ state.is_warmed_up => state.model_version > 0
  <2>1. states[h].is_warmed_up => states[h].model_version > 0
    BY <1>2 DEF ModelsAreFitted
  <2> HIDE DEF h, o
  <2>2. state \in HostModelState
    BY <1>1, <1>3, ComputeFeatureVectorType
  <2>3. state.last_alert_time = states[h].last_alert_time
    BY <1>1, <1>3, ClocksKept
  <2>4. /\ Last(state.raw_buffer) = o
        /\ state.is_warmed_up = states[h].is_warmed_up
        /\ state.model_version = states[h].model_version
    BY <1>1, <1>3, ComputeFeatureVectorKeeps
  <2> HIDE DEF state
  <2> QED  BY <2>1, <2>2, <2>3, <2>4
<1>5. CASE ConsumeWarmup(p)
  <2> DEFINE s == WarmUp(state)
             j == JobFor(p, FALSE, FALSE, "none", FALSE, FALSE)
  <2>1. states' = [states EXCEPT ![h] = s] /\ job' = j /\ ~state.is_warmed_up
    BY <1>5 DEF ConsumeWarmup
  <2>2. /\ s \in HostModelState
        /\ Last(s.raw_buffer) = o
        /\ s.is_warmed_up => s.model_version > 0
    BY <1>4, <2>1, WarmUpType, FittingKeeps
  <2>3. "none" \in Severities
    BY DEF Severities
  <2>4. /\ j \in Job
        /\ j.host = h
        /\ j.partition = p
        /\ j.offset = o
        /\ j.is_early_warning = FALSE
        /\ j.scored = FALSE
        /\ j.is_anomaly = FALSE
        /\ j.predicted = FALSE
        /\ j.should_publish_alert = FALSE
    BY <1>1, <1>2, <2>3 DEF JobFor, Job
  <2> HIDE DEF s, j, h, o
  <2> QED  BY <1>2, <2>1, <2>2, <2>4 DEF o
<1>6. CASE ConsumeScored(p)
  <2>1. PICK raw_score \in Scores :
          LET scored  == RecordScore(Train(state), raw_score, event.ts)
              publish == ShouldPublishAlert(scored, event.ts)
          IN  /\ state.is_warmed_up
              /\ states' = [states EXCEPT ![h] =
                              IF publish THEN [scored EXCEPT !.last_alert_time = event.ts]
                                         ELSE scored]
              /\ job' = JobFor(p, TRUE, IsAnomaly(scored.score_history),
                               Severity(scored.score_history), publish, Predicted(scored))
    BY <1>6, Zenon DEF ConsumeScored, AlertArmed
  <2> DEFINE scored  == RecordScore(Train(state), raw_score, event.ts)
             anomaly == IsAnomaly(scored.score_history)
             predicted == Predicted(scored)
             publish == ShouldPublishAlert(scored, event.ts)
             s == IF publish THEN [scored EXCEPT !.last_alert_time = event.ts] ELSE scored
             j == JobFor(p, TRUE, anomaly, Severity(scored.score_history), publish, predicted)
  <2>2. states' = [states EXCEPT ![h] = s] /\ job' = j /\ state.is_warmed_up
    BY <2>1, Zenon
  <2>3. /\ scored \in HostModelState
        /\ scored.last_alert_time = states[h].last_alert_time
        /\ Last(scored.raw_buffer) = o
        /\ scored.is_warmed_up
        /\ scored.model_version > 0
    <3>1. /\ Train(state) \in HostModelState
          /\ Train(state).last_alert_time = states[h].last_alert_time
          /\ Last(Train(state).raw_buffer) = o
          /\ Train(state).is_warmed_up
          /\ Train(state).model_version > 0
      <4>1. /\ Train(state) \in HostModelState
            /\ Train(state).last_alert_time = states[h].last_alert_time
        BY <1>4, TrainType, ClocksKept
      <4>2. /\ Train(state).raw_buffer = state.raw_buffer
            /\ Train(state).is_warmed_up = state.is_warmed_up
            /\ Train(state).model_version >= state.model_version
        BY <1>4, FittingKeeps
      <4>3. PICK old \in Nat, new \in Nat :
               old = state.model_version /\ new = Train(state).model_version
        BY <1>4, <4>1 DEF HostModelState
      <4>4. new >= old /\ old > 0
        BY <1>4, <2>2, <4>2, <4>3
      <4> HIDE DEF state, h, o
      <4> QED  BY <1>4, <2>2, <4>1, <4>2, <4>3, <4>4
    <3>2. raw_score \in Nat
      BY ScoresAssumption
    <3> HIDE DEF event, state, h, o
    <3>3. scored \in HostModelState
      BY <1>2, <3>1, <3>2, RecordScoreType
    <3>4. scored.last_alert_time = Train(state).last_alert_time
      BY <3>1, ClocksKept
    <3>5. /\ scored.raw_buffer = Train(state).raw_buffer
          /\ scored.is_warmed_up = Train(state).is_warmed_up
          /\ scored.model_version = Train(state).model_version
      BY <3>1, RecordScoreKeeps
    <3> QED  BY <3>1, <3>3, <3>4, <3>5
  <2>4. /\ anomaly => ~predicted
        /\ publish => anomaly
        /\ anomaly /\ ~publish => CooldownActive(states[h].last_alert_time, event.ts)
    BY <2>3 DEF ShouldPublishAlert, Predicted
  <2>5. /\ j \in Job
        /\ j.host = h
        /\ j.ts = event.ts
        /\ j.partition = p
        /\ j.offset = o
        /\ j.is_early_warning = FALSE
        /\ j.scored = TRUE
        /\ j.is_anomaly = anomaly
        /\ j.predicted = predicted
        /\ j.should_publish_alert = publish
    <3>1. /\ anomaly \in BOOLEAN
          /\ publish \in BOOLEAN
          /\ predicted \in BOOLEAN
          /\ Severity(scored.score_history) \in Severities
          /\ TRUE \in BOOLEAN
      BY VerdictTypes
    <3> HIDE DEF anomaly, publish, predicted, scored
    <3> QED  BY <1>1, <1>2, <3>1 DEF JobFor, Job
  <2> HIDE DEF scored, anomaly, predicted, publish, j, h, o
  <2>6. /\ s \in HostModelState
        /\ s.raw_buffer = scored.raw_buffer
        /\ s.is_warmed_up = scored.is_warmed_up
        /\ s.model_version = scored.model_version
    BY <1>2, <2>3 DEF HostModelState
  <2> HIDE DEF s, event
  <2> QED  BY <1>2, <2>2, <2>3, <2>4, <2>5, <2>6 DEF o
<1> QED  BY <1>5, <1>6
(* Versions only grow within a life, and a new life starts without models. *)
LEMMA ModelsStep ==
    ASSUME TypeOK, ModelsAreFitted, [Next]_vars
    PROVE  ModelsAreFitted'
<1>1. CASE Consume
  <2>1. PICK p \in Partitions : ConsumeWarmup(p) \/ ConsumeScored(p)
    BY <1>1 DEF Consume
  <2>2. PICK h \in Hosts, s \in HostModelState :
           /\ states' = [states EXCEPT ![h] = s]
           /\ s.is_warmed_up => s.model_version > 0
    BY <2>1, ConsumeVerdict
  <2> QED  BY <2>2 DEF TypeOK, ModelsAreFitted
<1>2. CASE EarlyWarning
  <2>1. ASSUME NEW h \in Hosts
        PROVE  /\ states'[h].is_warmed_up = states[h].is_warmed_up
               /\ states'[h].model_version = states[h].model_version
    <3>1. states[h] \in HostModelState
      BY DEF TypeOK
    <3>2. \/ states'[h] = states[h]
          \/ states'[h] = EarlyWarningArmed(states[h])
      BY <1>2, <2>1 DEF EarlyWarning, TypeOK
    <3>3. /\ EarlyWarningArmed(states[h]).is_warmed_up = states[h].is_warmed_up
          /\ EarlyWarningArmed(states[h]).model_version = states[h].model_version
      BY <3>1 DEF EarlyWarningArmed, HostModelState
    <3> QED  BY <3>2, <3>3, Zenon
  <2> QED  BY <2>1, Zenon DEF ModelsAreFitted
<1>3. CASE Crash
  BY <1>3 DEF Crash, FreshState, ModelsAreFitted
<1>4. CASE \/ InsertMetric \/ InsertAlert \/ PublishAlert \/ HandlerFails
           \/ CommitOffsets \/ Rejoin \/ UNCHANGED vars
  <2>1. states' = states
    BY <1>4 DEF InsertMetric, InsertAlert, PublishAlert, HandlerFails, CommitOffsets,
                Rejoin, vars
  <2> QED  BY <2>1 DEF ModelsAreFitted
<1> QED  BY <1>1, <1>2, <1>3, <1>4 DEF Next, Handle

(* The locals change only with the step that sets them.                    *)
LEMMA JudgedStep ==
    ASSUME TypeOK, ModelsAreFitted, JobIsJudged, [Next]_vars
    PROVE  JobIsJudged'
<1>1. CASE Consume
  <2>1. PICK p \in Partitions : ConsumeWarmup(p) \/ ConsumeScored(p)
    BY <1>1 DEF Consume
  <2>2. pc' = "insert_metric"
    BY <2>1 DEF ConsumeWarmup, ConsumeScored, PollEvent
  <2>3. PICK h \in Hosts, s \in HostModelState, j \in Job :
           /\ states' = [states EXCEPT ![h] = s]
           /\ job' = j
           /\ j.host = h
           /\ ~j.is_early_warning
           /\ Last(s.raw_buffer) = j.offset
           /\ j.scored => s.is_warmed_up
           /\ j.is_anomaly \/ j.predicted => j.scored
           /\ j.is_anomaly => ~j.predicted
           /\ j.should_publish_alert => j.is_anomaly
    BY <2>1, ConsumeVerdict
  <2>4. states'[job'.host] = s
    BY <2>3 DEF TypeOK
  <2> QED  BY <2>2, <2>3, <2>4 DEF JobIsJudged
<1>2. CASE pc' = "poll"
  BY <1>2 DEF JobIsJudged
<1>3. CASE InsertMetric /\ pc' # "poll"
  <2>1. /\ job \in Job
        /\ states' = states
        /\ pc = "insert_metric"
        /\ pc' = IF job.should_publish_alert THEN "insert_alert" ELSE "early_warning"
        /\ job' = [job EXCEPT !.metrics_id = Len(metrics) + 1]
    BY <1>3 DEF InsertMetric, Return, Raise, TypeOK
  <2>2. /\ job'.host = job.host /\ job'.offset = job.offset
        /\ job'.scored = job.scored /\ job'.is_anomaly = job.is_anomaly
        /\ job'.predicted = job.predicted
        /\ job'.should_publish_alert = job.should_publish_alert
        /\ job'.is_early_warning = job.is_early_warning
    BY <2>1 DEF Job
  <2> QED  BY <2>1, <2>2 DEF JobIsJudged
<1>4. CASE EarlyWarning /\ pc' # "poll"
  <2>1. /\ job \in Job
        /\ job.host \in Hosts
        /\ pc = "early_warning"
        /\ job.predicted
        /\ states' = [states EXCEPT ![job.host] = EarlyWarningArmed(@)]
        /\ job' = [job EXCEPT !.is_early_warning = TRUE]
        /\ pc' = "insert_alert"
    BY <1>4 DEF EarlyWarning, EarlyWarningDue, Return, TypeOK, Job
  <2>2. /\ job'.host = job.host /\ job'.offset = job.offset
        /\ job'.scored = job.scored /\ job'.is_anomaly = job.is_anomaly
        /\ job'.predicted = job.predicted
        /\ job'.should_publish_alert = job.should_publish_alert
        /\ job'.is_early_warning
    BY <2>1 DEF Job
  <2>3. /\ states[job.host] \in HostModelState
        /\ states'[job.host] = EarlyWarningArmed(states[job.host])
    BY <2>1 DEF TypeOK
  <2>4. /\ states'[job.host].raw_buffer = states[job.host].raw_buffer
        /\ states'[job.host].is_warmed_up = states[job.host].is_warmed_up
    BY <2>3 DEF EarlyWarningArmed, HostModelState
  <2> QED  BY <2>1, <2>2, <2>4 DEF JobIsJudged
<1>5. CASE (InsertAlert \/ PublishAlert) /\ pc' # "poll"
  <2>1. /\ UNCHANGED <<states, job>>
        /\ pc # "poll"
        /\ pc' \in {"publish_alert", "early_warning"}
    BY <1>5 DEF InsertAlert, PublishAlert, Raise, Return
  <2> QED  BY <2>1 DEF JobIsJudged
<1>6. CASE CommitOffsets \/ Rejoin \/ UNCHANGED vars
  BY <1>6 DEF CommitOffsets, Rejoin, vars, JobIsJudged
<1>7. HandlerFails \/ Crash => pc' = "poll"
  BY DEF HandlerFails, Crash, Raise, Return
<1> QED  BY <1>1, <1>2, <1>3, <1>4, <1>5, <1>6, <1>7 DEF Next, Handle

(* The row insert_metric appends, and the older rows where they were.      *)
LEMMA InsertMetricEffect ==
    ASSUME TypeOK, InsertMetric
    PROVE  /\ job \in Job
           /\ Len(metrics) \in Nat
           /\ DOMAIN metrics = 1..Len(metrics)
           /\ DOMAIN metrics' = 1..(Len(metrics) + 1)
           /\ Len(metrics') = Len(metrics) + 1
           /\ \A m \in DOMAIN metrics : metrics'[m] = metrics[m]
           /\ LET row == metrics'[Len(metrics) + 1]
              IN  /\ row.host = job.host
                  /\ SameEvent(job, row)
                  /\ row.life = life
                  /\ row.ts = job.ts
                  /\ row.is_anomaly = job.is_anomaly
                  /\ row.predicted = job.predicted
                  /\ job.scored => row.model_version = states[job.host].model_version
<1> DEFINE row ==
      [host |-> job.host, partition |-> job.partition, offset |-> job.offset,
       ts |-> job.ts, is_anomaly |-> job.is_anomaly, severity |-> job.severity,
       predicted |-> job.predicted,
       model_version |-> IF job.scored THEN states[job.host].model_version ELSE 0,
       life |-> life]
<1>1. job \in Job
  BY DEF InsertMetric, TypeOK
<1>2. /\ row.host = job.host
      /\ SameEvent(job, row)
      /\ row.life = life
      /\ row.ts = job.ts
      /\ row.is_anomaly = job.is_anomaly
      /\ row.predicted = job.predicted
      /\ job.scored => row.model_version = states[job.host].model_version
  BY DEF SameEvent
<1>3. metrics' = Append(metrics, row)
  BY DEF InsertMetric
<1> HIDE DEF row
<1>4. /\ Len(metrics) \in Nat
      /\ DOMAIN metrics = 1..Len(metrics)
      /\ DOMAIN metrics' = 1..(Len(metrics) + 1)
      /\ Len(metrics') = Len(metrics) + 1
      /\ \A m \in DOMAIN metrics : metrics'[m] = metrics[m]
      /\ metrics'[Len(metrics) + 1] = row
  BY <1>3 DEF TypeOK
<1> QED  BY <1>1, <1>2, <1>4

(* Between insert_metric and the end of the handler no other row appears.  *)
LEMMA HasRowStep ==
    ASSUME TypeOK, ModelsAreFitted, JobIsJudged, JobHasRow, [Next]_vars
    PROVE  JobHasRow'
<1>1. CASE InsertMetric /\ pc' # "poll"
  <2>1. /\ job \in Job
        /\ job.scored
        /\ life' = life
        /\ job' = [job EXCEPT !.metrics_id = Len(metrics) + 1]
    BY <1>1 DEF InsertMetric, Return, Raise, TypeOK, log_vars
  <2>2. states[job.host].model_version > 0
    BY <1>1, <2>1 DEF InsertMetric, JobIsJudged, ModelsAreFitted, Job
  <2>3. /\ job'.metrics_id = Len(metrics) + 1
        /\ job'.host = job.host
        /\ job'.partition = job.partition /\ job'.offset = job.offset
        /\ job'.ts = job.ts /\ job'.is_anomaly = job.is_anomaly
        /\ job'.predicted = job.predicted
    <3>1. Len(metrics) + 1 \in Nat
      BY <1>1, InsertMetricEffect
    <3> QED  BY <2>1, <3>1 DEF Job
  <2>4. /\ job'.metrics_id \in DOMAIN metrics'
        /\ job'.metrics_id = Len(metrics')
        /\ SameEvent(job', metrics'[job'.metrics_id])
    BY <1>1, <2>3, InsertMetricEffect DEF SameEvent
  <2>5. /\ metrics'[job'.metrics_id].host = job'.host
        /\ metrics'[job'.metrics_id].life = life'
        /\ metrics'[job'.metrics_id].ts = job'.ts
        /\ metrics'[job'.metrics_id].is_anomaly = job'.is_anomaly
        /\ metrics'[job'.metrics_id].predicted = job'.predicted
        /\ metrics'[job'.metrics_id].model_version > 0
    BY <1>1, <2>1, <2>2, <2>3, InsertMetricEffect
  <2> QED  BY <2>4, <2>5 DEF JobHasRow, SameEvent
<1>2. CASE pc' \in {"poll", "insert_metric"}
  BY <1>2 DEF JobHasRow
<1>3. CASE (EarlyWarning \/ InsertAlert \/ PublishAlert) /\ pc' # "poll"
  <2>1. /\ UNCHANGED <<metrics, life>>
        /\ job' = job \/ job' = [job EXCEPT !.is_early_warning = TRUE]
        /\ pc \in {"insert_alert", "publish_alert", "early_warning"}
        /\ job \in Job
    BY <1>3 DEF EarlyWarning, InsertAlert, PublishAlert, Return, Raise, TypeOK,
                table_vars, log_vars
  <2>2. /\ job'.metrics_id = job.metrics_id
        /\ job'.host = job.host
        /\ job'.partition = job.partition /\ job'.offset = job.offset
        /\ job'.ts = job.ts /\ job'.is_anomaly = job.is_anomaly
        /\ job'.predicted = job.predicted
    BY <2>1 DEF Job
  <2> QED  BY <2>1, <2>2 DEF JobHasRow, SameEvent
<1>4. CASE CommitOffsets \/ UNCHANGED vars
  BY <1>4 DEF CommitOffsets, table_vars, log_vars, vars, JobHasRow, SameEvent
<1>5. Consume \/ HandlerFails \/ Crash \/ Rejoin => pc' \in {"poll", "insert_metric"}
  BY DEF Consume, ConsumeWarmup, ConsumeScored, PollEvent, HandlerFails, Crash, Rejoin,
         Raise, Return
<1> QED  BY <1>1, <1>2, <1>3, <1>4, <1>5 DEF Next, Handle
(* What holds while an event is handled, at any time.                      *)
LEMMA HandlingCorrect == Spec => [](ModelsAreFitted /\ JobIsJudged /\ JobHasRow)
<1>1. Init => ModelsAreFitted /\ JobIsJudged /\ JobHasRow
  BY DEF Init, ModelsAreFitted, JobIsJudged, JobHasRow, FreshState
<1>2. TypeOK /\ (ModelsAreFitted /\ JobIsJudged /\ JobHasRow) /\ [Next]_vars
        => (ModelsAreFitted /\ JobIsJudged /\ JobHasRow)'
  BY ModelsStep, JudgedStep, HasRowStep, Zenon
<1> QED  BY <1>1, <1>2, TypeCorrect, PTL DEF Spec

(* What AlertCitesItsMetric says of one alert.                             *)
Cites(alert) ==
    /\ alert.metrics_id \in DOMAIN metrics
    /\ LET row == metrics[alert.metrics_id]
       IN  /\ SameEvent(alert, row)
           /\ alert.life = row.life
           /\ alert.triggered_at = row.ts
           /\ row.is_anomaly = ~alert.is_early_warning
           /\ row.predicted = alert.is_early_warning
           /\ row.model_version > 0
    /\ Last(alert.recent_metrics) = alert.offset

(* The alert of the event being handled cites the row of that event.       *)
LEMMA NewAlertCites ==
    ASSUME TypeOK, ModelsAreFitted, JobIsJudged, JobHasRow, InsertAlert
    PROVE  \E row : alerts' = Append(alerts, row) /\ Cites(row)
<1> DEFINE row ==
      [host |-> job.host, partition |-> job.partition, offset |-> job.offset,
       triggered_at |-> job.ts,
       severity |-> IF job.is_early_warning THEN "warning" ELSE job.severity,
       metrics_id |-> job.metrics_id, is_early_warning |-> job.is_early_warning,
       recent_metrics |-> states[job.host].raw_buffer, life |-> life]
<1>1. pc = "insert_alert" /\ job \in Job
  BY DEF InsertAlert, TypeOK
<1>2. /\ job.is_anomaly = ~job.is_early_warning
      /\ job.predicted = job.is_early_warning
      /\ Last(states[job.host].raw_buffer) = job.offset
  BY <1>1 DEF JobIsJudged, Job
<1>3. /\ row.partition = job.partition
      /\ row.offset = job.offset
      /\ row.triggered_at = job.ts
      /\ row.metrics_id = job.metrics_id
      /\ row.is_early_warning = job.is_early_warning
      /\ row.recent_metrics = states[job.host].raw_buffer
      /\ row.life = life
  OBVIOUS
<1>4. alerts' = Append(alerts, row)
  BY DEF InsertAlert
<1> HIDE DEF row
<1>5. Cites(row)
  BY <1>1, <1>2, <1>3 DEF Cites, JobHasRow, SameEvent
<1> QED  BY <1>4, <1>5

(* Rows of metrics are never changed, so a citation stays true.            *)
LEMMA CitesStep ==
    ASSUME TypeOK, ModelsAreFitted, JobIsJudged, JobHasRow, AlertCitesItsMetric, [Next]_vars
    PROVE  AlertCitesItsMetric'
<1>1. \A i \in DOMAIN alerts : Cites(alerts[i])
  BY DEF AlertCitesItsMetric, Cites
<1>2. SUFFICES \A i \in DOMAIN alerts' : Cites(alerts[i])'
  BY DEF AlertCitesItsMetric, Cites
<1>3. CASE InsertAlert
  <2>1. PICK row : alerts' = Append(alerts, row) /\ Cites(row)
    BY <1>3, NewAlertCites
  <2>2. metrics' = metrics
    BY <1>3 DEF InsertAlert
  <2>3. \A i \in DOMAIN alerts' : Cites(alerts'[i])
    <3>1. \A i \in DOMAIN alerts' :
             \/ i \in DOMAIN alerts /\ alerts'[i] = alerts[i]
             \/ alerts'[i] = row
      BY <2>1 DEF TypeOK
    <3> QED  BY <1>1, <2>1, <3>1, Zenon
  <2> QED  BY <2>2, <2>3 DEF Cites, SameEvent
<1>4. CASE InsertMetric
  <2>1. alerts' = alerts
    BY <1>4 DEF InsertMetric
  <2>2. /\ DOMAIN metrics \subseteq DOMAIN metrics'
        /\ \A m \in DOMAIN metrics : metrics'[m] = metrics[m]
    BY <1>4, InsertMetricEffect
  <2> QED  BY <1>1, <2>1, <2>2 DEF Cites, SameEvent
<1>5. CASE ~InsertAlert /\ ~InsertMetric
  <2>1. UNCHANGED <<alerts, metrics>>
    BY <1>5 DEF Next, Handle, Consume, ConsumeWarmup, ConsumeScored, PollEvent,
                PublishAlert, EarlyWarning, HandlerFails, CommitOffsets, Rejoin, Crash,
                table_vars, vars
  <2> QED  BY <1>1, <2>1 DEF Cites, SameEvent
<1> QED  BY <1>3, <1>4, <1>5

(* Every alert cites the metrics row of its own event, written by the same *)
(* life with the verdict the alert is about, and its snapshots end with    *)
(* that event (main.py:62-94, 103-119).                                    *)
THEOREM AlertsCiteTheirMetrics == Spec => []AlertCitesItsMetric
<1>1. Init => AlertCitesItsMetric
  BY DEF Init, AlertCitesItsMetric
<1>2. TypeOK /\ (ModelsAreFitted /\ JobIsJudged /\ JobHasRow) /\ AlertCitesItsMetric
        /\ [Next]_vars => AlertCitesItsMetric'
  BY CitesStep, Zenon
<1> QED  BY <1>1, <1>2, TypeCorrect, HandlingCorrect, PTL DEF Spec
-----------------------------------------------------------------------------
(* The event that poll() returned and insert_metric is about to write.     *)
BeingWritten(event) == pc = "insert_metric" /\ event = <<job.partition, job.offset>>

(* The polled events that have no row and are not being written.           *)
Lost == {event \in Polled \ WrittenEvents : ~BeingWritten(event)}

(* Offsets are committed only once polled, and only a polled event is      *)
(* handled.                                                                *)
PolledFirst ==
    /\ \A p \in Partitions : committed[p] <= position[p]
    /\ pc = "insert_metric" => job.offset <= position[job.partition]

(* Every event that was lost was lost by an exception or by a crash.       *)
LossesExplained == IsFiniteSet(Lost) /\ Cardinality(Lost) <= faults + (life - 1)

(* The rows event o of p can have: one per session with the consumer group *)
(* so far, less one while that session has yet to poll or to write it.     *)
RowsExplained ==
    \A p \in Partitions, o \in Nat :
        /\ IsFiniteSet(RowsOf(<<p, o>>))
        /\ IF o > position[p] \/ BeingWritten(<<p, o>>)
           THEN Cardinality(RowsOf(<<p, o>>)) < life + rejoins
           ELSE Cardinality(RowsOf(<<p, o>>)) <= life + rejoins

(* The numbers of this section are natural.                                *)
LEMMA CountersType ==
    ASSUME TypeOK
    PROVE  /\ faults \in Nat /\ life \in Nat \ {0} /\ rejoins \in Nat
           /\ \A p \in Partitions : position[p] \in Nat /\ committed[p] \in Nat
BY BoundsAssumption DEF TypeOK

(* The event a poll puts into the hands of the handler.                    *)
LEMMA PollEffect ==
    ASSUME TypeOK, ModelsAreFitted, Consume
    PROVE  \E p \in Partitions, o \in Nat :
              /\ o = position[p] + 1
              /\ position' = [position EXCEPT ![p] = o]
              /\ pc = "poll" /\ pc' = "insert_metric"
              /\ job'.partition = p /\ job'.offset = o
              /\ UNCHANGED <<committed, metrics, faults, life, rejoins>>
<1>1. PICK p \in Partitions : ConsumeWarmup(p) \/ ConsumeScored(p)
  BY DEF Consume
<1>2. job'.partition = p /\ job'.offset = position[p] + 1
  BY <1>1, ConsumeVerdict
<1>3. PollEvent(p)
  BY <1>1 DEF ConsumeWarmup, ConsumeScored
<1>4. position[p] + 1 \in Nat
  BY CountersType
<1> QED  BY <1>2, <1>3, <1>4 DEF PollEvent, log_vars, table_vars

(* Positions go back only to what is committed.                            *)
LEMMA PolledFirstStep ==
    ASSUME TypeOK, ModelsAreFitted, PolledFirst, [Next]_vars
    PROVE  PolledFirst'
<1>1. CASE Consume
  <2>1. PICK p \in Partitions, o \in Nat :
           /\ o = position[p] + 1
           /\ position' = [position EXCEPT ![p] = o]
           /\ job'.partition = p /\ job'.offset = o
           /\ committed' = committed
    BY <1>1, PollEffect
  <2>2. \A q \in Partitions : position'[q] = IF q = p THEN o ELSE position[q]
    BY <2>1 DEF TypeOK
  <2>3. \A q \in Partitions : committed'[q] <= position'[q]
    BY <2>1, <2>2, CountersType DEF PolledFirst
  <2> QED  BY <2>1, <2>2, <2>3 DEF PolledFirst
<1>2. CASE Rejoin \/ Crash
  <2>1. /\ position' = committed /\ committed' = committed
        /\ pc' = "poll"
    BY <1>2 DEF Rejoin, Crash, Return, ResumeOffsets
  <2> QED  BY <2>1, CountersType DEF PolledFirst
<1>3. CASE CommitOffsets
  <2>1. /\ committed' = position
        /\ UNCHANGED <<position, pc, job>>
    BY <1>3 DEF CommitOffsets, StoredOffsets
  <2> QED  BY <2>1, CountersType DEF PolledFirst
<1>4. CASE Handle \/ HandlerFails
  <2>1. UNCHANGED <<position, committed>> /\ pc' # "insert_metric"
    BY <1>4 DEF Handle, InsertMetric, InsertAlert, PublishAlert, EarlyWarning,
                HandlerFails, Return, Raise
  <2> QED  BY <2>1 DEF PolledFirst
<1>5. CASE UNCHANGED vars
  BY <1>5 DEF vars, PolledFirst
<1> QED  BY <1>1, <1>2, <1>3, <1>4, <1>5 DEF Next

(* Which events have been polled.                                          *)
LEMMA PolledIs ==
    \A event : event \in Polled <=>
        \E p \in Partitions : \E o \in 1..position[p] : event = <<p, o>>
BY DEF Polled

(* A step that leaves at most one more event behind than before, and then  *)
(* counts it.                                                              *)
LEMMA LossStep ==
    ASSUME TypeOK, ModelsAreFitted, PolledFirst, LossesExplained, [Next]_vars
    PROVE  LossesExplained'
<1> DEFINE e == <<job.partition, job.offset>>
<1>1. /\ Cardinality(Lost) \in Nat
      /\ IsFiniteSet(Lost \cup {e})
      /\ Cardinality(Lost \cup {e}) <= Cardinality(Lost) + 1
      /\ Cardinality(Lost \cup {e}) \in Nat
  <2>1. IsFiniteSet(Lost)
    BY DEF LossesExplained
  <2>2. /\ IsFiniteSet(Lost \cup {e})
        /\ Cardinality(Lost \cup {e})
             = IF e \in Lost THEN Cardinality(Lost) ELSE Cardinality(Lost) + 1
    BY <2>1, FS_AddElement
  <2>3. PICK n \in Nat : n = Cardinality(Lost)
    BY <2>1, FS_CardinalityType
  <2> QED  BY <2>2, <2>3
<1>2. ASSUME Lost' \subseteq Lost, faults' = faults, life' = life
      PROVE  LossesExplained'
  <2>1. IsFiniteSet(Lost') /\ Cardinality(Lost') <= Cardinality(Lost)
    BY <1>2, FS_Subset DEF LossesExplained
  <2>2. Cardinality(Lost') \in Nat
    BY <2>1, FS_CardinalityType
  <2> QED  BY <1>1, <1>2, <2>1, <2>2, CountersType DEF LossesExplained
<1>3. ASSUME Lost' \subseteq Lost \cup {e},
             \/ faults' = faults + 1 /\ life' = life
             \/ faults' = faults /\ life' = life + 1
      PROVE  LossesExplained'
  <2>1. IsFiniteSet(Lost') /\ Cardinality(Lost') <= Cardinality(Lost \cup {e})
    BY <1>1, <1>3, FS_Subset
  <2>2. Cardinality(Lost') \in Nat
    BY <2>1, FS_CardinalityType
  <2> QED  BY <1>1, <1>3, <2>1, <2>2, CountersType DEF LossesExplained
<1>4. CASE Consume
  <2>1. PICK p \in Partitions, o \in Nat :
           /\ o = position[p] + 1
           /\ position' = [position EXCEPT ![p] = o]
           /\ pc = "poll" /\ pc' = "insert_metric"
           /\ job'.partition = p /\ job'.offset = o
           /\ UNCHANGED <<metrics, faults, life>>
    BY <1>4, PollEffect
  <2>2. \A q \in Partitions : position'[q] = IF q = p THEN o ELSE position[q]
    BY <2>1 DEF TypeOK
  <2>3. position[p] \in Nat
    BY CountersType
  <2>4. ASSUME NEW event \in Polled'
        PROVE  event \in Polled \/ event = <<p, o>>
    <3>1. PICK q \in Partitions : \E i \in 1..position'[q] : event = <<q, i>>
      BY <2>4 DEF Polled
    <3>2. PICK i \in 1..position'[q] : event = <<q, i>>
      BY <3>1
    <3>3. q # p => i \in 1..position[q]
      BY <2>2
    <3>4. q = p /\ i # o => i \in 1..position[q]
      BY <2>1, <2>2, <2>3
    <3> QED  BY <3>2, <3>3, <3>4, PolledIs
  <2>5. WrittenEvents' = WrittenEvents
    BY <2>1 DEF WrittenEvents
  <2>6. \A event : BeingWritten(event)' <=> event = <<p, o>>
    BY <2>1 DEF BeingWritten
  <2>7. \A event : ~BeingWritten(event)
    BY <2>1 DEF BeingWritten
  <2>8. Lost' \subseteq Lost
    BY <2>4, <2>5, <2>6, <2>7 DEF Lost
  <2> QED  BY <1>2, <2>1, <2>8
<1>5. CASE InsertMetric
  <2>1. /\ pc = "insert_metric" /\ pc' # "insert_metric"
        /\ position' = position
        /\ life' = life
        /\ faults' = faults \/ faults' = faults + 1
    BY <1>5 DEF InsertMetric, Raise, Return, log_vars
  <2>2. WrittenEvents \cup {e} \subseteq WrittenEvents'
    <3>1. ASSUME NEW m \in DOMAIN metrics
          PROVE  <<metrics[m].partition, metrics[m].offset>> \in WrittenEvents'
      BY <1>5, InsertMetricEffect DEF WrittenEvents
    <3>2. e \in WrittenEvents'
      <4>1. /\ Len(metrics) + 1 \in DOMAIN metrics'
            /\ SameEvent(job, metrics'[Len(metrics) + 1])
        BY <1>5, InsertMetricEffect
      <4> QED  BY <4>1 DEF WrittenEvents, SameEvent
    <3> QED  BY <3>1, <3>2 DEF WrittenEvents
  <2>3. Polled' = Polled
    BY <2>1 DEF Polled
  <2>4. Lost' \subseteq Lost
    BY <2>1, <2>2, <2>3 DEF Lost, BeingWritten
  <2>5. Lost' \subseteq Lost \cup {e}
    BY <2>4
  <2> QED  BY <1>2, <1>3, <2>1, <2>4, <2>5
<1>6. CASE HandlerFails
  <2>1. /\ UNCHANGED <<position, metrics, life>>
        /\ faults' = faults + 1
    BY <1>6 DEF HandlerFails, Raise, table_vars, log_vars
  <2>2. Polled' = Polled /\ WrittenEvents' = WrittenEvents
    BY <2>1 DEF Polled, WrittenEvents
  <2>3. Lost' \subseteq Lost \cup {e}
    BY <2>2 DEF Lost, BeingWritten
  <2> QED  BY <1>3, <2>1, <2>3
<1>7. CASE Rejoin \/ Crash
  <2>1. /\ position' = committed
        /\ metrics' = metrics
        /\ faults' = faults
        /\ \/ Rejoin /\ life' = life /\ pc = "poll"
           \/ Crash /\ life' = life + 1
    BY <1>7 DEF Rejoin, Crash, ResumeOffsets, table_vars
  <2>2. Polled' \subseteq Polled
    <3> SUFFICES ASSUME NEW event \in Polled' PROVE event \in Polled
      OBVIOUS
    <3>1. PICK q \in Partitions : \E i \in 1..position'[q] : event = <<q, i>>
      BY DEF Polled
    <3>2. PICK i \in 1..position'[q] : event = <<q, i>>
      BY <3>1
    <3>3. i \in 1..position[q]
      BY <2>1, CountersType DEF PolledFirst
    <3> QED  BY <3>2, <3>3, PolledIs
  <2>3. WrittenEvents' = WrittenEvents
    BY <2>1 DEF WrittenEvents
  <2>4. Lost' \subseteq Lost \cup {e}
    BY <2>2, <2>3 DEF Lost, BeingWritten
  <2>5. pc = "poll" => Lost' \subseteq Lost
    BY <2>2, <2>3 DEF Lost, BeingWritten
  <2> QED  BY <1>2, <1>3, <2>1, <2>4, <2>5
<1>8. CASE InsertAlert \/ PublishAlert \/ EarlyWarning \/ CommitOffsets \/ UNCHANGED vars
  <2>1. UNCHANGED <<position, metrics, life>>
    BY <1>8 DEF InsertAlert, PublishAlert, EarlyWarning, CommitOffsets, vars,
                table_vars, log_vars
  <2>2. Polled' = Polled /\ WrittenEvents' = WrittenEvents
    BY <2>1 DEF Polled, WrittenEvents
  <2>3. \/ faults' = faults
        \/ faults' = faults + 1
    BY <1>8 DEF InsertAlert, PublishAlert, EarlyWarning, CommitOffsets, vars, Raise
  <2>4. \A event : BeingWritten(event) => BeingWritten(event)'
    BY <1>8 DEF BeingWritten, InsertAlert, PublishAlert, EarlyWarning, CommitOffsets, vars
  <2>5. Lost' \subseteq Lost
    BY <2>2, <2>4 DEF Lost
  <2>6. Lost' \subseteq Lost \cup {e}
    BY <2>5
  <2> QED  BY <1>2, <1>3, <2>1, <2>3, <2>5, <2>6
<1> QED  BY <1>4, <1>5, <1>6, <1>7, <1>8 DEF Next, Handle
(* This session may still write event o of p.                              *)
StillToWrite(p, o) == o > position[p] \/ BeingWritten(<<p, o>>)

(* A step after which the session may write no more than before.           *)
LEMMA RowsKept ==
    ASSUME TypeOK, RowsExplained, UNCHANGED <<metrics, life, rejoins>>,
           \A p \in Partitions, o \in Nat : StillToWrite(p, o)' => StillToWrite(p, o)
    PROVE  RowsExplained'
<1> SUFFICES ASSUME NEW p \in Partitions, NEW o \in Nat
             PROVE  /\ IsFiniteSet(RowsOf(<<p, o>>)')
                    /\ IF StillToWrite(p, o)'
                       THEN Cardinality(RowsOf(<<p, o>>)') < life' + rejoins'
                       ELSE Cardinality(RowsOf(<<p, o>>)') <= life' + rejoins'
  BY DEF RowsExplained, StillToWrite
<1>1. RowsOf(<<p, o>>)' = RowsOf(<<p, o>>)
  BY DEF RowsOf
<1>2. /\ IsFiniteSet(RowsOf(<<p, o>>))
      /\ IF StillToWrite(p, o)
         THEN Cardinality(RowsOf(<<p, o>>)) < life + rejoins
         ELSE Cardinality(RowsOf(<<p, o>>)) <= life + rejoins
  BY DEF RowsExplained, StillToWrite
<1>3. PICK n \in Nat : n = Cardinality(RowsOf(<<p, o>>))
  BY <1>2, FS_CardinalityType
<1>4. StillToWrite(p, o)' => StillToWrite(p, o)
  OBVIOUS
<1> QED  BY <1>1, <1>2, <1>3, <1>4, CountersType

(* Writing a row uses up what the session may write of its event.          *)
LEMMA RowsStep ==
    ASSUME TypeOK, ModelsAreFitted, PolledFirst, RowsExplained, [Next]_vars
    PROVE  RowsExplained'
<1>1. CASE Consume
  <2>1. PICK q \in Partitions, x \in Nat :
           /\ x = position[q] + 1
           /\ position' = [position EXCEPT ![q] = x]
           /\ pc = "poll" /\ pc' = "insert_metric"
           /\ job'.partition = q /\ job'.offset = x
           /\ UNCHANGED <<metrics, life, rejoins>>
    BY <1>1, PollEffect
  <2>2. \A p \in Partitions : position'[p] = IF p = q THEN x ELSE position[p]
    BY <2>1 DEF TypeOK
  <2>3. ASSUME NEW p \in Partitions, NEW o \in Nat, StillToWrite(p, o)'
        PROVE  StillToWrite(p, o)
    <3>1. position[p] \in Nat /\ position[q] \in Nat
      BY CountersType
    <3>2. o > position'[p] \/ (p = q /\ o = x)
      BY <2>1, <2>3 DEF StillToWrite, BeingWritten
    <3>3. o > position[p]
      BY <2>1, <2>2, <3>1, <3>2
    <3> QED  BY <3>3 DEF StillToWrite
  <2> QED  BY <2>1, <2>3, RowsKept
<1>2. CASE InsertMetric
  <2> SUFFICES ASSUME NEW p \in Partitions, NEW o \in Nat
               PROVE  /\ IsFiniteSet(RowsOf(<<p, o>>)')
                      /\ IF StillToWrite(p, o)'
                         THEN Cardinality(RowsOf(<<p, o>>)') < life' + rejoins'
                         ELSE Cardinality(RowsOf(<<p, o>>)') <= life' + rejoins'
    BY DEF RowsExplained, StillToWrite
  <2> DEFINE rows == RowsOf(<<p, o>>)
  <2>1. /\ pc = "insert_metric" /\ pc' # "insert_metric"
        /\ UNCHANGED <<position, life, rejoins>>
    BY <1>2 DEF InsertMetric, Raise, Return, log_vars
  <2>2. /\ IsFiniteSet(rows)
        /\ IF StillToWrite(p, o)
           THEN Cardinality(rows) < life + rejoins
           ELSE Cardinality(rows) <= life + rejoins
    BY DEF RowsExplained, StillToWrite
  <2>3. PICK n \in Nat : n = Cardinality(rows)
    BY <2>2, FS_CardinalityType
  <2>4. StillToWrite(p, o)' <=> o > position[p]
    BY <2>1 DEF StillToWrite, BeingWritten
  <2>5. PICK row : /\ row = metrics'[Len(metrics) + 1]
                   /\ row.partition = job.partition
                   /\ row.offset = job.offset
    BY <1>2, InsertMetricEffect DEF SameEvent
  <2>6. ASSUME NEW m
        PROVE  m \in rows' <=> \/ m \in rows
                               \/ /\ m = Len(metrics) + 1
                                  /\ <<row.partition, row.offset>> = <<p, o>>
    <3>1. m \in rows' <=> /\ m \in DOMAIN metrics'
                          /\ <<metrics'[m].partition, metrics'[m].offset>> = <<p, o>>
      BY DEF RowsOf
    <3>2. m \in rows <=> /\ m \in DOMAIN metrics
                         /\ <<metrics[m].partition, metrics[m].offset>> = <<p, o>>
      BY DEF RowsOf
    <3>3. m \in DOMAIN metrics' <=> m \in DOMAIN metrics \/ m = Len(metrics) + 1
      BY <1>2, InsertMetricEffect
    <3>4. m \in DOMAIN metrics => metrics'[m] = metrics[m] /\ m # Len(metrics) + 1
      BY <1>2, InsertMetricEffect
    <3> HIDE DEF rows
    <3> QED  BY <2>5, <3>1, <3>2, <3>3, <3>4
  <2> HIDE DEF rows
  <2>7. CASE <<p, o>> = <<job.partition, job.offset>>
    <3>1. StillToWrite(p, o)
      BY <2>1, <2>7 DEF StillToWrite, BeingWritten
    <3>2. ~(o > position[p])
      BY <2>1, <2>7, CountersType DEF PolledFirst
    <3>3. rows' = rows \cup {Len(metrics) + 1}
      BY <2>5, <2>6, <2>7
    <3>4. /\ IsFiniteSet(rows')
          /\ Cardinality(rows') = n \/ Cardinality(rows') = n + 1
      BY <2>2, <2>3, <3>3, FS_AddElement
    <3>5. Cardinality(rows') <= life' + rejoins'
      BY <2>1, <2>2, <2>3, <3>1, <3>4, CountersType
    <3> QED  BY <2>4, <3>2, <3>4, <3>5 DEF rows
  <2>8. CASE <<p, o>> # <<job.partition, job.offset>>
    <3>1. rows' = rows
      BY <2>5, <2>6, <2>8
    <3>2. StillToWrite(p, o)' => StillToWrite(p, o)
      BY <2>4 DEF StillToWrite
    <3>3. /\ IsFiniteSet(rows')
          /\ IF StillToWrite(p, o)'
             THEN Cardinality(rows') < life' + rejoins'
             ELSE Cardinality(rows') <= life' + rejoins'
      BY <2>1, <2>2, <2>3, <3>1, <3>2, CountersType
    <3> QED  BY <3>3 DEF rows
  <2> QED  BY <2>7, <2>8
<1>3. CASE Rejoin \/ Crash
  <2> SUFFICES ASSUME NEW p \in Partitions, NEW o \in Nat
               PROVE  /\ IsFiniteSet(RowsOf(<<p, o>>)')
                      /\ Cardinality(RowsOf(<<p, o>>)') < life' + rejoins'
                      /\ Cardinality(RowsOf(<<p, o>>)') <= life' + rejoins'
    BY Zenon DEF RowsExplained
  <2>1. /\ metrics' = metrics
        /\ \/ life' = life + 1 /\ rejoins' = rejoins
           \/ life' = life /\ rejoins' = rejoins + 1
    BY <1>3 DEF Rejoin, Crash, table_vars
  <2>2. RowsOf(<<p, o>>)' = RowsOf(<<p, o>>)
    BY <2>1 DEF RowsOf
  <2>3. /\ IsFiniteSet(RowsOf(<<p, o>>))
        /\ \/ Cardinality(RowsOf(<<p, o>>)) < life + rejoins
           \/ Cardinality(RowsOf(<<p, o>>)) <= life + rejoins
    BY DEF RowsExplained
  <2>4. PICK n \in Nat : n = Cardinality(RowsOf(<<p, o>>))
    BY <2>3, FS_CardinalityType
  <2>5. n <= life + rejoins
    BY <2>3, <2>4, CountersType
  <2> QED  BY <2>1, <2>2, <2>3, <2>4, <2>5, CountersType
<1>4. CASE InsertAlert \/ PublishAlert \/ EarlyWarning \/ HandlerFails
           \/ CommitOffsets \/ UNCHANGED vars
  <2>1. UNCHANGED <<position, metrics, life, rejoins>>
    BY <1>4 DEF InsertAlert, PublishAlert, EarlyWarning, HandlerFails, CommitOffsets, vars,
                table_vars, log_vars
  <2>2. \A event : BeingWritten(event)' => BeingWritten(event)
    BY <1>4 DEF BeingWritten, InsertAlert, PublishAlert, EarlyWarning, HandlerFails,
                CommitOffsets, Raise, Return, vars
  <2>3. \A p \in Partitions, o \in Nat : StillToWrite(p, o)' => StillToWrite(p, o)
    BY <2>1, <2>2 DEF StillToWrite
  <2> QED  BY <2>1, <2>3, RowsKept
<1> QED  BY <1>1, <1>2, <1>3, <1>4 DEF Next, Handle

(* The three hold of the start.                                            *)
LEMMA LossInit == Init => PolledFirst /\ LossesExplained /\ RowsExplained
<1> SUFFICES ASSUME Init PROVE PolledFirst /\ LossesExplained /\ RowsExplained
  OBVIOUS
<1>1. PolledFirst
  BY DEF Init, PolledFirst
<1>2. Lost = {}
  BY DEF Init, Lost, Polled
<1>3. faults = 0 /\ life = 1 /\ rejoins = 0
  BY DEF Init
<1>4. LossesExplained
  BY <1>2, <1>3, FS_EmptySet DEF LossesExplained
<1>5. \A event : RowsOf(event) = {}
  BY DEF Init, RowsOf
<1>6. RowsExplained
  BY <1>3, <1>5, FS_EmptySet DEF RowsExplained
<1> QED  BY <1>1, <1>4, <1>6

(* With the event being written, the lost ones are all that is missing.    *)
LEMMA LossFollows ==
    ASSUME TypeOK, LossesExplained, RowsExplained
    PROVE  LossBound
<1>1. Cardinality(Polled \ WrittenEvents)
        <= faults + (life - 1) + (IF pc = "insert_metric" THEN 1 ELSE 0)
  <2> DEFINE missing == Polled \ WrittenEvents
             e == <<job.partition, job.offset>>
  <2>1. PICK n \in Nat : n = Cardinality(Lost)
    BY FS_CardinalityType DEF LossesExplained
  <2>2. n <= faults + (life - 1)
    BY <2>1 DEF LossesExplained
  <2>3. CASE pc = "insert_metric"
    <3>1. missing \subseteq Lost \cup {e}
      BY DEF Lost, BeingWritten
    <3>2. /\ IsFiniteSet(Lost \cup {e})
          /\ Cardinality(Lost \cup {e}) = n \/ Cardinality(Lost \cup {e}) = n + 1
      BY <2>1, FS_AddElement DEF LossesExplained
    <3>3. /\ Cardinality(missing) <= Cardinality(Lost \cup {e})
          /\ Cardinality(missing) \in Nat
      <4> HIDE DEF missing
      <4> QED  BY <3>1, <3>2, FS_Subset, FS_CardinalityType
    <3> HIDE DEF missing
    <3>4. Cardinality(missing) <= faults + (life - 1) + 1
      BY <2>2, <3>2, <3>3, CountersType
    <3> QED  BY <2>3, <3>4 DEF missing
  <2>4. CASE pc # "insert_metric"
    <3>1. missing = Lost
      BY <2>4 DEF Lost, BeingWritten
    <3> QED  BY <2>1, <2>2, <2>4, <3>1, CountersType
  <2> QED  BY <2>3, <2>4
<1>2. ASSUME NEW event \in WrittenEvents
      PROVE  Cardinality(RowsOf(event)) <= life + rejoins
  <2>1. PICK m \in DOMAIN metrics : event = <<metrics[m].partition, metrics[m].offset>>
    BY <1>2 DEF WrittenEvents
  <2>2. metrics[m] \in MetricRow
    BY <2>1, ElementOfSeq DEF TypeOK
  <2>3. PICK p \in Partitions, o \in Nat : event = <<p, o>>
    BY <2>1, <2>2 DEF MetricRow
  <2>4. /\ IsFiniteSet(RowsOf(event))
        /\ \/ Cardinality(RowsOf(event)) < life + rejoins
           \/ Cardinality(RowsOf(event)) <= life + rejoins
    BY <2>3 DEF RowsExplained
  <2>5. PICK n \in Nat : n = Cardinality(RowsOf(event))
    BY <2>4, FS_CardinalityType
  <2> QED  BY <2>4, <2>5, CountersType
<1> QED  BY <1>1, <1>2 DEF LossBound

(* Although offsets are committed without regard to the handler, each      *)
(* exception and each crash costs at most one event its metrics row, and an*)
(* event has at most one row per session with the consumer group           *)
(* (kafka_utils.py:53 and 81, main.py:62-79).                              *)
THEOREM LossIsBounded == Spec => []LossBound
<1>1. /\ TypeOK /\ (ModelsAreFitted /\ JobIsJudged /\ JobHasRow)
      /\ (PolledFirst /\ LossesExplained /\ RowsExplained) /\ [Next]_vars
      => (PolledFirst /\ LossesExplained /\ RowsExplained)'
  BY PolledFirstStep, LossStep, RowsStep, Zenon
<1>2. TypeOK /\ (PolledFirst /\ LossesExplained /\ RowsExplained) => LossBound
  BY LossFollows, Zenon
<1> QED  BY <1>1, <1>2, LossInit, TypeCorrect, HandlingCorrect, PTL DEF Spec
-----------------------------------------------------------------------------
(* What is told.  Without exceptions and restarts, every anomaly and every *)
(* prediction in `metrics' is published, or close to one that is.  The     *)
(* decision, the clock, the two rows and the message are steps of their    *)
(* own; what links them is that a clock which nothing in flight has armed  *)
(* stands at the time of a published alert.                                *)

(* Nothing has gone wrong so far.  A rejoin does no harm here.             *)
NoMishap == faults = 0 /\ life = 1

(* Messages carry rows that are there.                                     *)
ProducedAreRows == \A k \in DOMAIN produced : produced[k] \in DOMAIN alerts

(* Until it is published, the newest alert is that of the event at hand,   *)
(* and its clock stands at that event.                                     *)
NewestIsJobs ==
    pc = "publish_alert" =>
        /\ Len(alerts) > 0
        /\ LET alert == alerts[Len(alerts)]
           IN  /\ alert.host = job.host
               /\ alert.is_early_warning = job.is_early_warning
               /\ alert.triggered_at = job.ts
               /\ alert.metrics_id = job.metrics_id
               /\ alert.life = life
        /\ Clock(job.host, job.is_early_warning) = job.ts

(* An anomaly that will not be published was held back by its cooldown.    *)
HeldBack ==
    pc = "insert_metric" /\ job.is_anomaly /\ ~job.should_publish_alert =>
        CooldownActive(Clock(job.host, FALSE), job.ts)

(* An alert of this host and kind has armed its clock and is not out yet.  *)
InFlight(h, early) ==
    \/ Arming(h, early)
    \/ pc = "publish_alert" /\ job.host = h /\ job.is_early_warning = early

(* An alert of this life with that host, kind and time is out.             *)
Published(h, early, at) ==
    \E k \in DOMAIN produced :
        LET alert == alerts[produced[k]]
        IN  /\ alert.host = h
            /\ alert.is_early_warning = early
            /\ alert.life = life
            /\ alert.triggered_at = at

ClocksArePublished ==
    \A h \in Hosts, early \in BOOLEAN :
        Clock(h, early) # NoTime /\ ~InFlight(h, early) => Published(h, early, Clock(h, early))

(* Row m is that of the event at hand, whose alert of the kind may come.   *)
InHand(m, early) ==
    /\ job.metrics_id = m
    /\ \/ pc \in {"insert_alert", "publish_alert"} /\ (early \/ ~job.is_early_warning)
       \/ pc = "early_warning" /\ early

RowsAreTold ==
    \A m \in DOMAIN metrics :
        /\ metrics[m].is_anomaly => Covered(m, FALSE) \/ InHand(m, FALSE)
        /\ metrics[m].predicted => Covered(m, TRUE) \/ InHand(m, TRUE)

(* What the lemmas below assume of a state.                                *)
HandlingInv ==
    /\ TypeOK
    /\ ClocksCoverAlerts
    /\ ModelsAreFitted /\ JobIsJudged /\ JobHasRow
    /\ AlertCitesItsMetric
    /\ ProducedAreRows /\ NewestIsJobs /\ HeldBack

(* Appending leaves what is there where it is.                             *)
LEMMA AppendKeeps ==
    ASSUME NEW S, NEW s \in Seq(S), NEW t, t = s \/ \E x : t = Append(s, x)
    PROVE  \A i \in DOMAIN s : i \in DOMAIN t /\ t[i] = s[i]
<1>1. CASE t = s
  BY <1>1
<1>2. CASE \E x : t = Append(s, x)
  <2>1. PICK x : t = Append(s, x)
    BY <1>2
  <2>2. s \in Seq(S \cup {x})
    OBVIOUS
  <2> QED  BY <2>1, <2>2
<1> QED  BY <1>1, <1>2

(* The tables and the log of messages are only ever appended to.           *)
LEMMA TablesGrow ==
    ASSUME TypeOK, [Next]_vars
    PROVE  /\ \A i \in DOMAIN alerts : i \in DOMAIN alerts' /\ alerts'[i] = alerts[i]
           /\ \A m \in DOMAIN metrics : m \in DOMAIN metrics' /\ metrics'[m] = metrics[m]
           /\ \A k \in DOMAIN produced : k \in DOMAIN produced' /\ produced'[k] = produced[k]
<1>1. \A i \in DOMAIN alerts : i \in DOMAIN alerts' /\ alerts'[i] = alerts[i]
  <2>1. alerts' = alerts \/ \E row : alerts' = Append(alerts, row)
    BY DEF Next, Handle, Consume, ConsumeWarmup, ConsumeScored, PollEvent, InsertMetric,
           InsertAlert, PublishAlert, EarlyWarning, HandlerFails, CommitOffsets, Rejoin,
           Crash, table_vars, vars
  <2> QED  BY <2>1, AppendKeeps DEF TypeOK
<1>2. \A m \in DOMAIN metrics : m \in DOMAIN metrics' /\ metrics'[m] = metrics[m]
  <2>1. metrics' = metrics \/ \E row : metrics' = Append(metrics, row)
    BY DEF Next, Handle, Consume, ConsumeWarmup, ConsumeScored, PollEvent, InsertMetric,
           InsertAlert, PublishAlert, EarlyWarning, HandlerFails, CommitOffsets, Rejoin,
           Crash, table_vars, vars
  <2> QED  BY <2>1, AppendKeeps DEF TypeOK
<1>3. \A k \in DOMAIN produced : k \in DOMAIN produced' /\ produced'[k] = produced[k]
  <2>1. produced' = produced \/ \E x : produced' = Append(produced, x)
    BY DEF Next, Handle, Consume, ConsumeWarmup, ConsumeScored, PollEvent, InsertMetric,
           InsertAlert, PublishAlert, EarlyWarning, HandlerFails, CommitOffsets, Rejoin,
           Crash, table_vars, vars
  <2> QED  BY <2>1, AppendKeeps DEF TypeOK
<1> QED  BY <1>1, <1>2, <1>3

(* publish_alert hands out the newest row, which is there.                 *)
LEMMA ProducedStep ==
    ASSUME TypeOK, ProducedAreRows, NewestIsJobs, [Next]_vars
    PROVE  ProducedAreRows'
<1>1. CASE PublishAlert
  <2>1. /\ produced' = Append(produced, Len(alerts))
        /\ alerts' = alerts
        /\ Len(alerts) \in DOMAIN alerts
    BY <1>1 DEF PublishAlert, AlertToPublish, NewestIsJobs, TypeOK
  <2>2. \A k \in DOMAIN produced' :
           \/ k \in DOMAIN produced /\ produced'[k] = produced[k]
           \/ produced'[k] = Len(alerts)
    BY <2>1 DEF TypeOK
  <2> QED  BY <2>1, <2>2 DEF ProducedAreRows
<1>2. CASE ~PublishAlert
  <2>1. produced' = produced
    BY <1>2 DEF Next, Handle, Consume, ConsumeWarmup, ConsumeScored, PollEvent,
                InsertMetric, InsertAlert, EarlyWarning, HandlerFails, CommitOffsets,
                Rejoin, Crash, table_vars, vars
  <2> QED  BY <2>1, TablesGrow DEF ProducedAreRows
<1> QED  BY <1>1, <1>2

(* Only InsertAlert leads to publish_alert.                                *)
LEMMA NewestStep ==
    ASSUME TypeOK, ClocksCoverAlerts, NewestIsJobs, [Next]_vars
    PROVE  NewestIsJobs'
<1>1. CASE InsertAlert /\ pc' = "publish_alert"
  <2>1. /\ job' = job /\ states' = states /\ life' = life
        /\ alerts'[Len(alerts) + 1].metrics_id = job.metrics_id
    <3>1. job' = job /\ states' = states /\ life' = life
      BY <1>1 DEF InsertAlert, Raise, Return, log_vars
    <3> DEFINE row ==
          [host |-> job.host, partition |-> job.partition, offset |-> job.offset,
           triggered_at |-> job.ts,
           severity |-> IF job.is_early_warning THEN "warning" ELSE job.severity,
           metrics_id |-> job.metrics_id, is_early_warning |-> job.is_early_warning,
           recent_metrics |-> states[job.host].raw_buffer, life |-> life]
    <3>2. row.metrics_id = job.metrics_id
      OBVIOUS
    <3>3. alerts' = Append(alerts, row)
      BY <1>1 DEF InsertAlert
    <3> HIDE DEF row
    <3>4. alerts'[Len(alerts) + 1] = row
      BY <3>3 DEF TypeOK
    <3> QED  BY <3>1, <3>2, <3>4
  <2>2. /\ Len(alerts') = Len(alerts) + 1
        /\ Len(alerts') > 0
    BY <1>1, InsertAlertEffect DEF InsertAlert, TypeOK
  <2>3. Clock(job.host, job.is_early_warning)' = Clock(job.host, job.is_early_warning)
    BY <2>1 DEF Clock
  <2> QED  BY <1>1, <2>1, <2>2, <2>3, InsertAlertEffect DEF NewestIsJobs
<1>2. CASE pc' # "publish_alert"
  BY <1>2 DEF NewestIsJobs
<1>3. CASE CommitOffsets \/ UNCHANGED vars
  <2>1. UNCHANGED <<pc, job, alerts, states, life>>
    BY <1>3 DEF CommitOffsets, table_vars, log_vars, vars
  <2> QED  BY <2>1 DEF NewestIsJobs, Clock
<1>4. (Consume \/ InsertMetric \/ PublishAlert \/ EarlyWarning \/ HandlerFails
         \/ Rejoin \/ Crash) => pc' # "publish_alert"
  BY DEF Consume, ConsumeWarmup, ConsumeScored, PollEvent, InsertMetric, PublishAlert,
         EarlyWarning, HandlerFails, Rejoin, Crash, Return, Raise
<1> QED  BY <1>1, <1>2, <1>3, <1>4 DEF Next, Handle

(* The clock that held an anomaly back is still the same when it is written*)
(* down.                                                                   *)
LEMMA HeldBackStep ==
    ASSUME TypeOK, ModelsAreFitted, HeldBack, [Next]_vars
    PROVE  HeldBack'
<1>1. CASE Consume
  <2>1. PICK p \in Partitions : ConsumeWarmup(p) \/ ConsumeScored(p)
    BY <1>1 DEF Consume
  <2>2. PICK h \in Hosts, s \in HostModelState, j \in Job :
           /\ states' = [states EXCEPT ![h] = s]
           /\ job' = j
           /\ j.host = h
           /\ j.is_anomaly /\ ~j.should_publish_alert =>
                CooldownActive(states[h].last_alert_time, j.ts)
    BY <2>1, ConsumeVerdict
  <2>3. PICK g \in Hosts, t \in HostModelState, i \in Job :
           /\ states' = [states EXCEPT ![g] = t]
           /\ job' = i
           /\ i.host = g
           /\ IF i.should_publish_alert
              THEN t.last_alert_time = i.ts
              ELSE t.last_alert_time = states[g].last_alert_time
    BY <2>1, ConsumeEffect
  <2>4. g = h /\ i = j /\ states'[h] = t
    BY <2>2, <2>3 DEF TypeOK
  <2>5. Clock(job.host, FALSE)' = t.last_alert_time
    BY <2>2, <2>4 DEF Clock
  <2> QED  BY <2>2, <2>3, <2>4, <2>5 DEF HeldBack
<1>2. CASE pc' # "insert_metric"
  BY <1>2 DEF HeldBack
<1>3. CASE CommitOffsets \/ UNCHANGED vars
  <2>1. UNCHANGED <<pc, job, states>>
    BY <1>3 DEF CommitOffsets, vars
  <2> QED  BY <2>1 DEF HeldBack, Clock
<1>4. Handle \/ HandlerFails \/ Rejoin \/ Crash => pc' # "insert_metric"
  BY DEF Handle, InsertMetric, InsertAlert, PublishAlert, EarlyWarning, HandlerFails,
         Rejoin, Crash, Return, Raise
<1> QED  BY <1>1, <1>2, <1>3, <1>4 DEF Next

(* Nothing has gone wrong before a step after which nothing has.           *)
LEMMA MishapStep ==
    ASSUME TypeOK, [Next]_vars, NoMishap'
    PROVE  NoMishap /\ ~Raise /\ ~HandlerFails /\ ~Crash
<1>1. faults' = faults \/ faults' = faults + 1
  BY DEF Next, Handle, Consume, ConsumeWarmup, ConsumeScored, PollEvent, InsertMetric,
         InsertAlert, PublishAlert, EarlyWarning, HandlerFails, CommitOffsets, Rejoin,
         Crash, Raise, vars
<1>2. life' = life \/ life' = life + 1
  BY DEF Next, Handle, Consume, ConsumeWarmup, ConsumeScored, PollEvent, InsertMetric,
         InsertAlert, PublishAlert, EarlyWarning, HandlerFails, CommitOffsets, Rejoin,
         Crash, log_vars, vars
<1>3. NoMishap
  BY <1>1, <1>2, CountersType DEF NoMishap
<1>4. ~Raise /\ ~Crash
  BY <1>3 DEF NoMishap, Raise, Crash
<1> QED  BY <1>3, <1>4 DEF HandlerFails

(* What was published stays published.                                     *)
LEMMA PublishedKept ==
    ASSUME TypeOK, ProducedAreRows, [Next]_vars, life' = life,
           NEW h, NEW early, NEW at, Published(h, early, at)
    PROVE  Published(h, early, at)'
<1>1. PICK k \in DOMAIN produced :
         LET alert == alerts[produced[k]]
         IN  /\ alert.host = h
             /\ alert.is_early_warning = early
             /\ alert.life = life
             /\ alert.triggered_at = at
  BY DEF Published
<1>2. k \in DOMAIN produced' /\ produced'[k] = produced[k]
  BY TablesGrow
<1>3. produced[k] \in DOMAIN alerts
  BY DEF ProducedAreRows
<1>4. alerts'[produced'[k]] = alerts[produced[k]]
  BY <1>2, <1>3, TablesGrow
<1> QED  BY <1>1, <1>2, <1>4 DEF Published

(* So does what was told.                                                  *)
LEMMA CoveredKept ==
    ASSUME TypeOK, ProducedAreRows, [Next]_vars,
           NEW m \in DOMAIN metrics, NEW early, Covered(m, early)
    PROVE  Covered(m, early)'
<1>1. PICK k \in DOMAIN produced :
         LET alert == alerts[produced[k]]
         IN  /\ alert.host = metrics[m].host
             /\ alert.life = metrics[m].life
             /\ alert.is_early_warning = early
             /\ \/ alert.metrics_id = m
                \/ /\ alert.metrics_id < m
                   /\ metrics[m].ts - alert.triggered_at < CooldownSeconds
  BY DEF Covered
<1>2. /\ k \in DOMAIN produced' /\ produced'[k] = produced[k]
      /\ metrics'[m] = metrics[m]
  BY TablesGrow
<1>3. produced[k] \in DOMAIN alerts
  BY DEF ProducedAreRows
<1>4. alerts'[produced'[k]] = alerts[produced[k]]
  BY <1>2, <1>3, TablesGrow
<1> QED  BY <1>1, <1>2, <1>4 DEF Covered

(* A step that moves no clock and after which nothing in flight has landed.*)
LEMMA QuietClocks ==
    ASSUME HandlingInv, ClocksArePublished, [Next]_vars, states' = states, life' = life,
           \A h \in Hosts, early \in BOOLEAN : InFlight(h, early) => InFlight(h, early)'
    PROVE  ClocksArePublished'
<1> SUFFICES ASSUME NEW h \in Hosts, NEW early \in BOOLEAN,
                    Clock(h, early)' # NoTime, ~InFlight(h, early)'
             PROVE  Published(h, early, Clock(h, early))'
  BY DEF ClocksArePublished
<1>1. Clock(h, early)' = Clock(h, early)
  BY DEF Clock
<1>2. PICK at : at = Clock(h, early)
  OBVIOUS
<1>3. Published(h, early, at)
  BY <1>1, <1>2 DEF ClocksArePublished
<1>4. Published(h, early, at)'
  BY <1>3, PublishedKept DEF HandlingInv
<1> QED  BY <1>1, <1>2, <1>4

(* The alert that publish_alert hands out carries the time of its clock.   *)
LEMMA PublishTells ==
    ASSUME HandlingInv, PublishAlert
    PROVE  \E k \in DOMAIN produced' :
              LET alert == alerts'[produced'[k]]
              IN  /\ alert.host = job.host
                  /\ alert.is_early_warning = job.is_early_warning
                  /\ alert.life = life
                  /\ alert.triggered_at = job.ts
                  /\ alert.metrics_id = job.metrics_id
<1>1. /\ pc = "publish_alert"
      /\ produced' = Append(produced, Len(alerts))
      /\ alerts' = alerts
  BY DEF PublishAlert, AlertToPublish
<1>2. /\ Len(produced) + 1 \in DOMAIN produced'
      /\ produced'[Len(produced) + 1] = Len(alerts)
  BY <1>1 DEF HandlingInv, TypeOK
<1> QED  BY <1>1, <1>2 DEF HandlingInv, NewestIsJobs

(* A clock that moves is one an alert in flight has armed, and an alert    *)
(* lands at the time of its clock.                                         *)
LEMMA ClocksPublishedStep ==
    ASSUME HandlingInv, ClocksArePublished, [Next]_vars, NoMishap'
    PROVE  ClocksArePublished'
<1> USE DEF HandlingInv
<1>1. NoMishap /\ ~Raise /\ ~HandlerFails /\ ~Crash /\ life' = life
  BY MishapStep DEF NoMishap
<1>2. CASE Consume
  <2>1. PICK p \in Partitions : ConsumeWarmup(p) \/ ConsumeScored(p)
    BY <1>2 DEF Consume
  <2>2. pc = "poll" /\ pc' = "insert_metric"
    BY <2>1 DEF ConsumeWarmup, ConsumeScored, PollEvent
  <2>3. PICK g \in Hosts, s \in HostModelState, j \in Job :
           /\ states' = [states EXCEPT ![g] = s]
           /\ job' = j
           /\ j.host = g
           /\ s.last_early_warning_time = states[g].last_early_warning_time
           /\ IF j.should_publish_alert
              THEN s.last_alert_time = j.ts
              ELSE s.last_alert_time = states[g].last_alert_time
    BY <2>1, ConsumeEffect
  <2> SUFFICES ASSUME NEW h \in Hosts, NEW early \in BOOLEAN,
                      Clock(h, early)' # NoTime, ~InFlight(h, early)'
               PROVE  Published(h, early, Clock(h, early))'
    BY DEF ClocksArePublished
  <2>4. states'[h] = IF h = g THEN s ELSE states[h]
    BY <2>3 DEF TypeOK
  <2>5. ~(h = g /\ ~early /\ j.should_publish_alert)
    BY <2>2, <2>3 DEF InFlight, Arming
  <2>6. Clock(h, early)' = Clock(h, early)
    BY <2>3, <2>4, <2>5 DEF Clock
  <2>7. ~InFlight(h, early)
    BY <2>2 DEF InFlight, Arming
  <2>8. PICK at : at = Clock(h, early)
    OBVIOUS
  <2>9. Published(h, early, at)
    BY <2>6, <2>7, <2>8 DEF ClocksArePublished
  <2>10. Published(h, early, at)'
    BY <1>1, <2>9, PublishedKept
  <2> QED  BY <2>6, <2>8, <2>10
<1>3. CASE InsertMetric
  <2>1. /\ states' = states
        /\ pc = "insert_metric" /\ job \in Job
        /\ ~job.is_early_warning
        /\ job.should_publish_alert => job.scored
    BY <1>3 DEF InsertMetric, TypeOK, JobIsJudged
  <2>2. job.should_publish_alert =>
          /\ pc' = "insert_alert"
          /\ job' = [job EXCEPT !.metrics_id = Len(metrics) + 1]
    BY <1>1, <1>3, <2>1 DEF InsertMetric
  <2>3. job.should_publish_alert => job'.host = job.host /\ job'.is_early_warning = FALSE
    BY <2>1, <2>2 DEF Job
  <2>4. ASSUME NEW h \in Hosts, NEW early \in BOOLEAN, InFlight(h, early)
        PROVE  InFlight(h, early)'
    <3>1. job.host = h /\ job.should_publish_alert /\ early = FALSE
      BY <2>1, <2>4 DEF InFlight, Arming
    <3> QED  BY <2>2, <2>3, <3>1 DEF InFlight, Arming
  <2> QED  BY <1>1, <2>1, <2>4, QuietClocks
<1>4. CASE InsertAlert
  <2>1. /\ states' = states /\ job' = job
        /\ pc = "insert_alert" /\ pc' = "publish_alert"
    BY <1>1, <1>4 DEF InsertAlert
  <2>2. \A h \in Hosts, early \in BOOLEAN : InFlight(h, early) => InFlight(h, early)'
    BY <2>1 DEF InFlight, Arming
  <2> QED  BY <1>1, <2>1, <2>2, QuietClocks
<1>5. CASE PublishAlert
  <2>1. states' = states /\ pc = "publish_alert" /\ pc' \in {"poll", "early_warning"}
    BY <1>5 DEF PublishAlert, Return
  <2> SUFFICES ASSUME NEW h \in Hosts, NEW early \in BOOLEAN, Clock(h, early)' # NoTime
               PROVE  Published(h, early, Clock(h, early))'
    BY DEF ClocksArePublished
  <2>2. Clock(h, early)' = Clock(h, early)
    BY <2>1 DEF Clock
  <2>3. PICK at : at = Clock(h, early)
    OBVIOUS
  <2>4. CASE InFlight(h, early)
    <3>1. job.host = h /\ job.is_early_warning = early
      BY <2>1, <2>4 DEF InFlight, Arming
    <3>2. at = job.ts
      BY <2>1, <2>3, <3>1 DEF NewestIsJobs
    <3>3. Published(h, early, at)'
      BY <1>1, <1>5, <3>1, <3>2, PublishTells DEF Published
    <3> QED  BY <2>2, <2>3, <3>3
  <2>5. CASE ~InFlight(h, early)
    <3>1. Published(h, early, at)
      BY <2>2, <2>3, <2>5 DEF ClocksArePublished
    <3>2. Published(h, early, at)'
      BY <1>1, <3>1, PublishedKept
    <3> QED  BY <2>2, <2>3, <3>2
  <2> QED  BY <2>4, <2>5
<1>6. CASE EarlyWarning
  <2>1. pc = "early_warning" /\ job \in Job /\ job.host \in Hosts
    BY <1>6 DEF EarlyWarning, TypeOK, Job
  <2>2. CASE EarlyWarningDue(states[job.host])
    <3>1. /\ states' = [states EXCEPT ![job.host] = EarlyWarningArmed(@)]
          /\ job' = [job EXCEPT !.is_early_warning = TRUE]
          /\ pc' = "insert_alert"
      BY <1>6, <2>2 DEF EarlyWarning
    <3>2. job'.host = job.host /\ job'.is_early_warning = TRUE
      BY <2>1, <3>1 DEF Job
    <3> SUFFICES ASSUME NEW h \in Hosts, NEW early \in BOOLEAN,
                        Clock(h, early)' # NoTime, ~InFlight(h, early)'
                 PROVE  Published(h, early, Clock(h, early))'
      BY DEF ClocksArePublished
    <3>3. h # job.host \/ ~early
      BY <3>1, <3>2 DEF InFlight, Arming
    <3>4. states[h] \in HostModelState
      BY DEF TypeOK
    <3>5. \/ states'[h] = states[h]
          \/ states'[h] = EarlyWarningArmed(states[h]) /\ ~early
      BY <2>1, <3>1, <3>3 DEF TypeOK
    <3>6. EarlyWarningArmed(states[h]).last_alert_time = states[h].last_alert_time
      BY <3>4 DEF EarlyWarningArmed, HostModelState
    <3>7. Clock(h, early)' = Clock(h, early)
      BY <3>5, <3>6, Zenon DEF Clock
    <3>8. ~InFlight(h, early)
      BY <2>1 DEF InFlight, Arming
    <3>9. PICK at : at = Clock(h, early)
      OBVIOUS
    <3>10. Published(h, early, at)
      BY <3>7, <3>8, <3>9 DEF ClocksArePublished
    <3>11. Published(h, early, at)'
      BY <1>1, <3>10, PublishedKept
    <3> QED  BY <3>7, <3>9, <3>11
  <2>3. CASE ~EarlyWarningDue(states[job.host])
    <3>1. states' = states
      BY <1>6, <2>3 DEF EarlyWarning
    <3>2. \A h \in Hosts, early \in BOOLEAN : ~InFlight(h, early)
      BY <2>1 DEF InFlight, Arming
    <3> QED  BY <1>1, <3>1, <3>2, QuietClocks
  <2> QED  BY <2>2, <2>3
<1>7. CASE CommitOffsets \/ Rejoin \/ UNCHANGED vars
  <2>1. UNCHANGED <<states, pc, job>>
    BY <1>7 DEF CommitOffsets, Rejoin, vars
  <2>2. \A h \in Hosts, early \in BOOLEAN : InFlight(h, early) => InFlight(h, early)'
    BY <2>1 DEF InFlight, Arming
  <2> QED  BY <1>1, <2>1, <2>2, QuietClocks
<1> QED  BY <1>1, <1>2, <1>3, <1>4, <1>5, <1>6, <1>7 DEF Next, Handle
(* A row within the cooldown of a clock that nothing in flight has armed is*)
(* covered by the alert that stands at the clock.                          *)
LEMMA CooldownCovers ==
    ASSUME HandlingInv, ClocksArePublished, [Next]_vars, life' = life,
           NEW m \in DOMAIN metrics', NEW h \in Hosts, NEW early \in BOOLEAN,
           NEW ts \in Nat,
           metrics'[m].host = h, metrics'[m].life = life, metrics'[m].ts = ts,
           m >= Len(metrics),
           CooldownActive(Clock(h, early), ts), ~InFlight(h, early)
    PROVE  Covered(m, early)'
<1> USE DEF HandlingInv
<1>1. PICK at : at = Clock(h, early)
  OBVIOUS
<1>2. Published(h, early, at)
  BY <1>1 DEF ClocksArePublished, CooldownActive
<1>3. PICK k \in DOMAIN produced :
         LET alert == alerts[produced[k]]
         IN  /\ alert.host = h
             /\ alert.is_early_warning = early
             /\ alert.life = life
             /\ alert.triggered_at = at
  BY <1>2 DEF Published
<1>4. k \in DOMAIN produced' /\ produced'[k] = produced[k]
  BY TablesGrow
<1>5. produced[k] \in DOMAIN alerts
  BY DEF ProducedAreRows
<1>6. alerts'[produced'[k]] = alerts[produced[k]]
  BY <1>4, <1>5, TablesGrow
<1>7. alerts[produced[k]].metrics_id \in 1..Len(metrics)
  <2>1. alerts[produced[k]].metrics_id \in DOMAIN metrics
    BY <1>5 DEF AlertCitesItsMetric
  <2>2. metrics \in Seq(MetricRow)
    BY DEF TypeOK
  <2>3. DOMAIN metrics = 1..Len(metrics)
    BY <2>2, LenProperties
  <2> QED  BY <2>1, <2>3, Zenon
<1>8. PICK n \in Nat, id \in Nat :
         /\ n = Len(metrics) /\ id = alerts[produced[k]].metrics_id /\ id <= n
  BY <1>7 DEF TypeOK
<1>9. m \in Nat
  <2>1. metrics' = metrics \/ \E x : metrics' = Append(metrics, x)
    BY DEF Next, Handle, Consume, ConsumeWarmup, ConsumeScored, PollEvent, InsertMetric,
           InsertAlert, PublishAlert, EarlyWarning, HandlerFails, CommitOffsets, Rejoin,
           Crash, table_vars, vars
  <2>2. metrics \in Seq(MetricRow)
    BY DEF TypeOK
  <2>3. DOMAIN metrics = 1..Len(metrics) /\ Len(metrics) \in Nat
    BY <2>2, LenProperties
  <2>4. CASE metrics' = metrics
    BY <2>3, <2>4
  <2>5. ASSUME NEW x, metrics' = Append(metrics, x) PROVE m \in Nat
    <3>1. DOMAIN metrics' = 1..(Len(metrics) + 1)
      BY <2>2, <2>3, <2>5
    <3> QED  BY <2>3, <3>1
  <2> QED  BY <2>1, <2>4, <2>5
<1>10. id = m \/ id < m
  BY <1>8, <1>9
<1>11. ts - at < CooldownSeconds
  BY <1>1 DEF CooldownActive
<1> QED  BY <1>3, <1>4, <1>6, <1>8, <1>10, <1>11 DEF Covered

(* The row of the event at hand is covered by the alert published for it.  *)
LEMMA PublishCovers ==
    ASSUME HandlingInv, PublishAlert
    PROVE  \E m, early : /\ m = job.metrics_id
                         /\ early = job.is_early_warning
                         /\ Covered(m, early)'
<1> USE DEF HandlingInv
<1>1. PICK k \in DOMAIN produced' :
         LET alert == alerts'[produced'[k]]
         IN  /\ alert.host = job.host
             /\ alert.is_early_warning = job.is_early_warning
             /\ alert.life = life
             /\ alert.metrics_id = job.metrics_id
  BY PublishTells
<1>2. /\ metrics[job.metrics_id].host = job.host
      /\ metrics[job.metrics_id].life = life
      /\ metrics' = metrics
  BY DEF PublishAlert, JobHasRow
<1>3. PICK m, early : m = job.metrics_id /\ early = job.is_early_warning
  OBVIOUS
<1>4. Covered(m, early)'
  BY <1>1, <1>2, <1>3 DEF Covered
<1> QED  BY <1>3, <1>4
(* What RowsAreTold says of one row and one kind.                          *)
ToldOf(m, early) ==
    (IF early THEN metrics[m].predicted ELSE metrics[m].is_anomaly) =>
        Covered(m, early) \/ InHand(m, early)

LEMMA RowsAreToldIs ==
    RowsAreTold <=> \A m \in DOMAIN metrics, early \in BOOLEAN : ToldOf(m, early)
<1> USE DEF ToldOf
<1>1. ASSUME RowsAreTold, NEW m \in DOMAIN metrics, NEW early \in BOOLEAN
      PROVE  ToldOf(m, early)
  BY <1>1 DEF RowsAreTold
<1>2. ASSUME \A m \in DOMAIN metrics, early \in BOOLEAN : ToldOf(m, early)
      PROVE  RowsAreTold
  <2> SUFFICES ASSUME NEW m \in DOMAIN metrics
               PROVE  /\ metrics[m].is_anomaly => Covered(m, FALSE) \/ InHand(m, FALSE)
                      /\ metrics[m].predicted => Covered(m, TRUE) \/ InHand(m, TRUE)
    BY DEF RowsAreTold
  <2>1. ToldOf(m, FALSE) /\ ToldOf(m, TRUE)
    BY <1>2
  <2> QED  BY <2>1
<1> QED  BY <1>1, <1>2

(* A step that writes no row and lets nothing out of hand.                 *)
LEMMA QuietRows ==
    ASSUME HandlingInv, RowsAreTold, [Next]_vars, metrics' = metrics,
           \A m \in DOMAIN metrics, early \in BOOLEAN :
              InHand(m, early) /\ ToldOf(m, early) /\
              (IF early THEN metrics[m].predicted ELSE metrics[m].is_anomaly)
                => InHand(m, early)' \/ Covered(m, early)'
    PROVE  \A m \in DOMAIN metrics', early \in BOOLEAN : ToldOf(m, early)'
<1> SUFFICES ASSUME NEW m \in DOMAIN metrics, NEW early \in BOOLEAN
             PROVE  ToldOf(m, early)'
  OBVIOUS
<1> DEFINE flagged == IF early THEN metrics[m].predicted ELSE metrics[m].is_anomaly
<1>1. flagged' = flagged
  OBVIOUS
<1>2. ToldOf(m, early)
  BY RowsAreToldIs
<1>3. Covered(m, early) => Covered(m, early)'
  BY CoveredKept DEF HandlingInv
<1>4. InHand(m, early) /\ flagged => InHand(m, early)' \/ Covered(m, early)'
  BY <1>2
<1> HIDE DEF flagged
<1>5. flagged => Covered(m, early) \/ InHand(m, early)
  BY <1>2 DEF ToldOf, flagged
<1>6. flagged' => Covered(m, early)' \/ InHand(m, early)'
  BY <1>1, <1>3, <1>4, <1>5
<1> QED  BY <1>6 DEF ToldOf, flagged

(* The row being written is held back by a clock, in hand, or of no         *)
(* interest; the older ones are not in hand.                               *)
LEMMA WrittenRowIsTold ==
    ASSUME HandlingInv, ClocksArePublished, RowsAreTold, InsertMetric, NoMishap'
    PROVE  \A m \in DOMAIN metrics', early \in BOOLEAN : ToldOf(m, early)'
<1> USE DEF HandlingInv
<1>1. [Next]_vars
  BY DEF Next, Handle
<1>2. NoMishap /\ ~Raise /\ life' = life
  BY <1>1, MishapStep DEF NoMishap
<1>3. /\ pc = "insert_metric" /\ job \in Job /\ job.host \in Hosts /\ job.ts \in Nat
      /\ job.is_early_warning = FALSE
      /\ job.is_anomaly \/ job.predicted => job.scored
  BY DEF InsertMetric, TypeOK, JobIsJudged, Job
<1>4. job.scored => /\ pc' = IF job.should_publish_alert THEN "insert_alert"
                                                         ELSE "early_warning"
                    /\ job' = [job EXCEPT !.metrics_id = Len(metrics) + 1]
  BY <1>2 DEF InsertMetric, Return
<1>5. ASSUME NEW m \in DOMAIN metrics, NEW early \in BOOLEAN
      PROVE  ToldOf(m, early)'
  <2>1. ToldOf(m, early) /\ ~InHand(m, early)
    BY <1>3, RowsAreToldIs DEF InHand
  <2>2. Covered(m, early) => Covered(m, early)'
    BY <1>1, CoveredKept
  <2>3. metrics'[m] = metrics[m]
    BY InsertMetricEffect
  <2> QED  BY <2>1, <2>2, <2>3 DEF ToldOf
<1>6. ASSUME NEW m, m = Len(metrics) + 1, NEW early \in BOOLEAN
      PROVE  ToldOf(m, early)'
  <2>1. /\ m \in DOMAIN metrics'
        /\ m >= Len(metrics)
        /\ metrics'[m].host = job.host
        /\ metrics'[m].life = life
        /\ metrics'[m].ts = job.ts
        /\ metrics'[m].is_anomaly = job.is_anomaly
        /\ metrics'[m].predicted = job.predicted
    BY <1>6, InsertMetricEffect
  <2>2. CASE ~early /\ job.is_anomaly /\ ~job.should_publish_alert
    <3>1. PICK h \in Hosts, ts \in Nat : h = job.host /\ ts = job.ts
      BY <1>3
    <3>2. CooldownActive(Clock(h, FALSE), ts)
      BY <1>3, <2>2, <3>1 DEF HeldBack
    <3>3. ~InFlight(h, FALSE)
      BY <1>3, <2>2 DEF InFlight, Arming
    <3>4. Covered(m, FALSE)'
      BY <1>1, <1>2, <2>1, <3>1, <3>2, <3>3, CooldownCovers
    <3>5. early = FALSE
      BY <2>2
    <3> QED  BY <3>4, <3>5 DEF ToldOf
  <2>3. CASE (early /\ job.predicted) \/ (~early /\ job.is_anomaly /\ job.should_publish_alert)
    <3>1. job.scored
      BY <1>3, <2>3
    <3>2. job'.metrics_id = m /\ job'.is_early_warning = FALSE
      BY <1>3, <1>4, <1>6, <3>1, InsertMetricEffect DEF Job
    <3>3. InHand(m, early)'
      BY <1>4, <2>3, <3>1, <3>2 DEF InHand
    <3> QED  BY <3>3 DEF ToldOf
  <2>4. CASE ~(IF early THEN job.predicted ELSE job.is_anomaly)
    BY <2>1, <2>4 DEF ToldOf
  <2> QED  BY <2>2, <2>3, <2>4
<1>7. \A m \in DOMAIN metrics' : m \in DOMAIN metrics \/ m = Len(metrics) + 1
  BY InsertMetricEffect
<1> QED  BY <1>5, <1>6, <1>7, Zenon

(* What the handler has in hand it keeps, publishes or holds back.         *)
LEMMA RowsToldStep ==
    ASSUME HandlingInv, ClocksArePublished, RowsAreTold, [Next]_vars, NoMishap'
    PROVE  RowsAreTold'
<1> USE DEF HandlingInv
<1>1. NoMishap /\ ~Raise /\ ~HandlerFails /\ ~Crash /\ life' = life
  BY MishapStep DEF NoMishap
<1>2. SUFFICES \A m \in DOMAIN metrics', early \in BOOLEAN : ToldOf(m, early)'
  <2>1. ASSUME \A m \in DOMAIN metrics', early \in BOOLEAN : ToldOf(m, early)'
        PROVE  RowsAreTold'
    <3> SUFFICES ASSUME NEW m \in DOMAIN metrics'
                 PROVE  /\ metrics'[m].is_anomaly => Covered(m, FALSE)' \/ InHand(m, FALSE)'
                        /\ metrics'[m].predicted => Covered(m, TRUE)' \/ InHand(m, TRUE)'
      BY DEF RowsAreTold
    <3>1. ToldOf(m, FALSE)' /\ ToldOf(m, TRUE)'
      BY <2>1
    <3> QED  BY <3>1 DEF ToldOf
  <2> QED  BY <2>1
<1>3. CASE InsertMetric
  BY <1>3, WrittenRowIsTold
<1>4. CASE Consume \/ Rejoin
  <2>1. pc = "poll" /\ metrics' = metrics
    BY <1>4 DEF Consume, ConsumeWarmup, ConsumeScored, PollEvent, Rejoin, table_vars
  <2>2. \A m \in DOMAIN metrics, early \in BOOLEAN : ~InHand(m, early)
    BY <2>1 DEF InHand
  <2> QED  BY <2>1, <2>2, QuietRows
<1>5. CASE InsertAlert
  <2>1. /\ metrics' = metrics /\ job' = job
        /\ pc = "insert_alert" /\ pc' = "publish_alert"
    BY <1>1, <1>5 DEF InsertAlert
  <2>2. \A m \in DOMAIN metrics, early \in BOOLEAN : InHand(m, early) => InHand(m, early)'
    BY <2>1 DEF InHand
  <2> QED  BY <2>1, <2>2, QuietRows
<1>6. CASE PublishAlert
  <2>1. /\ metrics' = metrics
        /\ pc = "publish_alert" /\ job \in Job
        /\ job.is_early_warning = FALSE => pc' = "early_warning" /\ job' = job
    BY <1>6 DEF PublishAlert, TypeOK, Job
  <2>2. PICK n, kind : /\ n = job.metrics_id
                       /\ kind = job.is_early_warning
                       /\ Covered(n, kind)'
    BY <1>6, PublishCovers
  <2>3. ASSUME NEW m \in DOMAIN metrics, NEW early \in BOOLEAN, InHand(m, early),
               IF early THEN metrics[m].predicted ELSE metrics[m].is_anomaly
        PROVE  InHand(m, early)' \/ Covered(m, early)'
    <3>1. m = n /\ (early = kind \/ (early /\ job.is_early_warning = FALSE))
      BY <2>1, <2>2, <2>3 DEF InHand, Job
    <3>2. CASE early = kind
      BY <2>2, <3>1, <3>2
    <3>3. CASE early /\ job.is_early_warning = FALSE
      BY <2>1, <2>2, <3>1, <3>3 DEF InHand
    <3> QED  BY <3>1, <3>2, <3>3
  <2> QED  BY <2>1, <2>3, QuietRows
<1>7. CASE EarlyWarning
  <2>1. /\ metrics' = metrics
        /\ pc = "early_warning" /\ job \in Job
        /\ job.host \in Hosts /\ job.ts \in Nat
    BY <1>7 DEF EarlyWarning, TypeOK, Job, table_vars
  <2>2. CASE EarlyWarningDue(states[job.host])
    <3>1. job' = [job EXCEPT !.is_early_warning = TRUE] /\ pc' = "insert_alert"
      BY <1>7, <2>2 DEF EarlyWarning
    <3>2. job'.metrics_id = job.metrics_id
      BY <2>1, <3>1 DEF Job
    <3>3. \A m \in DOMAIN metrics, early \in BOOLEAN : InHand(m, early) => InHand(m, early)'
      BY <2>1, <3>1, <3>2 DEF InHand
    <3> QED  BY <2>1, <3>3, QuietRows
  <2>3. CASE ~EarlyWarningDue(states[job.host])
    <3>1. ASSUME NEW m \in DOMAIN metrics, NEW early \in BOOLEAN, InHand(m, early),
                 IF early THEN metrics[m].predicted ELSE metrics[m].is_anomaly
          PROVE  Covered(m, early)'
      <4>1. m = job.metrics_id /\ early = TRUE
        BY <2>1, <3>1 DEF InHand
      <4>2. PICK h \in Hosts, ts \in Nat : h = job.host /\ ts = job.ts
        BY <2>1
      <4>3. /\ metrics[m].host = h
            /\ metrics[m].life = life
            /\ metrics[m].ts = ts
            /\ m = Len(metrics)
            /\ job.predicted
        BY <2>1, <3>1, <4>1, <4>2 DEF JobHasRow
      <4>4. CooldownActive(Clock(h, TRUE), ts)
        BY <2>3, <4>2, <4>3 DEF EarlyWarningDue, Clock
      <4>5. ~InFlight(h, TRUE)
        BY <2>1 DEF InFlight, Arming
      <4>6. m \in DOMAIN metrics' /\ metrics'[m] = metrics[m] /\ m >= Len(metrics)
        BY <2>1, <4>3 DEF TypeOK
      <4>7. Covered(m, TRUE)'
        BY <1>1, <4>2, <4>3, <4>4, <4>5, <4>6, CooldownCovers
      <4> QED  BY <4>1, <4>7
    <3> QED  BY <2>1, <3>1, QuietRows
  <2> QED  BY <2>2, <2>3
<1>8. CASE CommitOffsets \/ UNCHANGED vars
  <2>1. UNCHANGED <<metrics, pc, job>>
    BY <1>8 DEF CommitOffsets, table_vars, vars
  <2>2. \A m \in DOMAIN metrics, early \in BOOLEAN : InHand(m, early) => InHand(m, early)'
    BY <2>1 DEF InHand
  <2> QED  BY <2>1, <2>2, QuietRows
<1> QED  BY <1>1, <1>3, <1>4, <1>5, <1>6, <1>7, <1>8 DEF Next, Handle

(* Messages, the alert at hand and the clock that held one back, always.   *)
LEMMA HandlingHolds == Spec => []HandlingInv
<1>1. Init => ProducedAreRows /\ NewestIsJobs /\ HeldBack
  BY DEF Init, ProducedAreRows, NewestIsJobs, HeldBack
<1>2. TypeOK /\ ClocksCoverAlerts /\ (ModelsAreFitted /\ JobIsJudged /\ JobHasRow)
        /\ (ProducedAreRows /\ NewestIsJobs /\ HeldBack) /\ [Next]_vars
        => (ProducedAreRows /\ NewestIsJobs /\ HeldBack)'
  BY ProducedStep, NewestStep, HeldBackStep, Zenon
<1>3. TypeOK /\ ClocksCoverAlerts /\ (ModelsAreFitted /\ JobIsJudged /\ JobHasRow)
        /\ AlertCitesItsMetric /\ (ProducedAreRows /\ NewestIsJobs /\ HeldBack)
        => HandlingInv
  BY DEF HandlingInv
<1> QED  BY <1>1, <1>2, <1>3, TypeCorrect, ClocksCover, HandlingCorrect,
            AlertsCiteTheirMetrics, PTL DEF Spec

(* As long as no call has raised and the process has not been restarted,   *)
(* whenever handle() has returned, every anomaly and every prediction it   *)
(* has written to `metrics' is published or within the cooldown of one that*)
(* is (dynamic_threshold.py:13-17, main.py:60-119).                        *)
THEOREM FlagsAreTold == Spec => [](NoMishap => PublishedOrCoolingDown)
<1> DEFINE Told == NoMishap => ClocksArePublished /\ RowsAreTold
<1>1. Init => Told
  <2>1. Init => ClocksArePublished
    BY DEF Init, ClocksArePublished, Clock, FreshState
  <2>2. Init => RowsAreTold
    BY DEF Init, RowsAreTold
  <2> QED  BY <2>1, <2>2
<1>2. HandlingInv /\ Told /\ [Next]_vars => Told'
  <2> SUFFICES ASSUME HandlingInv, Told, [Next]_vars, NoMishap'
               PROVE  ClocksArePublished' /\ RowsAreTold'
    OBVIOUS
  <2>1. ClocksArePublished /\ RowsAreTold
    BY MishapStep DEF HandlingInv
  <2> QED  BY <2>1, ClocksPublishedStep, RowsToldStep
<1>3. Told => (NoMishap => PublishedOrCoolingDown)
  <2> SUFFICES ASSUME RowsAreTold PROVE PublishedOrCoolingDown
    OBVIOUS
  <2>1. ASSUME pc = "poll", NEW m \in DOMAIN metrics
        PROVE  /\ metrics[m].is_anomaly => Covered(m, FALSE)
               /\ metrics[m].predicted => Covered(m, TRUE)
    BY <2>1 DEF RowsAreTold, InHand
  <2> QED  BY <2>1 DEF PublishedOrCoolingDown, AnomalyPublishedOrCoolingDown,
                       PredictionPublishedOrCoolingDown
<1> HIDE DEF Told
<1> QED  BY <1>1, <1>2, <1>3, HandlingHolds, PTL DEF Spec
=============================================================================
