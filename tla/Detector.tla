------------------------------ MODULE Detector ------------------------------
(***************************************************************************)
(* The detector service (services/detector/app): one process that polls    *)
(* `telemetry.raw', keeps a HostModelState per host in memory, writes a    *)
(* `metrics' row for every event and, when warranted, an `alerts' row and a*)
(* message for `alerts.triggered'.                                         *)
(*                                                                         *)
(* One pass of main.py's handle() is split at the calls that can fail or   *)
(* be separated by a crash: consumer.poll with all the in-memory work that *)
(* follows it, the INSERT into metrics, the INSERT into alerts, the        *)
(* produce() call, and the early-warning decision.  Around it: the         *)
(* consumer's background offset commit, exceptions swallowed by the consume*)
(* loop, a session with the group that is lost and joined again, and a     *)
(* crash of the process followed by its restart.                           *)
(*                                                                         *)
(* An event is named by its partition and offset; metric values and        *)
(* feature vectors are left out, so the IsolationForest's score is any     *)
(* member of Scores.                                                       *)
(***************************************************************************)
EXTENDS DynamicThreshold, TrendForecast

CONSTANTS
    Hosts,            \* host_id values
    Partitions,       \* partitions of telemetry.raw
    PartitionOf,      \* the partition a host's key hashes to
    TelemetryLogs,    \* the possible contents of telemetry.raw
    Scores,           \* what -model.score_samples may return
    WarmupEvents,     \* det_warmup_events
    RollingWindow,    \* det_rolling_window
    RetrainInterval,  \* det_retrain_interval_events
    TrainWindowSize,  \* det_train_window_size
    MinTrainWindow,   \* the literal 50 of model_store.py
    HistorySize,      \* det_score_history_size
    TrendWindowSize,  \* det_trend_window_size
    NoJob,            \* handle() is not running
    MaxLag,           \* bound: events polled but not yet committed
    MaxLives,         \* bound: incarnations of the process
    MaxRejoins,       \* bound: times the consumer loses and regains its partitions
    MaxFaults         \* bound: exceptions out of the handler

ASSUME PartitionAssumption == PartitionOf \in [Hosts -> Partitions]
ASSUME ScoresAssumption    == Scores \subseteq Nat
ASSUME SizesAssumption     ==
    /\ WarmupEvents \in Nat \ {0}
    /\ RetrainInterval \in Nat \ {0}
    /\ RollingWindow \in Nat \ {0}
    /\ TrainWindowSize \in Nat
    /\ MinTrainWindow \in Nat
    /\ HistorySize \in Nat \ {0}
    /\ TrendWindowSize \in Nat \ {0}
ASSUME BoundsAssumption ==
    /\ MaxLag \in Nat \ {0}
    /\ MaxLives \in Nat \ {0}
    /\ MaxRejoins \in Nat
    /\ MaxFaults \in Nat

Event == [host : Hosts, ts : Nat]

(* Every event lies in the partition of its key, the host.                 *)
ASSUME TelemetryAssumption ==
    /\ TelemetryLogs \subseteq [Partitions -> Seq(Event)]
    /\ \A log \in TelemetryLogs : \A p \in Partitions : \A o \in DOMAIN log[p] :
          PartitionOf[log[p][o].host] = p

VARIABLES
    telemetry,  \* the log of telemetry.raw, per partition
    position,   \* offset of the last event poll() returned, per partition
    committed,  \* the group's committed offset, per partition
    states,     \* HostStateRegistry._states
    pc,         \* the next call handle() makes
    job,        \* the locals of handle()
    metrics,    \* table metrics, in the order of its ids
    alerts,     \* table alerts, in insertion order
    produced,   \* alerts handed to the producer, as positions in `alerts'
    resumed,    \* position at which this life of the process began
    life,       \* the incarnation of the process
    rejoins,    \* sessions with the consumer group lost so far
    faults      \* exceptions raised so far

vars == <<telemetry, position, committed, states, pc, job, metrics, alerts,
          produced, resumed, life, rejoins, faults>>

log_vars   == <<telemetry, resumed, life, rejoins>>
table_vars == <<metrics, alerts, produced>>

(* Faulty: the deque holds one element too many.                           *)
PushOneTooMany(deque, x, limit) ==
    IF Len(deque) > limit THEN Tail(Append(deque, x)) ELSE Append(deque, x)

(* deque(maxlen = limit).append(x) *)
Push(deque, x, limit) ==
    IF Len(deque) >= limit THEN Tail(Append(deque, x)) ELSE Append(deque, x)

(* A HostModelState as HostStateRegistry.get creates it.  Buffers of       *)
(* feature vectors are kept as their lengths, metric snapshots as offsets. *)
FreshState ==
    [raw_buffer |-> <<>>, last_raw |-> 0, is_warmed_up |-> FALSE,
     warmup_features |-> 0, train_window |-> 0, events_since_fit |-> 0,
     model_version |-> 0, score_history |-> <<>>, trend_window |-> <<>>,
     last_alert_time |-> NoTime, last_early_warning_time |-> NoTime]

HostModelState ==
    [raw_buffer : Seq(Nat), last_raw : Nat, is_warmed_up : BOOLEAN,
     warmup_features : Nat, train_window : Nat, events_since_fit : Nat,
     model_version : Nat, score_history : Seq(Nat),
     trend_window : Seq([ts : Nat, score : Nat]),
     last_alert_time : Nat \cup {NoTime},
     last_early_warning_time : Nat \cup {NoTime}]

Severities == {"none", "warning", "critical"}

Job ==
    [host : Hosts, partition : Partitions, offset : Nat, ts : Nat,
     scored : BOOLEAN, is_anomaly : BOOLEAN, severity : Severities,
     should_publish_alert : BOOLEAN, predicted : BOOLEAN,
     is_early_warning : BOOLEAN, metrics_id : Nat]

ASSUME NoJobAssumption == NoJob \notin Job

MetricRow ==
    [host : Hosts, partition : Partitions, offset : Nat, ts : Nat,
     is_anomaly : BOOLEAN, severity : Severities, predicted : BOOLEAN,
     model_version : Nat, life : Nat]

AlertRow ==
    [host : Hosts, partition : Partitions, offset : Nat, triggered_at : Nat,
     severity : Severities, metrics_id : Nat, is_early_warning : BOOLEAN,
     recent_metrics : Seq(Nat), life : Nat]

TypeOK ==
    /\ telemetry \in TelemetryLogs
    /\ position \in [Partitions -> Nat]
    /\ committed \in [Partitions -> Nat]
    /\ resumed \in [Partitions -> Nat]
    /\ states \in [Hosts -> HostModelState]
    /\ pc \in {"poll", "insert_metric", "insert_alert", "publish_alert", "early_warning"}
    /\ IF pc = "poll" THEN job = NoJob ELSE job \in Job
    /\ metrics \in Seq(MetricRow)
    /\ alerts \in Seq(AlertRow)
    /\ produced \in Seq(Nat)
    /\ life \in 1..MaxLives
    /\ rejoins \in 0..MaxRejoins
    /\ faults \in 0..MaxFaults

Init ==
    /\ telemetry \in TelemetryLogs
    /\ position = [p \in Partitions |-> 0]
    /\ committed = [p \in Partitions |-> 0]
    /\ resumed = [p \in Partitions |-> 0]
    /\ states = [h \in Hosts |-> FreshState]
    /\ pc = "poll"
    /\ job = NoJob
    /\ metrics = <<>>
    /\ alerts = <<>>
    /\ produced = <<>>
    /\ life = 1
    /\ rejoins = 0
    /\ faults = 0
-----------------------------------------------------------------------------
(* The in-memory work on one event                                         *)

(* compute_feature_vector: only its side effects on the state.             *)
ComputeFeatureVector(state, offset) ==
    [state EXCEPT !.raw_buffer = Push(@, offset, RollingWindow),
                  !.last_raw = offset]

(* Faulty: the first vector is enough for a model.                         *)
WarmupDoneAtOnce(state) == TRUE

WarmupDone(state) == state.events_since_fit + 1 >= WarmupEvents

(* ingest_and_score, no model yet: fit once WarmupEvents vectors are in.   *)
WarmUp(state) ==
    IF WarmupDone(state)
    THEN [state EXCEPT !.model_version = @ + 1,
                       !.train_window = Min({state.warmup_features + 1, TrainWindowSize}),
                       !.is_warmed_up = TRUE,
                       !.warmup_features = 0,
                       !.events_since_fit = 0]
    ELSE [state EXCEPT !.warmup_features = @ + 1,
                       !.events_since_fit = @ + 1]

(* Faulty: the refit comes one event late.                                 *)
RefitDueLate(state, window) ==
    state.events_since_fit >= RetrainInterval /\ window >= MinTrainWindow

(* The interval has passed, and the window it slid to is large enough.     *)
RefitDue(state, window) ==
    state.events_since_fit + 1 >= RetrainInterval /\ window >= MinTrainWindow

(* ingest_and_score with a model: slide the window, refit when it is time. *)
Train(state) ==
    LET window == Min({state.train_window + 1, TrainWindowSize})
        refit  == RefitDue(state, window)
    IN  [state EXCEPT !.train_window = window,
                      !.events_since_fit = IF refit THEN 0 ELSE @ + 1,
                      !.model_version = IF refit THEN @ + 1 ELSE @]

(* dynamic_threshold.evaluate and trend_forecast.evaluate: what they append*)
RecordScore(state, raw_score, now) ==
    [state EXCEPT !.score_history = Push(@, raw_score, HistorySize),
                  !.trend_window = Push(@, [ts |-> now, score |-> raw_score], TrendWindowSize)]

(* Faulty: the cooldown is not consulted.                                  *)
ShouldPublishEveryAnomaly(state, now) == IsAnomaly(state.score_history)

ShouldPublishAlert(state, now) ==
    /\ IsAnomaly(state.score_history)
    /\ ~CooldownActive(state.last_alert_time, now)

(* Faulty: an anomaly that is turned down arms the clock as well.          *)
AlertArmedByAnomaly(state, publish, now) ==
    IF IsAnomaly(state.score_history) THEN [state EXCEPT !.last_alert_time = now] ELSE state

AlertArmed(state, publish, now) ==
    IF publish THEN [state EXCEPT !.last_alert_time = now] ELSE state

Severity(history) ==
    IF ~IsAnomaly(history) THEN "none"
    ELSE IF IsCritical(history) THEN "critical" ELSE "warning"

(* Faulty: anomalies are forecast too.                                     *)
PredictedEvenIfAnomaly(state) ==
    /\ HasThreshold(state.score_history)
    /\ PredictsBreach(state.trend_window, ScaledThreshold(state.score_history))

Predicted(state) ==
    /\ HasThreshold(state.score_history)
    /\ ~IsAnomaly(state.score_history)
    /\ PredictsBreach(state.trend_window, ScaledThreshold(state.score_history))
-----------------------------------------------------------------------------
(* consumer.poll returns the next event of partition p, whose offset the   *)
(* client stores for the next commit before the handler has run.           *)
PollEvent(p) ==
    /\ pc = "poll"
    /\ position[p] < Len(telemetry[p])
    /\ position[p] - committed[p] < MaxLag
    /\ position' = [position EXCEPT ![p] = @ + 1]
    /\ pc' = "insert_metric"
    /\ UNCHANGED <<committed, log_vars, table_vars, faults>>

JobFor(p, scored, is_anomaly, severity, publish, predicted) ==
    LET event == telemetry[p][position[p] + 1]
    IN  [host |-> event.host, partition |-> p, offset |-> position[p] + 1,
         ts |-> event.ts, scored |-> scored, is_anomaly |-> is_anomaly,
         severity |-> severity, should_publish_alert |-> publish,
         predicted |-> predicted, is_early_warning |-> FALSE, metrics_id |-> 0]

(* An event of a host whose model is not fitted yet: raw_score is None.    *)
ConsumeWarmup(p) ==
    /\ PollEvent(p)
    /\ LET event == telemetry[p][position[p] + 1]
           state == ComputeFeatureVector(states[event.host], position[p] + 1)
       IN  /\ ~state.is_warmed_up
           /\ states' = [states EXCEPT ![event.host] = WarmUp(state)]
           /\ job' = JobFor(p, FALSE, FALSE, "none", FALSE, FALSE)

(* An event that is scored.  The reactive cooldown is armed here, before   *)
(* anything is written.                                                    *)
ConsumeScored(p) ==
    /\ PollEvent(p)
    /\ \E raw_score \in Scores :
         LET event   == telemetry[p][position[p] + 1]
             state   == ComputeFeatureVector(states[event.host], position[p] + 1)
             scored  == RecordScore(Train(state), raw_score, event.ts)
             publish == ShouldPublishAlert(scored, event.ts)
         IN  /\ state.is_warmed_up
             /\ states' = [states EXCEPT ![event.host] = AlertArmed(scored, publish, event.ts)]
             /\ job' = JobFor(p, TRUE, IsAnomaly(scored.score_history),
                              Severity(scored.score_history), publish, Predicted(scored))

(* Faulty: the locals of one event are still there for the next.           *)
ReturnWithLocals == pc' = "poll" /\ UNCHANGED job

(* handle() is done with the event: back in consume_json_forever.          *)
Return == pc' = "poll" /\ job' = NoJob

(* A call of the handler raised: consume_json_forever logs it and polls on.*)
Raise ==
    /\ faults < MaxFaults
    /\ faults' = faults + 1
    /\ Return

(* db_writer.insert_metric_row.  If the connection fails during the commit *)
(* the row may be there although the call raises.                          *)
InsertMetric ==
    /\ pc = "insert_metric"
    /\ metrics' = Append(metrics,
         [host |-> job.host, partition |-> job.partition, offset |-> job.offset,
          ts |-> job.ts, is_anomaly |-> job.is_anomaly, severity |-> job.severity,
          predicted |-> job.predicted,
          model_version |-> IF job.scored THEN states[job.host].model_version ELSE 0,
          life |-> life])
    /\ \/ ~job.scored /\ Return /\ UNCHANGED faults
       \/ /\ job.scored
          /\ pc' = IF job.should_publish_alert THEN "insert_alert" ELSE "early_warning"
          /\ job' = [job EXCEPT !.metrics_id = Len(metrics) + 1]
          /\ UNCHANGED faults
       \/ Raise
    /\ UNCHANGED <<position, committed, states, alerts, produced, log_vars>>

(* db_writer.insert_alert_row, for the reactive alert or the early warning.*)
InsertAlert ==
    /\ pc = "insert_alert"
    /\ alerts' = Append(alerts,
         [host |-> job.host, partition |-> job.partition, offset |-> job.offset,
          triggered_at |-> job.ts,
          severity |-> IF job.is_early_warning THEN "warning" ELSE job.severity,
          metrics_id |-> job.metrics_id, is_early_warning |-> job.is_early_warning,
          recent_metrics |-> states[job.host].raw_buffer, life |-> life])
    /\ \/ pc' = "publish_alert" /\ UNCHANGED <<job, faults>>
       \/ Raise
    /\ UNCHANGED <<position, committed, states, metrics, produced, log_vars>>

(* Faulty: the metrics row is named in place of the alerts row.            *)
AlertToPublishByMetric == job.metrics_id

(* The id insert_alert_row returned: the newest row is that of this alert. *)
AlertToPublish == Len(alerts)

(* db_writer.publish_alert: produce() queues the message in the client.    *)
(* A raise after that changes no more than a raise before the next call.   *)
PublishAlert ==
    /\ pc = "publish_alert"
    /\ produced' = Append(produced, AlertToPublish)
    /\ \/ job.is_early_warning /\ Return
       \/ ~job.is_early_warning /\ pc' = "early_warning" /\ UNCHANGED job
    /\ UNCHANGED <<position, committed, states, metrics, alerts, log_vars, faults>>

(* Faulty: the reactive clock is consulted.                                *)
EarlyWarningDueOnReactiveClock(state) ==
    job.predicted /\ ~CooldownActive(state.last_alert_time, job.ts)

EarlyWarningDue(state) ==
    job.predicted /\ ~CooldownActive(state.last_early_warning_time, job.ts)

(* Faulty: the clock is never armed.                                       *)
EarlyWarningNotArmed(state) == state

EarlyWarningArmed(state) == [state EXCEPT !.last_early_warning_time = job.ts]

(* The second cooldown of handle(), with a clock of its own, armed before  *)
(* the row is inserted.                                                    *)
EarlyWarning ==
    /\ pc = "early_warning"
    /\ IF EarlyWarningDue(states[job.host])
       THEN /\ states' = [states EXCEPT ![job.host] = EarlyWarningArmed(@)]
            /\ job' = [job EXCEPT !.is_early_warning = TRUE]
            /\ pc' = "insert_alert"
       ELSE Return /\ UNCHANGED states
    /\ UNCHANGED <<position, committed, table_vars, log_vars, faults>>

(* The insert or produce() about to be made raises without any effect:     *)
(* pool timeout, connection refused, BufferError of a full producer queue. *)
HandlerFails ==
    /\ pc \in {"insert_metric", "insert_alert", "publish_alert"}
    /\ Raise
    /\ UNCHANGED <<position, committed, states, table_vars, log_vars>>

(* Faulty: the offset of the last event, not of the one after it.          *)
StoredOffsetsBehind ==
    [p \in Partitions |-> IF position[p] = 0 THEN 0 ELSE position[p] - 1]

(* What poll() has stored for the next commit.                             *)
StoredOffsets == position

(* enable.auto.commit: a timer of the client commits the stored offsets, at*)
(* any time, also while the handler is in the middle of an event.          *)
CommitOffsets ==
    /\ committed # StoredOffsets
    /\ committed' = StoredOffsets
    /\ UNCHANGED <<position, states, pc, job, table_vars, log_vars, faults>>

(* Faulty: auto.offset.reset is `latest' and wins.                         *)
ResumeAtEnd == [p \in Partitions |-> Len(telemetry[p])]

(* Where a consumer that joins the group begins: what is committed, or the *)
(* start of the log (auto.offset.reset = earliest).                        *)
ResumeOffsets == committed

(* The process dies and is restarted: the registry is empty again, and the *)
(* consumer resumes from the committed offsets.                            *)
Crash ==
    /\ life < MaxLives
    /\ life' = life + 1
    /\ states' = [h \in Hosts |-> FreshState]
    /\ position' = ResumeOffsets
    /\ resumed' = ResumeOffsets
    /\ Return
    /\ UNCHANGED <<telemetry, committed, table_vars, rejoins, faults>>

(* The handler outlasted max.poll.interval.ms, or the broker was out of    *)
(* reach for the session timeout: at the next poll the consumer joins the  *)
(* group again and resumes from the committed offsets.  Events come a      *)
(* second time to a registry that has seen them.                           *)
Rejoin ==
    /\ pc = "poll"
    /\ rejoins < MaxRejoins
    /\ rejoins' = rejoins + 1
    /\ position' = ResumeOffsets
    /\ UNCHANGED <<telemetry, resumed, life, committed, states, pc, job, table_vars, faults>>

Consume == \E p \in Partitions : ConsumeWarmup(p) \/ ConsumeScored(p)

Handle == InsertMetric \/ InsertAlert \/ PublishAlert \/ EarlyWarning

Next == Consume \/ Handle \/ HandlerFails \/ CommitOffsets \/ Rejoin \/ Crash

Spec == Init /\ [][Next]_vars

(* The loop runs as long as the process does, and the commit timer fires.  *)
(* A restart is `restart: unless-stopped' of docker-compose.yml, part of   *)
(* the Crash step.                                                         *)
FairSpec == Spec /\ WF_vars(Consume \/ Handle) /\ WF_vars(CommitOffsets)
=============================================================================
