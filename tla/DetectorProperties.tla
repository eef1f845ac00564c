------------------------- MODULE DetectorProperties -------------------------
(***************************************************************************)
(* What the detector promises its two readers, the agent and the dashboard.*)
(***************************************************************************)
EXTENDS Detector

SameEvent(a, b) == a.partition = b.partition /\ a.offset = b.offset

SameSource(a, b) ==
    /\ a.host = b.host
    /\ a.life = b.life
    /\ a.is_early_warning = b.is_early_warning

(* Two alerts of one kind for one host, raised by one life of the process, *)
(* are at least the cooldown apart in event time and in the order they were*)
(* raised, whatever the order in which timestamps arrive                   *)
(* (dynamic_threshold.py:66-72, main.py:97-102 and 117).                   *)
AlertSpacing ==
    \A i, j \in DOMAIN alerts :
        i < j /\ SameSource(alerts[i], alerts[j])
            => alerts[j].triggered_at - alerts[i].triggered_at >= CooldownSeconds

(* Across restarts, which forget both clocks and all histories, the same   *)
(* alerts keep their distance, and an event that comes again is not alerted*)
(* again as the other kind: the warm-up and the minimum history of a new   *)
(* life outlast the cooldown when events are one tick apart and the commit *)
(* lag is short (model_store.py:40-55, kafka_utils.py:53).                 *)
AlertSpacingAcrossRestarts ==
    rejoins = 0 =>
        \A i, j \in DOMAIN alerts :
            /\ i < j
            /\ alerts[i].host = alerts[j].host
            /\ \/ alerts[i].is_early_warning = alerts[j].is_early_warning
               \/ SameEvent(alerts[i], alerts[j])
            => alerts[j].triggered_at - alerts[i].triggered_at >= CooldownSeconds

(* README.md:42, `a 60s per-host cooldown after each alert': any two alerts*)
(* for a host are the cooldown apart, early warnings included.             *)
OneAlertPerCooldown ==
    \A i, j \in DOMAIN alerts :
        i < j /\ alerts[i].host = alerts[j].host /\ alerts[i].life = alerts[j].life
            => alerts[j].triggered_at - alerts[i].triggered_at >= CooldownSeconds

(* An alert points at the metrics row of its own event, written by the same*)
(* life; the row tells the same story as the alert, and the snapshots sent *)
(* to the agent end with that event (main.py:62-94, 103-119).              *)
AlertCitesItsMetric ==
    \A i \in DOMAIN alerts :
        LET alert == alerts[i]
        IN  /\ alert.metrics_id \in DOMAIN metrics
            /\ LET row == metrics[alert.metrics_id]
               IN  /\ SameEvent(alert, row)
                   /\ alert.life = row.life
                   /\ alert.triggered_at = row.ts
                   /\ row.is_anomaly = ~alert.is_early_warning
                   /\ row.predicted = alert.is_early_warning
                   /\ row.model_version > 0
            /\ Last(alert.recent_metrics) = alert.offset

(* The cooldown clock of host h for early warnings, or for reactive alerts.*)
Clock(h, early) ==
    IF early THEN states[h].last_early_warning_time ELSE states[h].last_alert_time

(* The handler has armed that clock for an alert it has not inserted yet.  *)
Arming(h, early) ==
    \/ /\ pc = "insert_metric"
       /\ job.host = h
       /\ job.should_publish_alert
       /\ ~early
    \/ /\ pc = "insert_alert"
       /\ job.host = h
       /\ job.is_early_warning = early

(* Alert i lies behind the clock of its host and kind, and behind an alert *)
(* in flight by the cooldown, unless an earlier life raised it.            *)
CoveredByClock(i, h, early) ==
    alerts[i].life = life =>
        /\ Clock(h, early) # NoTime
        /\ alerts[i].triggered_at <= Clock(h, early)
        /\ Arming(h, early) =>
             alerts[i].triggered_at + CooldownSeconds <= Clock(h, early)

(* Why alerts keep their distance: a clock stands at the time of the alert *)
(* in flight, or no earlier than any alert this life has raised; an alert  *)
(* in flight is the cooldown later than those before it.  The strengthening*)
(* of AlertSpacing that every step preserves.                              *)
ClocksCoverAlerts ==
    /\ pc = "insert_metric" => ~job.is_early_warning
    /\ \A h \in Hosts, early \in BOOLEAN :
          Arming(h, early) => Clock(h, early) = job.ts
    /\ \A i \in DOMAIN alerts :
          /\ alerts[i].life <= life
          /\ CoveredByClock(i, alerts[i].host, alerts[i].is_early_warning)

(* Row m of metrics is covered: an alert of the kind was handed to the     *)
(* producer for it, or for an earlier row less than the cooldown before it.*)
Covered(m, early) ==
    \E k \in DOMAIN produced :
        LET alert == alerts[produced[k]]
        IN  /\ alert.host = metrics[m].host
            /\ alert.life = metrics[m].life
            /\ alert.is_early_warning = early
            /\ \/ alert.metrics_id = m
               \/ /\ alert.metrics_id < m
                  /\ metrics[m].ts - alert.triggered_at < CooldownSeconds

(* Once handle() has returned, every anomaly is published or within the    *)
(* cooldown of one that was (dynamic_threshold.py:13-17, `once an alert is *)
(* published for a host, suppress further publications').                  *)
AnomalyPublishedOrCoolingDown ==
    pc = "poll" =>
        \A m \in DOMAIN metrics : metrics[m].is_anomaly => Covered(m, FALSE)

(* The same for predictions and early warnings (main.py:96-119).           *)
PredictionPublishedOrCoolingDown ==
    pc = "poll" =>
        \A m \in DOMAIN metrics : metrics[m].predicted => Covered(m, TRUE)

(* Whatever the dashboard shows as anomalous or predicted has been told, or*)
(* is close to something that has, though the decision, the clock, the rows*)
(* and the message are four steps (main.py:60-119).                        *)
PublishedOrCoolingDown ==
    AnomalyPublishedOrCoolingDown /\ PredictionPublishedOrCoolingDown

(* Alert k was published by this life and is less than the cooldown old at *)
(* the time of the event in the handler.                                   *)
Suppresses(k) ==
    LET alert == alerts[produced[k]]
    IN  /\ alert.host = job.host
        /\ alert.life = life
        /\ ~alert.is_early_warning
        /\ job.ts - alert.triggered_at < CooldownSeconds

(* An anomaly is suppressed only `once an alert is published for a host'   *)
(* (dynamic_threshold.py:13-17): whenever evaluate() turns one down, that  *)
(* alert has been handed to the producer.                                  *)
SuppressedOnlyByPublished ==
    pc = "insert_metric" /\ job.is_anomaly /\ ~job.should_publish_alert
        => \E k \in DOMAIN produced : Suppresses(k)

(* The flags of metrics that nothing published stands for: pairs of a row  *)
(* and the kind of alert it called for.                                    *)
Untold ==
    {flag \in (DOMAIN metrics) \X BOOLEAN :
        LET m == flag[1]
        IN  /\ IF flag[2] THEN metrics[m].predicted ELSE metrics[m].is_anomaly
            /\ ~Covered(m, flag[2])}

(* Flag f lies less than the cooldown before flag g of its host and kind.  *)
SilencedWith(f, g) ==
    LET row   == metrics[f[1]]
        later == metrics[g[1]]
    IN  /\ f[1] <= g[1]
        /\ f[2] = g[2]
        /\ row.host = later.host
        /\ row.life = later.life
        /\ later.ts - row.ts < CooldownSeconds

(* The clocks are armed before anything is written, so an exception or a   *)
(* crash loses more than the warning it hits: those that the clock turns   *)
(* down afterwards are lost as well.  One failure costs one kind of one    *)
(* host one cooldown, and no more: as many flags as there were failures    *)
(* have every untold flag less than the cooldown behind one of them, when  *)
(* timestamps do not go back (dynamic_threshold.py:66-72, main.py:60-119). *)
FailureSilencesOneCooldown ==
    pc = "poll" =>
        \E first \in SUBSET Untold :
            /\ Cardinality(first) <= faults + (life - 1)
            /\ \A g \in Untold : \E f \in first : SilencedWith(f, g)
-----------------------------------------------------------------------------
(* The events poll() has returned to some life and that may not come again.*)
Polled == UNION {{p} \X (1..position[p]) : p \in Partitions}

WrittenEvents == {<<metrics[m].partition, metrics[m].offset>> : m \in DOMAIN metrics}

RowsOf(event) ==
    {m \in DOMAIN metrics : <<metrics[m].partition, metrics[m].offset>> = event}

(* Offsets are committed without regard to the handler (kafka_utils.py:53),*)
(* and a failed event is not tried again (kafka_utils.py:81): each         *)
(* exception and each crash costs at most one event its metrics row, and   *)
(* without them every polled event is written.  What comes again after a   *)
(* crash or a rejoin is written again, once.                               *)
LossBound ==
    /\ Cardinality(Polled \ WrittenEvents)
         <= faults + (life - 1) + (IF pc = "insert_metric" THEN 1 ELSE 0)
    /\ \A event \in WrittenEvents : Cardinality(RowsOf(event)) <= life + rejoins
-----------------------------------------------------------------------------
(* The offsets of host h that this life has polled, and the same in order. *)
SeenOffsets(h) ==
    LET p == PartitionOf[h]
    IN  {o \in (resumed[p] + 1)..position[p] : telemetry[p][o].host = h}

Rank(o, offsets) == Cardinality({q \in offsets : q <= o})

Seen(h) ==
    LET offsets == SeenOffsets(h)
    IN  [k \in 1..Cardinality(offsets) |-> CHOOSE o \in offsets : Rank(o, offsets) = k]

LastN(s, n) == SubSeq(s, Len(s) - Min({n, Len(s)}) + 1, Len(s))

Scored(h) == SubSeq(Seen(h), WarmupEvents + 1, Len(Seen(h)))

(* The buffers of a host hold the newest events of that host since the     *)
(* process started, no other host's and none twice, unless a rejoin has    *)
(* events come again to the same registry: raw metrics from the first event*)
(* on, scores and trend points from the first one scored                   *)
(* (feature_engineering.py:45, dynamic_threshold.py:51, trend_forecast.py: *)
(* 55, host_state.py:50-54).                                               *)
BuffersReplayLog ==
    rejoins = 0 => \A h \in Hosts :
        LET state == states[h]
            log   == telemetry[PartitionOf[h]]
        IN  /\ state.raw_buffer = LastN(Seen(h), RollingWindow)
            /\ Len(state.score_history) = Min({Len(Scored(h)), HistorySize})
            /\ [i \in DOMAIN state.trend_window |-> state.trend_window[i].ts]
                 = [i \in 1..Min({Len(Scored(h)), TrendWindowSize}) |->
                       log[LastN(Scored(h), TrendWindowSize)[i]].ts]
            /\ LET a == LastN(state.score_history, TrendWindowSize)
                   b == LastN(state.trend_window, HistorySize)
               IN  a = [i \in DOMAIN b |-> b[i].score]

(* When the k-th scored event of a life first causes a refit: the interval *)
(* has passed and the window is large enough.                              *)
FirstRefit ==
    Max({RetrainInterval, MinTrainWindow - Min({WarmupEvents, TrainWindowSize})})

(* The model version is a function of how many events this life has seen:  *)
(* 0 during warm-up, then one more at FirstRefit and every RetrainInterval *)
(* after it; never, when the window cannot hold MinTrainWindow vectors     *)
(* (model_store.py:40-65).                                                 *)
ModelVersionSchedule ==
    rejoins = 0 => \A h \in Hosts :
        LET k == Len(Scored(h))
        IN  states[h].model_version =
              IF Len(Seen(h)) < WarmupEvents THEN 0
              ELSE IF MinTrainWindow > TrainWindowSize \/ k < FirstRefit THEN 1
              ELSE 2 + (k - FirstRefit) \div RetrainInterval
-----------------------------------------------------------------------------
(* A life never takes a cooldown clock back: late timestamps cannot reopen *)
(* a cooldown (dynamic_threshold.py:66-72, main.py:97-117).                *)
ClocksAdvance ==
    [][life' = life =>
         \A h \in Hosts :
            /\ states[h].last_alert_time # NoTime =>
                 /\ states'[h].last_alert_time # NoTime
                 /\ states'[h].last_alert_time >= states[h].last_alert_time
            /\ states[h].last_early_warning_time # NoTime =>
                 /\ states'[h].last_early_warning_time # NoTime
                 /\ states'[h].last_early_warning_time >= states[h].last_early_warning_time]_vars

(* The detector catches up with its topic and commits all of it, whatever  *)
(* handlers raise and however often the process is restarted.              *)
CatchesUp ==
    <>[](pc = "poll" /\ \A p \in Partitions : committed[p] = Len(telemetry[p]))
-----------------------------------------------------------------------------
(* The detector implements AlertSource: the reader of alerts and of the    *)
(* topic needs to know no more than that specification.                    *)
Source == INSTANCE AlertSource WITH
    rows    <- [i \in DOMAIN alerts |-> alerts[i].host],
    pending <- IF pc = "publish_alert" THEN Len(alerts) ELSE 0

ImplementsAlertSource == Source!SourceSpec
=============================================================================
