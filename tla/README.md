# Sentinel: TLA+ verification

TLA+ models of the Sentinel monitoring platform (generator, Kafka, detector, agent, PostgreSQL,
Grafana), the TLC configurations that check them, and TLAPS proofs about detector, alert pipeline,
tool loop, generator and start-up. Paths below are relative to the repository root; `detector/`,
`agent/` and `generator/` stand for `services/<name>/app/`.

## 1. The system

```
 generator --telemetry.raw--> detector --alerts.triggered--> agent --> LLM, tools
   (1 event per host            |  INSERT metrics, alerts      |  UPDATE alerts.status
    and tick, key = host)       v                              v  INSERT agent_runs
                            PostgreSQL  <----------------------+        Grafana reads the tables
```

Every service is one Python process with one thread that runs application code, restarted by
docker compose (`restart: unless-stopped`). What runs beside that thread belongs to librdkafka: the
producer's sender and the consumer's offset-commit timer.

| Component | State it keeps | Operations | What makes it correct |
|---|---|---|---|
| Detector loop and handler: `detector/main.py`, `db_writer.py`, `common/kafka_utils.py` | consumer position and committed offset; locals of `handle()`; tables `metrics`, `alerts`; producer queue | poll, score, INSERT metric, INSERT alert, produce, early warning; swallow an exception; commit offsets; crash and restart | an alert cites its own metrics row and is published after its row exists; at most one alert per event; alerts of a host keep the cooldown; nothing is lost except by a failure, and a bounded amount by each |
| Per-host state: `host_state.py`, `feature_engineering.py`, `model_store.py` | four bounded deques, model and its counters, two cooldown clocks | append, fit, refit, arm a clock | deques hold the newest part of that host's log and stay aligned; refits come on schedule; clocks never go back |
| Adaptive threshold: `dynamic_threshold.py` | (host state) | percentile, verdict, severity, cooldown | only the top share of scores are anomalies, though the judged score is part of its history; verdicts depend on the host's own baseline |
| Trend forecast: `trend_forecast.py` | (host state) | smoothing, linear fit, R² gate, horizon | the gate is the residual test; no forecast without a rise; a ramp is forecast exactly within the horizon |
| Alert transport: producers, `alerts.triggered` | producer queue, topic log | deliver, retry (not idempotent), give up after a time-out, lose the queue in a crash | per host order without retries; copies only from retries |
| Agent loop and handler: `agent/main.py`, `db_writer.py` | position, committed offset; `alerts.status`; `agent_runs` | mark investigating, investigate, persist run, finish; swallow, commit, crash | a settled status is that of the newest run; failures leave a bounded number of alerts unfinished; produced alerts get settled |
| Tool loop: `agent/tool_loop.py` | transcript, recorded calls, diagnosis, turn | turn, forced turn, execute call, conclude | every call answered before the next request; last submission wins; turn cap holds; the loop ends |
| LLM clients: `agent/llm_client.py` | none | one completion | the mock's script always ends in a diagnosis |
| Alert context: `agent/alert_context.py` | none | choose the dominant metric | the largest z-score decides, whatever the units |
| Query tool: `agent/tools/query_recent_metrics.py` | none (reads `metrics`) | select the host's newest rows | of an incident that lasts, the rows it finds tell the mock the same story as the alert's rows tell the other tools |
| Agent prompts and other tools | none (read-only or synthetic) | lookups | – |
| Generator loop: `generator/main.py` | tick count, producer queue | tick, inject, produce, flush, sleep | each host's events go to one partition in order; the periodic flush bounds what a crash loses and what the queue holds |
| Injector: `generator/anomaly_injector.py` | per host: active perturbation, cooldown | `maybe_inject` | perturbations are whole, one at a time, and the cooldown apart |
| Signal model: `generator/signal_model.py` | per host: noise terms | tick | numeric, not modelled |
| Start-up: `docker-compose.yml`, `kafka/init/create_topics.py`, `wait_for_broker`, `init_pool`, `seed_hosts`, `build_llm_client` | containers, topics of the broker, table `hosts` | list, create, seed, retry until a deadline, exit, restart | topics and hosts exist before a service needs them; the system comes up once broker and database stay up |
| Schema, dashboard, provisioning | tables | – | the dashboard only reads |

How they interact: messages (two topics, keyed by host, so one partition per host), shared tables
(`alerts` is written by the detector, then updated by the agent; `agent_runs` refers to it), and
at start-up the order in which containers begin, which alone makes topics and `hosts` exist in time.

Hard behaviour, each at its line in `PROJECT.json` under `hazards`: offsets are committed by a timer
regardless of the handler (`kafka_utils.py:53`), so a crash skips the event in flight or replays
finished ones; an exception in a handler is logged and its message never tried again
(`kafka_utils.py:81`); both cooldown clocks are armed before anything is written, so that one
failure silences what follows it too; two kinds of alert have two clocks; timestamps may repeat or
go back; the score that is judged is already part of its own history; smoothing shortens scores and
times together; rows and messages are separate writes, as are status and run; the producer may
duplicate, reorder, give up and lose messages; a model may call anything in any order, several times
in one completion. The mock diagnoses from rows queried when the tool runs, the other tools are made
up for the rows the alert brought along. The group may take partitions away during a long
investigation and have settled alerts investigated again; `produce()` raises when the queue is full;
the topic job makes two requests with one failure each and is never restarted.

## 2. Modules

| Module | Models | Kind |
|---|---|---|
| `DynamicThreshold` | `dynamic_threshold.py` | operators (folds, no recursion), integers only |
| `TrendForecast` | `trend_forecast.py` | operators, integers only |
| `DominantMetric` | the choice in `alert_context.py`, the guess in `llm_client.py`, and the rows each goes by | operators, integers only |
| `AnomalyInjector` | `anomaly_injector.py`, one host | operators on an injector's state |
| `LLMClients` | `llm_client.py`: what either client may answer | operators |
| `KafkaProducer` | `kafka_utils.py`'s producer and the topic behind it | state machine, shared |
| `Telemetry` | the generator process, EXTENDS `AnomalyInjector` and `KafkaProducer` | state machine, composition |
| `Detector` | the detector process, EXTENDS `DynamicThreshold` and `TrendForecast` | state machine |
| `DetectorProperties` | its promises, and the refinement mapping to `AlertSource` | properties |
| `AlertSource` | what the rest of the system may assume of the detector | abstract specification |
| `AlertLifecycle` | what the tables show of an alert | abstract specification |
| `AlertPipeline` | producer, `alerts.triggered` and agent, EXTENDS `AlertSource` and `KafkaProducer` | state machine, composition, implements `AlertLifecycle` |
| `ToolLoop` | `run_investigation`, EXTENDS `LLMClients` | state machine, composition |
| `Startup` | compose, the topic job, `main()` of the three services up to their loops | state machine |
| `MCDetector`, `MCAlgorithms`, `MCAlertPipeline`, `MCTelemetry`, `MCStartup` | instances for TLC | – |
| `DetectorProofs` | types, cooldowns and refinement of `Detector`, what the tables say, and that flagged events are told | proofs |
| `DetectorBuffersProofs` | what the registry remembers of the log, EXTENDS `DetectorProofs` | proofs |
| `AlgorithmsProofs` | what the pure algorithms compute, EXTENDS `MCAlgorithms` | proofs |
| `KafkaProducerProofs` | lemmas about the producer's queue and the topic, for the two that use it | proofs |
| `AlertPipelineProofs`, `TelemetryProofs`, EXTENDING `KafkaProducerProofs` | theorems about these modules | proofs |
| `ToolLoopProofs`, `StartupProofs` | theorems about these modules | proofs |

Operators introduced as `(* Faulty: ... *)` are plausible bugs of the definition that follows them.
No specification uses them; `PROJECT.json` (`mutants`) names the property each of them violates.

### Detector

`ConsumeWarmup`/`ConsumeScored` are `consumer.poll` and everything `handle()` does in memory up to
its first INSERT: `compute_feature_vector`, `ingest_and_score` (`WarmUp`, `Train`),
`dynamic_threshold.evaluate` (`AlertArmed` is its assignment to the reactive clock) and
`trend_forecast.evaluate`. `InsertMetric`, `InsertAlert`,
`PublishAlert` and `EarlyWarning` are the rest of `handle()` in its order; `pc` names the call that
comes next and `job` holds the locals. A reactive alert is followed by the early-warning decision,
as in the code, although `Predicted` excludes it for an anomaly. `HandlerFails` is any of those calls
raising without effect; a statement that raises *after* the database committed it is the second
alternative of `InsertMetric` and `InsertAlert`. `CommitOffsets` is the commit timer. `Crash` loses
the registry and resumes at the committed offsets; `Rejoin`, after the group has given the
partitions away, resumes there with the registry as it was.

Abstractions. A score is any member of `Scores`: the isolation forest, the feature values and the
noise of the generator are left out, so what is checked holds for every model behaviour over those
values. Scores are naturals and the threshold is kept times 100, which makes numpy's interpolation
exact; rounding errors of floats are not modelled. Feature vectors are kept as their number, metric
snapshots as their offsets. `train_window` is the length of the deque. The minutes of a forecast are
reduced to whether there is a forecast. A window in which *all* points carry one timestamp makes
`numpy.polyfit` raise; the generator stamps one event per host and tick, and this case is left out.
`handle()` never runs twice at once: there is one detector, with one thread.

### KafkaProducer

`Enqueue` is `produce()`, which only puts a message into the client's bounded queue. `Deliver`,
`Retry` and `Expire` are librdkafka's thread with `acks=all` and no idempotence: a request whose
answer is lost is sent again, behind later ones, and may be in the log already; after
`message.timeout.ms` it is given up and only logged. `LoseQueue` is the end of the process.

### Telemetry and AnomalyInjector

`ProduceEvent` is one round of the loop over the host profiles: tick, `maybe_inject`, produce.
`EndTick` counts the tick and either sleeps or waits in `flush(5)`, which ends with an empty queue
or by giving up. `Overflow` is the BufferError of a full queue, which nothing catches; it ends the
process like `Crash`, and both include the restart, with new injectors and a new producer. An event
carries the stamp of its tick; a tick is one unit of time. `MaybeInject` is the set of results of
`maybe_inject`, in the code's order: active, cooldown, draw. A ramp's length is any member of
`RampDurations`; of a perturbed sample its position in the perturbation is kept, from which the
code computes the multiplier. `poll(0)` only serves delivery reports, which are only logged.

### AlertSource, AlertLifecycle and AlertPipeline

`AlertSource` says: rows are inserted, then at most the newest is handed to the producer, or
abandoned. `Detector` implements it with `rows` the hosts of its `alerts` and `pending` the newest
row while `pc = "publish_alert"`. `AlertPipeline` is built on that specification instead of on
`Detector`, so what it shows holds for any rule of alerting.

`DetectorCrash` loses the producer's queue. The agent's handler is split into its two status
updates, the investigation and `persist_agent_run`, with failures and crashes as in the detector;
it reads several partitions, one message at a time. `Rejoin` is what follows an investigation longer
than `max.poll.interval.ms`: the group has given the partitions away, which the agent learns in its
next `poll()`; it logs the error, joins again and reads on from the committed offsets, so that a
settled alert may be investigated again. `Investigate` turns any exception of `run_investigation`
into the outcome `failed`, as `agent/main.py:44-52` does.

`AlertLifecycle` is the reader's view of the two tables, without Kafka, positions and processes: an
alert is taken into investigation (from any status), a run is recorded, and the status becomes the
verdict of the newest run. `AlertPipeline` implements it with `runs` the alert and status columns of
`agent_runs`.

### ToolLoop and LLMClients

A completion of `OpenAIClient` is any sequence of up to `MaxCalls` calls of real, unknown or
terminal tools, or an exception; `MockLLMClient` has exactly one completion for each number of calls
made so far. What the loop can tell apart in the submitted arguments is a set of five classes
(`Submissions`). The body of `for tc in completion.tool_calls` is one action, which makes every
intermediate transcript visible. `TurnsAfter` counts the turn before the completion is looked at.
The texts of messages and results are left out; each message keeps its role and the ids it calls or
answers.

### DominantMetric

The choice of the tools and the guess of the mock go by different rows of `table`, a host's part of
`metrics`. `RecentMetrics` are the rows an alert brings along: those in the detector's buffer when it
was raised, its own row the last. `QueryRecentMetrics` are the rows the tool finds at the time it
runs: not older than its interval by then, the newest first, `QueryLimit` at most; so rows written
after the alert are among them, and rows from before it may not be. `Latest` is the first of these, as
in the mock. `ValuesOf` takes rows apart by metric. The timestamps of one host's rows are taken to
differ, since the database is free in how it orders equal ones.

Both choices go through the four metrics in the order of `METRIC_NAMES` and keep the first largest
quotient. Quotients are compared by cross-multiplication over integers; a `std` or a mean below
1e-6 is 0. `BetterRatio` is one turn of the mock's loop.

### MCAlgorithms

The pure operators have no behaviour; this module gives them one, for TLC and for the proofs. A
history or a trend window or the table of a host's rows grows by one element at a time, and the
windows of the four metrics are any member of `MetricWindows`. What a history may hold, the other
levels of a host's scores (`Moves`), the other units of a metric (`Units`), the ramps to look for
(`Steps`, `Ticks`, `Thresholds`), the rows (`RowValues`, `RowGaps`) and how long after them the
query may come (`Delays`) are constants: small sets in the run, any in the theorems.

### Startup

`Up`, `Down`, `StartJob`, `StartService`, `UpDone` and `UpAborts` are `docker compose`; the job and
each service advance one call of their `main()` at a time. What raises on the way (`Stuck`:
thirty failed attempts of `init_pool`, a failed seeding INSERT, a broker that does not answer before
the deadline, a missing API key) ends the process; a service starts over (`ExitAndRestart`), the job
has failed. Deadlines are not counted: whether an attempt meets a broker that is back in time is a
choice. Broker and database go away and come back at any moment (`Outage`, `Recover`); both keep
what they hold, until `Down` removes the broker's container and with it the topics (it has no
volume), while `hosts` stays in the database's.

## 3. Runs

Small bounds are chosen so that each interesting case really occurs; each property is also checked
against a faulty variant of the code that violates it under the same configuration.

| Run | Question | Bounds and why they suffice |
|---|---|---|
| `detection` | Does the detector alert correctly when nothing fails? | One host, seven events, three scores and four logs with gaps, repeats, a clock that jumps ahead and one that comes back; warm-up of one, minimum history three, refit every three. Seven events pass warm-up, minimum history, a full deque and its overflow, a refit, and two cooldowns of either kind. |
| `restart` | What survives crashes, and how much does a failure hide? | Eight ticks, up to two uncommitted events, refit window of five that the deque just holds: room for a first and a second refit, for redelivery after each crash, and for alerts in two lives. Two mishaps: crashes, or a crash and an exception. A history of five is the shortest in which two predictions can follow each other, so that one lost early warning silences a second. |
| `faults` | Two hosts in one partition, two mishaps among exceptions before or after any statement's effect, one crash and one rejoin, under fairness: refinement, inductive invariant, loss, progress. | Two failures are the smallest number whose effects can be confused with one another; the interleaved hosts share position and offsets, the only state hosts have in common. |
| `algorithms` | Are threshold, verdict, severity, forecast and dominant metric what the docstrings say, and do tools and mock tell one story? | All histories of up to eleven scores from three values at the real percentile 95 and minimum 10 (one below, at and one above the minimum); all windows of up to four points with gaps 0, 1, 2 (the minimum number of points is three, smoothing cuts one); all combinations of seven window shapes (flat at zero and above, spike up and down, ramps, two sizes of noise) for the four metrics, in windows of one and of four rows; all tables of up to five rows with a calm metric, a raised one or two, gaps of 1 and 3, queried at once or 2 later over an interval of 5 and with a limit of four, so that an incident may begin before, in or after the query's reach, end before it, or be cut by the limit. |
| `pipeline` | What do transport, agent and their failures do to an alert? | Two hosts on two partitions, two alerts (of one host or of both), a queue of two, any two mishaps among a retry, an expiry, a crash of each process, an exception and a rejoin. |
| `settled` | Does every produced alert end `diagnosed` or `error`? | Two alerts, a retry (duplicate and reordering) and a rejoin, no failures, a queue of one so that `produce()` may raise. |
| `tool_loop` | Is the loop well-behaved against any model, and does the free demo reach its diagnosis? | Any model: caps zero to two, up to two calls per completion, a real and an unknown tool: enough for a forced first turn, an ordinary turn before a forced one, and two submissions in one completion. The mock: caps zero to six around the script's length of four. |
| `generator` | Is the telemetry what the detector takes it to be, and what can be lost? | Two hosts on two partitions, four ticks, a flush every two ticks, a queue of five events (one more than a flush interval), ramps of three ticks and a cooldown of one: perturbations that end, cool down and begin anew; any two mishaps among a retry, an expiry, a flush that gives up and a restart, which suffice to overflow the queue. Only one host is perturbed, as injectors share nothing. |
| `startup` | Does the system come up, and only in order? | Two topics (one may exist without the other), two hosts to seed, two outages, one death of a running service, two calls of `up` and any number of `down`. |
| `lost_alert` | finding, see below | one exception |
| `two_cooldowns` | finding | no failure |
| `unstructured` | finding | any model |

`MaxLag`, `MaxLives`, `MaxFaults`, `MaxRejoins`, `MaxRetries`, `MaxExpired`, `MaxDetectorLives`,
`MaxAgentLives`, `MaxAlerts`, `MaxCalls`, `MaxTime`, `MaxTimeouts`, `MaxOutages`, `MaxDeaths` and
`MaxUps` are bounds of the models, not of the code. `MaxMishaps` bounds in a `CONSTRAINT` how many
mishaps, of any kinds, come together in one behaviour; a constraint only cuts behaviours off, so it
is used with safety properties (`restart`, `faults`, `pipeline`, `generator`), and in `faults` with
`CatchesUp` for the behaviours within it. `CHECK_DEADLOCK FALSE` is set where the system may really
stop: a log is consumed to its end, no further alert need be raised, the last tick is over, nobody
calls `up`. `tool_loop` and `unstructured` stop when the investigation is over.

### The properties

Detector: `AlertSpacing` (cooldown within a life, per kind, whatever the timestamps),
`AlertSpacingAcrossRestarts` (a new life has to warm up before it can alert, which is what keeps
redelivered events from being alerted again, also as the other kind), `AlertCitesItsMetric`,
`PublishedOrCoolingDown` (completeness: no anomaly or prediction goes unnoticed for another reason
than the cooldown of a *published* alert), `BuffersReplayLog`, `ModelVersionSchedule`,
`ClocksAdvance`, `FailureSilencesOneCooldown` (below), `LossBound` (rows missing, and rows written
again), `CatchesUp`, `ClocksCoverAlerts`, `ImplementsAlertSource`.

`AlertSpacingAcrossRestarts` depends on the sizes: it holds when events come one per tick and the
commit lag is short against warm-up and minimum history, as with the defaults (120 and 10 events of
3 s against a 60 s cooldown and a 5 s commit interval), and when nothing makes the group hand the
partitions out again to the same registry. It is not a property of every configuration; section 4
has the condition under which it is a theorem.

`FailureSilencesOneCooldown` is `PublishedOrCoolingDown` with failures. The clocks are armed first, so
an exception or a crash may leave flags in `metrics` that nothing published stands for (`Untold`): the
one it hit, and those turned down after it. The property bounds them: as many flags as there were
failures, reactive and early-warning ones together, have all others within a cooldown behind one of
them. A cooldown that an unpublished or a suppressed alert extends breaks it. It assumes timestamps in
order, as in `restart`'s log.

Pipeline: `ImplementsAlertLifecycle`, `StatusTellsNewestRun`, `LeftBehindBound`, `RunsBound`,
`InvestigatedInOrder`, `ProducedIsSettled`. Tool loop: `TranscriptIsAnswered`,
`ResultIsLastSubmission`, `AskedWithinCap`, `MockDiagnoses`, `Terminates` (every step uses up some
of `Remaining`, turns and calls, and under fairness the end is reached; a turn that plain text did
not cost would let a model talk for ever). Generator: `PerturbationsAreSpaced`, `DisorderBound`
(what the detector may assume of its input: the partition of the key, and order up to one
displacement per retry), `BacklogBound` (no BufferError as long as flushes succeed),
`TelemetryLossBound`. Start-up: `RunningIsPrepared`, `ComesUp`. Algorithms: the six invariants of
`MCAlgorithms`. How `numpy.percentile` interpolates is taken from its documentation
(`ScaledThreshold`) and is no property of this code.

`IncidentTellsOneStory` relates the metric the synthetic tools are made up for to the one the mock
diagnoses, which are chosen by different measures from different rows. They agree for an incident
that one metric makes, that still lasts when the tool runs, and of which both the alert and the query
see a row from before. None of the conditions can be dropped; for each TLC has a table on which the two
differ. The code guarantees none of them: an agent that lags behind finds the incident over, and one
longer than the query's 15 minutes or 200 rows, or than the alert's ten, fills the rows from end to
end. Then the mock's diagnosis may be about another metric than the logs and deploys it cites.

### Fairness

Weak fairness only, of steps the running process takes by itself. `Detector`: the thread of
the consume loop (`Consume \/ Handle`, one action at a time) goes on, and the commit timer fires. A
crash includes its restart, as compose restarts the container. Failures, crashes, retries and
expiries are never fair. `AlertPipeline`: the handler that is about to publish does so or gives up,
the sender thread delivers what is queued, the agent's loop goes on, the timer fires; nothing makes
the detector raise an alert. `Startup`: compose, the job and each service take the steps they can;
nobody has to bring broker or database back or to call `up` again, so the liveness properties assume
that these stay up. `Telemetry` states no fairness. That an investigation ends is what `ToolLoop`
shows (`Terminates`, under fairness of its next step: a request to the model ends at the latest by
the client's time-out).

## 4. Proofs

All theorems hold for every value of the constants that satisfies the modules' assumptions: any sets
of hosts, partitions, topics and tools, any logs, scores and sizes, and any bounds on mishaps. The
assumptions: sizes are naturals, those positive that must not be zero (`RollingWindow` among them,
by default 10: with an empty window the snapshots of an alert could not end with its event); scores
and timestamps are naturals; the markers `NoTime` and `NoJob` differ from the values they stand
beside; a host's events and alerts lie in the partition of its key; `host_profiles.json` names no
host twice; the script of the mock consists of tools. Of the algorithms' inputs only types are
assumed: naturals for scores, gaps, thresholds and metric values, integers for slopes, a scale that
is not zero (and not negative for scores, which would turn a baseline upside down), windows made of
rows that hold all four metrics, and positive distances between the rows of a host. Nothing is
assumed about the order of the timestamps a detector reads.

| Property | Theorem | The invariant it rests on |
|---|---|---|
| `Detector`: `TypeOK` | `DetectorProofs!TypeCorrect` | itself |
| `ClocksCoverAlerts`, `AlertSpacing` | `ClocksCover`, `AlertsAreSpaced` | `ClocksCoverAlerts` |
| `ClocksAdvance` | `ClocksNeverGoBack` | types only |
| `ImplementsAlertSource` | `DetectorImplementsSource` | `PendingHasRow` |
| `AlertCitesItsMetric` | `AlertsCiteTheirMetrics` | `ModelsAreFitted`, `JobIsJudged`, `JobHasRow` |
| `LossBound` | `LossIsBounded` | `PolledFirst`, `LossesExplained`, `RowsExplained` |
| `PublishedOrCoolingDown` | `FlagsAreTold` | `HandlingInv`, `ClocksArePublished`, `RowsAreTold` |
| `BuffersReplayLog` | `DetectorBuffersProofs!BuffersReplay` | `LogIsRemembered` |
| `ModelVersionSchedule` | `ScheduleIsKept` | `LogIsRemembered` |
| `AlertSpacingAcrossRestarts`, under `WarmUpOutlastsCooldown` | `RestartsKeepSpacing` | `LogIsRemembered`, `AlertingInv` |
| `AlertPipeline`: `TypeOK` | `AlertPipelineProofs!TypeCorrect` | itself |
| `StatusTellsNewestRun` | `StatusIsTold` | `UnderInvestigation`, `RunRecorded` |
| `ImplementsAlertLifecycle` | `PipelineImplementsLifecycle` | `StatusInv` |
| the detector's side is `AlertSource` | `PipelineKeepsSource` | none |
| `LeftBehindBound` | `LeftBehindIsBounded` | `OffsetsInLog` |
| `InvestigatedInOrder` | `OrderIsKept` | `LogInv`, `RunsInv` |
| `RunsBound` | `RunsAreBounded` | `SentInv`, `RunsCounted` |
| `ToolLoop`: `TypeOK` | `ToolLoopProofs!TypeCorrect` | `TurnsInv`, `BatchInv` |
| `ResultIsLastSubmission` | `ResultIsLast` | `DiagnosisInv` |
| `TranscriptIsAnswered` | `TranscriptIsComplete` | `TranscriptInv` with `Layout` |
| `AskedWithinCap` | `CapIsKept` | `AskedInv` with `NullBefore` |
| `MockDiagnoses` | `MockAlwaysDiagnoses` | `MockInv` |
| `StepsRunOut`, the safety half of `Terminates` | `EveryStepUsesUp` | `TurnsInv`, `BatchInv` |
| `Startup`: `TypeOK` | `StartupProofs!TypeCorrect` | itself |
| `RunningIsPrepared` | `RunningStaysPrepared` | `JobKnowsTopics`, `SeededSoFar` |
| `Telemetry`: `TypeOK` | `TelemetryProofs!TypeCorrect` | `TickInv` |
| `BacklogBound` | `BacklogIsBounded` | `BacklogInv` |
| `TelemetryLossBound` | `LossIsBounded` | `LivesInv`, `LostIsSuffix`, `LossCount`, `LogInOrder`, `Placed` |
| `DisorderBound` | `DisorderIsBounded` | `Placed`, `DisorderInv` |
| `PerturbationsAreSpaced` | `PerturbationsStayApart` | `InjectorInv` with `Told`, `LivesInv` |
| `MCAlgorithms`: types of the inputs | `AlgorithmsProofs!InputsAlways` | `Inputs` |
| `AnomaliesAreTheTopShare` | `AnomaliesAreTheTopShareAlways` | `Inputs`; `ShareAboveThreshold`, `MaximumIsAnomalous` |
| `VerdictFollowsBaseline` | `VerdictFollowsBaselineAlways` | `Inputs`; `VerdictMoves`, `WorseVerdict` |
| `GateMatchesResiduals` | `GateMatchesResidualsAlways` | `Inputs`; `SquaresOfResiduals` |
| `RampIsForecastExactly` | `RampIsForecastExactlyAlways` | `Inputs`; `RampIsForecast` |
| `DominanceIgnoresUnits` | `DominanceIgnoresUnitsAlways` | `Inputs`; `DominanceKept` |
| `IncidentTellsOneStory` | `IncidentTellsOneStoryAlways` | `Inputs`; `QueryIsNewest`, `IncidentStands`, `OnlyDeviantDominates`, `OnlyRisenIsInferred` |

Each invariant was model-checked on the instances of section 3 before it was proved; of
`LogIsRemembered`, whose lists of scores and points no run can enumerate, the schedule and the list of
events (with `Seen` for it).

**Detector.** `AlertSpacing` is not inductive: that a new row comes at least the cooldown after the
older ones follows from the clock consulted several steps earlier, in `ConsumeScored` or
`EarlyWarning`, not from the table. `ClocksCoverAlerts` says what the clock knows: a handler that has
armed a clock for an alert not inserted yet has armed it with that event's time; every alert of this
life lies at or before the clock of its host and kind; and while an alert is in flight for that
clock, the older ones lie the cooldown before it. Each step keeps it (`QuietStep` for the steps that
arm nothing, `ConsumeCovers`, `EarlyWarningCovers`, `InsertAlertCovers`, and a crash because it
starts a new life), and under it the only step that adds a row adds it far enough from the others
(`SpacingStep`). Time running backwards is harmless, since a clock is only overwritten after the
comparison with it. The refinement needs one more fact, that a pending publication has a row
(`PendingHasRow`), and that the mapped `rows` grow at their end (`RowsAppend`).

The citations in `alerts` are those of the handler's locals, so the argument is about `job`: it was
judged by a fitted model (`JobIsJudged`, `ModelsAreFitted`), and from `InsertMetric` on the row it
remembers is its own (`JobHasRow`). `LossBound` counts a set, `Lost`: polled events without a row
other than the one being handled. Only an exception or a crash moves an event into it, one at a
time, since `position` goes back at a crash no further than what is committed and what lies ahead
of it is not polled any more. `FlagsAreTold` reads `Spec => [](NoMishap => PublishedOrCoolingDown)`
with `NoMishap` for no exception and no crash so far; commits and rejoins may happen. With an
exception the property is false, as `lost_alert` shows. It is the mirror image of
`ClocksCoverAlerts`: every armed clock has an alert published at its very time, or in flight
(`ClocksArePublished`), so whoever is held back by a clock is within the cooldown of a published
alert (`RowsAreTold`).

A host's entry of the registry is a function of the part of the log this life has read, as long as
no rejoin has events come again to it. `LogIsRemembered` states which: there are a list of the host's
events (`Lists`: their offsets in increasing order, so that it is the only one, `ListIsSeen`), and
unbounded lists of scores and of points in step with it (`OnePerScored`), and the deques hold the
newest entries of the three (`DequesHold`). Appending to a deque and to its unbounded list keeps that,
whatever the sizes (`PushLast`), and the three deques stay aligned though they have different lengths
and the first starts `WarmupEvents` earlier (`DequesAligned`). The same invariant counts the vectors
of the training window, the refits and the events since the last one with `\div` and `%`
(`OnSchedule`): a refit comes when both conditions of `host_state.py` hold, and once the window is
full enough only the interval decides (`TrainKeepsSchedule`, `NextQuotient`).

`RestartsKeepSpacing` has a hypothesis about log and sizes, `WarmUpOutlastsCooldown`: of one host's
events those with `WarmupEvents + MinHistory - MaxLag` or more of its events from the one to the other
lie the cooldown apart. Without it the property is false, since a crash forgets the clocks. With the
defaults (120 and 10 events, 3 seconds apart, a cooldown of 60) it holds as long as no more than 110
events of a partition are uncommitted at a crash; the instance of `restart` satisfies it with nothing
to spare. The argument: whoever judges an event has read a warm-up and a history since the process
started (`JobIsRead`, by `LogIsRemembered` and `HistoryIsRead`); earlier lives have read at most
`MaxLag` of these (`AlertsWereRead`); so the rest lies between the two alerts (`NewLifeWaits`). Within
one life clocks keep alerts of one kind apart (`AlertSpacing`), and an event is alerted once
(`AlertedOnce`).

**Alert pipeline.** Between two statements of the agent the tables disagree, and
`StatusTellsNewestRun` has to be strengthened by what each program point knows: the alert in hand is
`investigating` (`UnderInvestigation`), and once its run is recorded no other run of it is newer
(`RunRecorded`); this also carries the refinement. `LeftBehindBound` counts alerts passed over;
only `HandlerFails` and `AgentCrash` add one, the one in hand. `InvestigatedInOrder` comes from the
order of the log: queue and topic together hold a host's alerts in the order of their rows as long as
nothing is retried (`LogInOrder`, `NewestPending`, `KeyedByHost`), and the agent reads them once
(`HandlesLastRead`, `RecordedWereRead`, `HandlesNewer`). `RunsBound` multiplies copies by readings:
the runs of an alert, and the one the agent may still record for the message in hand, are no more
than its copies for each reading of its partition that is over, and the copies read in the present
one (`RunsCounted`). Reading a message counts one copy more and awaits one run more; recording a run
trades the awaited one for a real one, a failing handler gives it up; a restart or a rejoin, which
goes back to the committed offset, closes a reading (`ReadAgain`), and a delivery only adds copies
ahead (`MoreCopies`). That copies come from retries only is a second count: what is delivered and what
is queued are together no more than what was produced and retried (`SentInv`).

**Tool loop.** The transcript is proved from `Layout`, a statement about sequences of messages with a
number of answered and a number of waiting calls: ids are numbered across messages
(`InCallOrder`), the answer to the x-th call of message i is or will be message i + x (`InPlace`),
and tool messages come in the order of the calls (`InTurn`). Asking the model and answering a call
keep it (`LayoutAsk`, `LayoutAnswer`), and with nothing waiting it gives `TranscriptIsAnswered`.
`CapIsKept` needs it too: a completion followed by another one had a null diagnosis last, because
all calls after its last submission are its own (`NullAsk`). `DiagnosisInv` says that `diagnosis` is
the last submission of the record; a last submission is unique (`LastOfIsUnique`). That every step uses
up some of `Remaining` rests on the invariants that forbid a turn beyond the forced one and a call
from an empty batch; a turn is worth one more than the calls it may bring (`TurnIsWorthMore`).

**Start-up.** A state of the job says how far the topics are, once it has listed or created them
(`JobKnowsTopics`), and the generator's place in its seeding says which hosts exist
(`SeededSoFar`).

**Generator.** What is queued is bounded by what the ticks since the last flush have produced:
`BacklogInv` counts them with `tick_count % FlushInterval` and the turn in the current tick, and adds
a whole interval for each flush that gave up; `BacklogBound` is what remains when the tick is
forgotten. A process that ends takes its queue with it, so the same bound gives `LossCount`, and an
event of the present life is lost only by being given up (`LivesInv`). That only the end of a
partition is lost needs the order of the log: without retries and expiries queue and topic are
increasing and everything delivered is older than what is queued (`LogInOrder`). `DisorderBound` is
not inductive for the topic alone, because a retry repeats a message of the *queue*. `DisorderInv`
states it for each partition's log joined with its queue: delivering moves the boundary and changes
nothing, giving up, or losing the queue, removes entries and adds no place where the sequence goes
down (`RemovedDescents`, `BeginsDescents`), producing adds the newest event at the end, and a retry
adds one such place at most (`AddedDescents`). `PerturbationsAreSpaced` speaks of events only, and a
tick depends on the injector: `Told` says that every event that began a perturbation determines the
state of its injector until the cooldown has run out (`Since`), and that the host's last event is one
tick old and tells how far the perturbation has come. When a host is sampled next (`Due`) is the
present tick or, after its turn, the next one; a tick has one turn for each host, as no profile names
a host twice (`DueStep`). A new process starts with idle injectors and no event of its own life
(`LivesInv`).

**Algorithms.** What the operators compute is proved for every history, window and setting, of any
length. The library's induction theorems take an operator as a parameter and cannot be used, so
induction is done by least counterexample: the library's theorem that the naturals are well-founded
gives every non-empty set of naturals a least element (`Least`), and hence a set that holds 0 and
each successor holds everything (`UpTo`). A fold is defined as what some recursive function yields;
that there is such a function is proved by the same induction on sets of indices (`IterationExists`),
and after that a sum is its running sums (`TotalRuns`) and a loop its turns (`IterationRuns`).

* *Threshold.* The value of rank k in a history is characterised by counting the smaller and the not
  greater scores (`HasRank`); `RankExists` and `RankUnique` make the code's choice of it sound with
  repeated scores. Counting gives the share of scores above the threshold, and that a new maximum,
  itself a score of the history, lies above it.
* *Verdict and severity.* A shifted or scaled history has the moved ranks, and its variance by the
  square of the scale. That a worse score is judged at least as severely is the deep one: it raises
  the threshold as well as the standard deviation the excess is measured in. When the threshold stays,
  the excess grows by more than the deviation does, as no score lies further from the mean than the
  deviation times the root of n - 1 (`Samuelson`, `WorseByThresholdKept`). The threshold moves with the
  score only when the score is its upper neighbour, and then no score lies between the two neighbours
  (`NothingBetween`), which bounds the spread from below (`SpreadOfNeighbours`,
  `WorseByThresholdRaised`).
* *Forecast.* The sum of squared residuals of the least-squares line, cleared of denominators, is the
  product form the code's R^2 is compared by (`SquaresOfResiduals`). A steady ramp stays one under
  smoothing (`TimesRamp`, `ScoresRamp`) and its fit is exact (`RampsVary`), so that the
  forecast is a comparison of three products (`BreachArithmetic`). The first form of the property did
  not survive the proof: it was wrong without smoothing and for a window of a single point. It now
  asks for more points than the smoothing window and uses the scale of the smoothed scores.
* *Dominant metric.* The comparison of z-scores has the same outcome when deviation and spread of
  either side are multiplied by a scale and its square (`ComparisonScales`), so each turn of
  the loop chooses alike. With one deviant metric, from the turn that meets it on it stays the best
  in both loops.
* *Two windows, one story.* The query returns the newest rows, newest first (`QueryIsNewest`, by
  counting the rows listed before each), so the row before the incident is the reason that the risen
  metric's first value exceeds its mean (`RisenWindow`) while the others' equals theirs. The alert's
  rows are in the opposite order, and there the same row gives the metric a deviation no other has
  (`RisenDeviates`). Both are stated of rows whose one metric stands out at one end (`Stands`), and the
  incident makes both windows such rows (`IncidentStands`).

Only model-checked is liveness (`CatchesUp`, `ProducedIsSettled`, the second half of `Terminates`,
`ComesUp`): with `ENABLED` it is out of the prover's reach. So far only model-checked is
`FailureSilencesOneCooldown`.

## 5. Findings

* **An exception can silence a later anomaly** (`lost_alert`, `SuppressedOnlyByPublished`).
  `evaluate()` arms `last_alert_time` before the metrics row, the alerts row and the message are
  written. In TLC's trace the metrics INSERT of one anomaly raises and the event is passed over; the
  next anomaly, within the cooldown, is turned down, while nothing was ever published. The docstring
  ties the cooldown to a published alert. The early-warning clock is armed the same way.
  `FailureSilencesOneCooldown` shows that it stops there: one failure, one cooldown.
* **Two cooldowns per host** (`two_cooldowns`). README.md:42 promises "a 60s per-host cooldown after
  each alert"; early warnings and reactive alerts have separate clocks, so one may follow the other
  at once. `main.py` says so itself; the README does not.
* **A structured result is not always produced** (`unstructured`). A submitted confidence that
  `float()` refuses, or arguments that are no JSON object, raise in the final conversion, and the
  received diagnosis is lost. The agent's handler turns this into a failed run (`AlertPipeline`).

A consequence seen in `AlertPipeline` that contradicts no statement of the repository: an alert whose
row was written but whose message was not stays `new` for ever, since nothing looks for such rows,
and an alert whose handler raised stays `new` or `investigating`. `LeftBehindBound` bounds the
latter.

Two consequences seen in the runs that contradict no statement of the repository: a job that an
outage interrupts makes `up` abort and leaves all services unstarted until somebody calls `up` again,
which then completes (`ComesUp`); and an agent whose provider has no key restarts for ever.

## 6. Not modelled, and why

* The isolation forest, feature values and the signal model: floating point and random numbers,
  without control. The models take any score and any sample instead.
* Validation of payloads and settings, JSON, log layout: no state, and what is rejected raises in
  the handler like any other exception.
* Prompt texts, runbooks, and the answers of the tools, which are read-only or made up at random;
  how the mock words its diagnosis.
* The connection pool's limits: each service uses it from one thread, so that it is one connection
  that may fail. ZooKeeper: part of the broker's being up or down.
* Several processes of one consumer group: compose starts one of each, so the group only ever takes
  partitions from and gives them back to the same process.
* Messages that the broker loses or deletes after 24 hours.
* The dashboard's SQL, provisioning, the smoke test: outside the program.

## 7. Plan

All components with control of their own are modelled, and every safety property that a run checks
is a theorem, `AlertSpacingAcrossRestarts` under a condition on the sizes, except
`FailureSilencesOneCooldown`, whose proof comes next: an invariant that gives each failure the one
clock it has left armed for nothing. After that, more of the program: rounding of floats in
`numpy.percentile` and `polyfit`, windows in which all points carry one timestamp, and several
processes of one consumer group.
