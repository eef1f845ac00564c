---------------------------- MODULE AlertPipeline ----------------------------
(***************************************************************************)
(* The way of an alert through the system: inserted and produced by the    *)
(* detector (AlertSource), carried by its Kafka producer (KafkaProducer)   *)
(* into a partition of `alerts.triggered', and investigated by the agent,  *)
(* one process whose handler (services/agent/app/main.py) updates          *)
(* alerts.status and writes agent_runs.  An alert is named by the position *)
(* of its row; what an investigation finds is ToolLoop's business, here    *)
(* only whether it raises.                                                 *)
(***************************************************************************)
EXTENDS AlertSource, KafkaProducer, FiniteSets

CONSTANTS
    AlertPartitionOf,  \* the partition a host's key hashes to
    NoAlert,           \* the agent's handler is not running
    MaxAlerts,         \* bound: rows of alerts
    MaxDetectorLives,  \* bound: incarnations of the detector
    MaxAgentLives,     \* bound: incarnations of the agent
    MaxRejoins,        \* bound: times the agent loses and regains its partitions
    MaxFaults          \* bound: exceptions out of the agent's handler

ASSUME AlertPartitionAssumption == AlertPartitionOf \in [Hosts -> TopicPartitions]
ASSUME NoAlertAssumption == NoAlert \notin Nat
ASSUME PipelineBoundsAssumption ==
    /\ MaxAlerts \in Nat
    /\ MaxDetectorLives \in Nat \ {0}
    /\ MaxAgentLives \in Nat \ {0}
    /\ MaxRejoins \in Nat
    /\ MaxFaults \in Nat

VARIABLES
    status,         \* alerts.status, by row
    detector_life,  \* the incarnation of the detector
    position,       \* offset of the last message the agent polled
    committed,      \* the agent's committed offset
    pc,             \* the next call of the agent's handle()
    alert,          \* the alert it is investigating
    outcome,        \* the local `status' of handle()
    agent_runs,     \* table agent_runs, in insertion order
    agent_life,     \* the incarnation of the agent
    rejoins,        \* times it has joined its group again
    faults          \* exceptions out of the agent's handler so far

detector_vars == <<source_vars, producer_vars, detector_life>>
consumer_vars == <<position, committed, agent_life, rejoins>>
agent_vars    == <<consumer_vars, pc, alert, outcome, agent_runs, faults>>

vars == <<detector_vars, agent_vars, status>>

Statuses == {"new", "investigating", "diagnosed", "error"}

Outcomes == {"completed", "failed"}

Run == [alert : Nat, status : Outcomes, life : Nat]

TypeOK ==
    /\ rows \in Seq(Hosts)
    /\ pending \in {0, Len(rows)}
    /\ produced \in Seq(DOMAIN rows)
    /\ status \in Seq(Statuses) /\ Len(status) = Len(rows)
    /\ queue \in [TopicPartitions -> Seq(DOMAIN rows)]
    /\ topic \in [TopicPartitions -> Seq(DOMAIN rows)]
    /\ position \in [TopicPartitions -> Nat]
    /\ committed \in [TopicPartitions -> Nat]
    /\ pc \in {"poll", "mark", "investigate", "persist", "finish"}
    /\ IF pc = "poll" THEN alert = NoAlert ELSE alert \in DOMAIN rows
    /\ outcome \in Outcomes
    /\ agent_runs \in Seq(Run)
    /\ retries \in 0..MaxRetries
    /\ expired \in 0..MaxExpired
    /\ detector_life \in 1..MaxDetectorLives
    /\ agent_life \in 1..MaxAgentLives
    /\ rejoins \in 0..MaxRejoins
    /\ faults \in 0..MaxFaults

Init ==
    /\ SourceInit
    /\ ProducerInit
    /\ status = <<>>
    /\ detector_life = 1
    /\ position = [p \in TopicPartitions |-> 0]
    /\ committed = [p \in TopicPartitions |-> 0]
    /\ pc = "poll"
    /\ alert = NoAlert
    /\ outcome = "completed"
    /\ agent_runs = <<>>
    /\ agent_life = 1
    /\ rejoins = 0
    /\ faults = 0
-----------------------------------------------------------------------------
(* The detector and its producer                                           *)

(* insert_alert_row: the detector alone creates rows, as `new'.            *)
RaiseAlert ==
    /\ Len(rows) < MaxAlerts
    /\ \E h \in Hosts : InsertRow(h)
    /\ status' = Append(status, "new")
    /\ UNCHANGED <<producer_vars, detector_life, agent_vars>>

(* produce_json, keyed by the host.                                        *)
ProduceAlert ==
    /\ Publish
    /\ Enqueue(AlertPartitionOf[rows[pending]], pending)
    /\ UNCHANGED <<detector_life, agent_vars, status>>

(* produce() raises, as it does when the queue is full, and the detector's *)
(* consume loop swallows it.                                               *)
AbandonAlert ==
    /\ Abandon
    /\ UNCHANGED <<producer_vars, detector_life, agent_vars, status>>

Send(p) == Deliver(p) /\ UNCHANGED <<source_vars, detector_life, agent_vars, status>>

SendFails(p) ==
    /\ Retry(p) \/ Expire(p)
    /\ UNCHANGED <<source_vars, detector_life, agent_vars, status>>

(* The detector dies, with the row it was about to publish and whatever its*)
(* producer still held: nothing flushes it, nothing looks for `new' rows.  *)
DetectorCrash ==
    /\ detector_life < MaxDetectorLives
    /\ detector_life' = detector_life + 1
    /\ LoseQueue
    /\ pending' = 0
    /\ UNCHANGED <<rows, produced, agent_vars, status>>
-----------------------------------------------------------------------------
(* The agent                                                               *)

Update(new_status) == status' = [status EXCEPT ![alert] = new_status]

(* Faulty: a settled alert is left as it is.                               *)
TakenStatusUnlessSettled ==
    IF status[alert] \in {"diagnosed", "error"} THEN status[alert] ELSE "investigating"

(* Whatever the status was.                                                *)
TakenStatus == "investigating"

(* Faulty: the outcome of the run is not looked at.                        *)
FinalStatusDiagnosed == "diagnosed"

FinalStatus == IF outcome = "completed" THEN "diagnosed" ELSE "error"

(* Faulty: the alert is still held when the next one is polled.            *)
ReturnWithAlert == pc' = "poll" /\ UNCHANGED alert

Return == pc' = "poll" /\ alert' = NoAlert

(* A call of the handler raised; consume_json_forever logs it and polls on.*)
Raise ==
    /\ faults < MaxFaults
    /\ faults' = faults + 1
    /\ Return

(* Faulty: the position stays, and the message is polled again.            *)
AdvanceNot(p) == UNCHANGED position

(* The client stores the offset for the next commit at once.               *)
Advance(p) == position' = [position EXCEPT ![p] = @ + 1]

(* consumer.poll returns the next message of partition p.                  *)
Poll(p) ==
    /\ pc = "poll"
    /\ position[p] < Len(topic[p])
    /\ Advance(p)
    /\ alert' = topic[p][position[p] + 1]
    /\ pc' = "mark"
    /\ UNCHANGED <<detector_vars, committed, agent_life, rejoins, outcome, status,
                   agent_runs, faults>>

(* update_alert_status(.., "investigating").                               *)
MarkInvestigating ==
    /\ pc = "mark"
    /\ Update(TakenStatus)
    /\ \/ pc' = "investigate" /\ UNCHANGED <<alert, faults>>
       \/ Raise
    /\ UNCHANGED <<detector_vars, consumer_vars, outcome, agent_runs>>

(* Faulty: an exception of run_investigation leaves the handler.           *)
CatchNothing == IF outcome' = "failed" THEN Return ELSE pc' = "persist" /\ UNCHANGED alert

(* `except Exception' makes a failed investigation an outcome.             *)
Catch == pc' = "persist" /\ UNCHANGED alert

(* run_investigation.                                                      *)
Investigate ==
    /\ pc = "investigate"
    /\ outcome' \in Outcomes
    /\ Catch
    /\ UNCHANGED <<detector_vars, consumer_vars, status, agent_runs, faults>>

(* persist_agent_run, with a fresh run_id.  The commit may have happened   *)
(* although the call raises.                                               *)
PersistRun ==
    /\ pc = "persist"
    /\ agent_runs' = Append(agent_runs,
                            [alert |-> alert, status |-> outcome, life |-> agent_life])
    /\ \/ pc' = "finish" /\ UNCHANGED <<alert, faults>>
       \/ Raise
    /\ UNCHANGED <<detector_vars, consumer_vars, outcome, status>>

(* update_alert_status with the outcome, and handle() returns.  A raise    *)
(* after the commit changes no more than that.                             *)
FinishAlert ==
    /\ pc = "finish"
    /\ Update(FinalStatus)
    /\ Return
    /\ UNCHANGED <<detector_vars, consumer_vars, outcome, agent_runs, faults>>

(* The statement about to be made raises without any effect.               *)
HandlerFails ==
    /\ pc \in {"mark", "persist", "finish"}
    /\ Raise
    /\ UNCHANGED <<detector_vars, consumer_vars, outcome, status, agent_runs>>

(* enable.auto.commit, at any time, also during an investigation.          *)
CommitOffsets ==
    /\ committed # position
    /\ committed' = position
    /\ UNCHANGED <<detector_vars, position, agent_life, rejoins, pc, alert, outcome,
                   status, agent_runs, faults>>

(* Faulty: the reader goes on from the end of the log.                     *)
ResumeAtEnd == [p \in TopicPartitions |-> Len(topic[p])]

(* Where a consumer that is assigned its partitions anew reads on;         *)
(* `earliest' when nothing is committed.                                   *)
ResumeOffsets == committed

(* The agent dies, is restarted and resumes.                               *)
AgentCrash ==
    /\ agent_life < MaxAgentLives
    /\ agent_life' = agent_life + 1
    /\ position' = ResumeOffsets
    /\ Return
    /\ UNCHANGED <<detector_vars, committed, rejoins, outcome, status, agent_runs, faults>>

(* An investigation outlasted max.poll.interval.ms, or the heartbeats did  *)
(* not get through: the group has given the partitions away, which the     *)
(* agent learns in its next poll(), after the handler is done.  It logs the*)
(* error, joins again, the only member, and resumes.                       *)
Rejoin ==
    /\ pc = "poll"
    /\ rejoins < MaxRejoins
    /\ rejoins' = rejoins + 1
    /\ position' = ResumeOffsets
    /\ UNCHANGED <<detector_vars, committed, agent_life, pc, alert, outcome, status,
                   agent_runs, faults>>

Source == RaiseAlert \/ ProduceAlert \/ AbandonAlert

Transport == \E p \in TopicPartitions : Send(p) \/ SendFails(p)

Handle == MarkInvestigating \/ Investigate \/ PersistRun \/ FinishAlert

Agent == (\E p \in TopicPartitions : Poll(p)) \/ Handle

Next == Source \/ Transport \/ DetectorCrash \/ Agent \/ HandlerFails
        \/ CommitOffsets \/ AgentCrash \/ Rejoin

Spec == Init /\ [][Next]_vars

(* The detector's handler and the agent's loop run on, the producer's      *)
(* thread keeps sending and the commit timer fires; an investigation ends  *)
(* (ToolLoop).  Nothing obliges the detector to raise another alert.       *)
FairSpec ==
    /\ Spec
    /\ WF_vars(ProduceAlert \/ AbandonAlert)
    /\ \A p \in TopicPartitions : WF_vars(Send(p))
    /\ WF_vars(Agent)
    /\ WF_vars(CommitOffsets)
-----------------------------------------------------------------------------
RunsOf(a) == {i \in DOMAIN agent_runs : agent_runs[i].alert = a}

IsNewestRun(i, a) ==
    /\ agent_runs[i].alert = a
    /\ \A j \in DOMAIN agent_runs : agent_runs[j].alert = a => j <= i

(* The messages of the topic, by partition and offset.                     *)
Delivered == UNION {{p} \X DOMAIN topic[p] : p \in TopicPartitions}

Copies(a) == {po \in Delivered : topic[po[1]][po[2]] = a}

Settled == {"diagnosed", "error"}

(* A settled alert shows the outcome of its newest run, however often it   *)
(* was delivered and wherever earlier passes stopped (agent/app/main.py:   *)
(* 54-64).                                                                 *)
StatusTellsNewestRun ==
    \A a \in DOMAIN status :
        status[a] \in Settled =>
            \E i \in DOMAIN agent_runs :
                /\ IsNewestRun(i, a)
                /\ status[a] = IF agent_runs[i].status = "completed" THEN "diagnosed" ELSE "error"

(* Alerts the agent has polled, and will not be given again, whose row does*)
(* not say how the investigation ended.                                    *)
LeftBehind ==
    {a \in DOMAIN status :
        /\ status[a] \notin Settled
        /\ a # alert
        /\ \E p \in TopicPartitions : \E i \in DOMAIN topic[p] : topic[p][i] = a
        /\ \A p \in TopicPartitions : \A i \in DOMAIN topic[p] :
              topic[p][i] = a => i <= position[p]}

(* Each exception and each crash of the agent leaves at most one alert     *)
(* `new' or `investigating' for good (kafka_utils.py:53 and 81,            *)
(* agent/app/main.py:37-64); without them, and for all that the group takes*)
(* its partitions away, it leaves none.                                    *)
LeftBehindBound == Cardinality(LeftBehind) <= faults + (agent_life - 1)

(* A delivered message is investigated once per reading of its partition:  *)
(* runs come only from copies of the message, from restarts and from       *)
(* rejoining; copies come only from retries, and lie in the partition of   *)
(* their host (kafka_utils.py:20-42, 45-57, 71).                           *)
RunsBound ==
    /\ \A a \in DOMAIN status :
         /\ Cardinality(RunsOf(a)) <= Cardinality(Copies(a)) * (agent_life + rejoins)
         /\ \A po \in Copies(a) : po[1] = AlertPartitionOf[rows[a]]
    /\ Cardinality(Delivered) <= Len(produced) + retries

(* Without retries and redelivery the alerts of a host are investigated in *)
(* the order in which they were raised (key of produce_json, db_writer.py: *)
(* 107; one consumer per partition).                                       *)
InvestigatedInOrder ==
    retries = 0 /\ agent_life = 1 /\ rejoins = 0 =>
        \A i, j \in DOMAIN agent_runs :
            i < j /\ rows[agent_runs[i].alert] = rows[agent_runs[j].alert]
                => agent_runs[i].alert < agent_runs[j].alert

(* Without faults every produced alert is settled in the end and stays so, *)
(* also when retries or a rejoin have it investigated again.               *)
ProducedIsSettled ==
    \A a \in 1..MaxAlerts :
        (a \in Range(produced)) ~> [](a \in DOMAIN status /\ status[a] \in Settled)

Lifecycle == INSTANCE AlertLifecycle WITH
    runs <- [i \in DOMAIN agent_runs |->
                [alert |-> agent_runs[i].alert, status |-> agent_runs[i].status]]

(* What the tables show of an alert: taken before it is recorded, recorded *)
(* before it is settled, and settled with the verdict of the newest run    *)
(* only (agent/app/main.py:37-64).                                         *)
ImplementsAlertLifecycle == Lifecycle!LifecycleSpec
=============================================================================
