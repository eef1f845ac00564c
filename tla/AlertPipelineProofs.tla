------------------------- MODULE AlertPipelineProofs -------------------------
(***************************************************************************)
(* Theorems of the alert pipeline, for every number of hosts, partitions,  *)
(* alerts, retries, lives and faults.  When the producer's queue is full   *)
(* does not matter to any of them, so QueueIsFull stays closed.            *)
(***************************************************************************)
EXTENDS AlertPipeline, KafkaProducerProofs
-----------------------------------------------------------------------------
(* Types                                                                   *)

(* rows is a sequence, so its domain is an interval.                       *)
LEMMA RowsDomain ==
    ASSUME TypeOK
    PROVE  /\ Len(rows) \in Nat
           /\ DOMAIN rows = 1..Len(rows)
           /\ DOMAIN status = DOMAIN rows
BY LenProperties DEF TypeOK

(* Before anything has happened there is nothing to have a type.           *)
LEMMA TypeInit == Init => TypeOK
<1> SUFFICES ASSUME Init PROVE TypeOK
  OBVIOUS
<1> USE DEF Init, SourceInit, ProducerInit
<1>1. /\ rows \in Seq(Hosts) /\ status \in Seq(Statuses)
      /\ produced \in Seq(DOMAIN rows) /\ agent_runs \in Seq(Run)
      /\ Len(rows) = 0 /\ Len(status) = 0
  BY EmptySeq
<1>2. /\ queue \in [TopicPartitions -> Seq(DOMAIN rows)]
      /\ topic \in [TopicPartitions -> Seq(DOMAIN rows)]
  BY EmptySeq
<1>3. /\ retries \in 0..MaxRetries /\ expired \in 0..MaxExpired
      /\ detector_life \in 1..MaxDetectorLives /\ agent_life \in 1..MaxAgentLives
      /\ rejoins \in 0..MaxRejoins /\ faults \in 0..MaxFaults
  BY ProducerAssumption, PipelineBoundsAssumption
<1> QED  BY <1>1, <1>2, <1>3 DEF TypeOK, Outcomes

(* A new row: everything that names rows still does.                       *)
LEMMA RaiseAlertType == TypeOK /\ RaiseAlert => TypeOK'
<1> SUFFICES ASSUME TypeOK, RaiseAlert PROVE TypeOK'
  OBVIOUS
<1>1. PICK h \in Hosts : InsertRow(h)
  BY DEF RaiseAlert
<1>2. /\ rows' \in Seq(Hosts)
      /\ Len(rows') = Len(rows) + 1
      /\ rows' # <<>>
  <2>1. rows' = Append(rows, h)
    BY <1>1 DEF InsertRow
  <2>2. rows \in Seq(Hosts)
    BY DEF TypeOK
  <2> QED  BY <2>1, <2>2, AppendProperties
<1>3. Len(rows) \in Nat /\ Len(rows') \in Nat
  BY <1>2, RowsDomain
<1>4. DOMAIN rows = 1..Len(rows) /\ DOMAIN rows' = 1..Len(rows')
  BY <1>2, RowsDomain, LenProperties
<1>5. DOMAIN rows \subseteq DOMAIN rows'
  BY <1>2, <1>3, <1>4
<1>6. \A s \in Seq(DOMAIN rows) : s \in Seq(DOMAIN rows')
  BY <1>5, SeqMonotonic
<1>7. status' \in Seq(Statuses) /\ Len(status') = Len(rows')
  <2>1. "new" \in Statuses
    BY DEF Statuses
  <2> QED  BY <1>2, <2>1, AppendProperties DEF RaiseAlert, TypeOK
<1>8. pending' \in {0, Len(rows')}
  BY <1>1, <1>2 DEF InsertRow
<1>9. produced' \in Seq(DOMAIN rows')
  BY <1>1, <1>6 DEF InsertRow, TypeOK
<1>10. /\ queue' \in [TopicPartitions -> Seq(DOMAIN rows')]
       /\ topic' \in [TopicPartitions -> Seq(DOMAIN rows')]
  BY <1>6 DEF RaiseAlert, producer_vars, TypeOK
<1>11. IF pc' = "poll" THEN alert' = NoAlert ELSE alert' \in DOMAIN rows'
  BY <1>5 DEF RaiseAlert, agent_vars, TypeOK
<1> QED
  BY <1>2, <1>7, <1>8, <1>9, <1>10, <1>11
  DEF RaiseAlert, producer_vars, agent_vars, consumer_vars, TypeOK

(* What the client is given, sends, retries and gives up are rows.         *)
LEMMA TransportType ==
    ASSUME TypeOK,
           \/ ProduceAlert
           \/ \E p \in TopicPartitions : Send(p) \/ SendFails(p)
    PROVE  TypeOK'
<1> DEFINE S == DOMAIN rows
<1> USE DEF TypeOK, agent_vars, consumer_vars
<1>1. CASE ProduceAlert
  <2>1. pending \in S /\ rows[pending] \in Hosts
    <3>1. pending # 0 /\ pending = Len(rows)
      BY <1>1 DEF ProduceAlert, Publish
    <3> QED  BY <3>1, RowsDomain, ElementOfSeq
  <2>2. AlertPartitionOf[rows[pending]] \in TopicPartitions
    BY <2>1, AlertPartitionAssumption
  <2>3. queue' \in [TopicPartitions -> Seq(S)]
    <3>1. queue' = [queue EXCEPT ![AlertPartitionOf[rows[pending]]] = Append(@, pending)]
      BY <1>1 DEF ProduceAlert, Enqueue
    <3>2. queue \in [TopicPartitions -> Seq(S)]
      OBVIOUS
    <3> HIDE DEF TypeOK, agent_vars, consumer_vars
    <3> QED  BY <2>1, <2>2, <3>1, <3>2, AppendAt
  <2>4. produced' \in Seq(S)
    BY <1>1, <2>1, AppendProperties DEF ProduceAlert, Publish
  <2> QED  BY <1>1, <2>3, <2>4 DEF ProduceAlert, Publish, Enqueue
<1>2. ASSUME NEW p \in TopicPartitions, Send(p)
      PROVE  TypeOK'
  <2>1. queue[p] # <<>>
    BY <1>2 DEF Send, Deliver
  <2>2. queue' \in [TopicPartitions -> Seq(S)] /\ Head(queue[p]) \in S
    <3>1. queue' = [queue EXCEPT ![p] = Tail(@)]
      BY <1>2 DEF Send, Deliver
    <3>2. queue \in [TopicPartitions -> Seq(S)]
      OBVIOUS
    <3> HIDE DEF TypeOK, agent_vars, consumer_vars
    <3> QED  BY <1>2, <2>1, <3>1, <3>2, TailAt
  <2>3. topic' \in [TopicPartitions -> Seq(S)]
    <3>1. topic' = [topic EXCEPT ![p] = Append(@, Head(queue[p]))]
      BY <1>2 DEF Send, Deliver
    <3>2. topic \in [TopicPartitions -> Seq(S)]
      OBVIOUS
    <3> HIDE DEF TypeOK, agent_vars, consumer_vars
    <3> QED  BY <1>2, <2>2, <3>1, <3>2, AppendAt
  <2> QED  BY <1>2, <2>2, <2>3 DEF Send, Deliver, source_vars
<1>3. ASSUME NEW p \in TopicPartitions, SendFails(p), Retry(p)
      PROVE  TypeOK'
  <2>1. queue[p] # <<>>
    BY <1>3 DEF Retry
  <2>2. queue' \in [TopicPartitions -> Seq(S)]
    BY <1>3, <2>1, RotateAt DEF Retry
  <2>3. Head(queue[p]) \in S
    BY <2>1, HeadTailProperties
  <2>4. topic' \in [TopicPartitions -> Seq(S)]
    <3>1. CASE topic' = [topic EXCEPT ![p] = Append(@, Head(queue[p]))]
      BY <2>3, <3>1, AppendAt
    <3>2. CASE UNCHANGED topic
      BY <3>2
    <3> QED  BY <1>3, <3>1, <3>2 DEF Retry
  <2>5. retries' \in 0..MaxRetries
    BY <1>3, ProducerAssumption DEF Retry
  <2> QED  BY <1>3, <2>2, <2>4, <2>5 DEF SendFails, Retry, source_vars
<1>4. ASSUME NEW p \in TopicPartitions, SendFails(p), Expire(p)
      PROVE  TypeOK'
  <2>1. queue[p] # <<>>
    BY <1>4 DEF Expire
  <2>2. queue' \in [TopicPartitions -> Seq(S)]
    BY <1>4, <2>1, TailAt DEF Expire
  <2>3. expired' \in 0..MaxExpired
    BY <1>4, ProducerAssumption DEF Expire
  <2> QED  BY <1>4, <2>2, <2>3 DEF SendFails, Expire, source_vars
<1> QED  BY <1>1, <1>2, <1>3, <1>4 DEF SendFails

(* The steps that end or restart the detector.                             *)
LEMMA DetectorEndsType == TypeOK /\ (AbandonAlert \/ DetectorCrash) => TypeOK'
<1> SUFFICES ASSUME TypeOK, AbandonAlert \/ DetectorCrash PROVE TypeOK'
  OBVIOUS
<1> USE DEF TypeOK, agent_vars, consumer_vars
<1>1. CASE AbandonAlert
  BY <1>1 DEF AbandonAlert, Abandon, producer_vars
<1>2. CASE DetectorCrash
  <2>1. queue' \in [TopicPartitions -> Seq(DOMAIN rows)]
    BY <1>2, EmptySeq DEF DetectorCrash, LoseQueue
  <2>2. detector_life' \in 1..MaxDetectorLives
    BY <1>2, PipelineBoundsAssumption DEF DetectorCrash
  <2> QED  BY <1>2, <2>1, <2>2 DEF DetectorCrash, LoseQueue
<1> QED  BY <1>1, <1>2
(* The handler runs on one of the rows, and writes the columns' values.    *)
LEMMA HandlerType ==
    TypeOK /\ (MarkInvestigating \/ Investigate \/ PersistRun \/ FinishAlert \/ HandlerFails)
        => TypeOK'
<1> SUFFICES ASSUME TypeOK,
                    MarkInvestigating \/ Investigate \/ PersistRun \/ FinishAlert \/ HandlerFails
             PROVE  TypeOK'
  OBVIOUS
<1> USE DEF TypeOK, detector_vars, source_vars, producer_vars, consumer_vars
<1>1. ASSUME Raise PROVE faults' \in 0..MaxFaults /\ pc' = "poll" /\ alert' = NoAlert
  BY <1>1, PipelineBoundsAssumption DEF Raise, Return
<1>2. ASSUME pc # "poll", NEW new \in Statuses, Update(new)
      PROVE  status' \in Seq(Statuses) /\ Len(status') = Len(rows)
  <2>1. alert \in 1..Len(status)
    BY <1>2, RowsDomain
  <2> QED  BY <1>2, <2>1, ExceptSeq DEF Update
<1>3. TakenStatus \in Statuses /\ FinalStatus \in Statuses
  BY DEF TakenStatus, FinalStatus, Statuses
<1>4. CASE MarkInvestigating
  <2>1. status' \in Seq(Statuses) /\ Len(status') = Len(rows)
    BY <1>2, <1>3, <1>4 DEF MarkInvestigating
  <2>2. CASE pc' = "investigate" /\ UNCHANGED <<alert, faults>>
    BY <1>4, <2>1, <2>2 DEF MarkInvestigating
  <2>3. CASE Raise
    BY <1>1, <1>4, <2>1, <2>3 DEF MarkInvestigating
  <2> QED  BY <1>4, <2>2, <2>3 DEF MarkInvestigating
<1>5. CASE Investigate
  BY <1>5 DEF Investigate, Catch
<1>6. CASE PersistRun
  <2> DEFINE run == [alert |-> alert, status |-> outcome, life |-> agent_life]
  <2>1. run \in Run
    <3>1. alert \in Nat /\ agent_life \in Nat
      BY <1>6, RowsDomain, PipelineBoundsAssumption DEF PersistRun
    <3> QED  BY <3>1 DEF Run
  <2>2. agent_runs' = Append(agent_runs, run)
    BY <1>6 DEF PersistRun
  <2>3. agent_runs' \in Seq(Run)
    <3> HIDE DEF run
    <3> QED  BY <2>1, <2>2, AppendProperties
  <2>4. CASE pc' = "finish" /\ UNCHANGED <<alert, faults>>
    BY <1>6, <2>3, <2>4 DEF PersistRun
  <2>5. CASE Raise
    BY <1>1, <1>6, <2>3, <2>5 DEF PersistRun
  <2> QED  BY <1>6, <2>4, <2>5 DEF PersistRun
<1>7. CASE FinishAlert
  <2>1. status' \in Seq(Statuses) /\ Len(status') = Len(rows)
    BY <1>2, <1>3, <1>7 DEF FinishAlert
  <2> QED  BY <1>7, <2>1 DEF FinishAlert, Return
<1>8. CASE HandlerFails
  BY <1>1, <1>8 DEF HandlerFails
<1> QED  BY <1>4, <1>5, <1>6, <1>7, <1>8

(* A poll moves one position by one, onto the row it hands to the handler. *)
LEMMA PollEffect ==
    ASSUME TypeOK, NEW p \in TopicPartitions, Poll(p)
    PROVE  /\ Len(topic[p]) \in Nat /\ position[p] \in Nat
           /\ position[p] < Len(topic[p])
           /\ position' \in [TopicPartitions -> Nat]
           /\ position'[p] = position[p] + 1
           /\ \A q \in TopicPartitions \ {p} : position'[q] = position[q]
           /\ alert' = topic[p][position'[p]]
           /\ alert' \in DOMAIN rows
<1>1. /\ topic[p] \in Seq(DOMAIN rows)
      /\ position \in [TopicPartitions -> Nat]
  BY DEF TypeOK
<1>2. Len(topic[p]) \in Nat /\ position[p] \in Nat
  BY <1>1, LenProperties
<1>3. /\ position[p] < Len(topic[p])
      /\ position' = [position EXCEPT ![p] = position[p] + 1]
      /\ alert' = topic[p][position[p] + 1]
  BY DEF Poll, Advance
<1>4. position[p] + 1 \in 1..Len(topic[p])
  BY <1>2, <1>3
<1>5. alert' \in DOMAIN rows
  BY <1>1, <1>3, <1>4, ElementOfSeq
<1>6. position' \in [TopicPartitions -> Nat]
  BY <1>1, <1>2, <1>3
<1> QED  BY <1>1, <1>2, <1>3, <1>5, <1>6

(* Positions and committed offsets are numbers, whoever resumes.           *)
LEMMA ConsumerType ==
    ASSUME TypeOK,
           \/ \E p \in TopicPartitions : Poll(p)
           \/ CommitOffsets \/ AgentCrash \/ Rejoin
    PROVE  TypeOK'
<1> USE DEF TypeOK, detector_vars, source_vars, producer_vars
<1>1. ASSUME NEW p \in TopicPartitions, Poll(p)
      PROVE  TypeOK'
  <2>1. position' \in [TopicPartitions -> Nat] /\ alert' \in DOMAIN rows
    BY <1>1, PollEffect
  <2> QED  BY <1>1, <2>1 DEF Poll
<1>2. CASE CommitOffsets
  BY <1>2 DEF CommitOffsets
<1>3. CASE AgentCrash
  BY <1>3, PipelineBoundsAssumption DEF AgentCrash, ResumeOffsets, Return
<1>4. CASE Rejoin
  BY <1>4, PipelineBoundsAssumption DEF Rejoin, ResumeOffsets
<1> QED  BY <1>1, <1>2, <1>3, <1>4

(* Every step keeps the types.                                             *)
LEMMA TypeStep == TypeOK /\ [Next]_vars => TypeOK'
<1> SUFFICES ASSUME TypeOK, [Next]_vars PROVE TypeOK'
  OBVIOUS
<1>1. CASE Source
  BY <1>1, RaiseAlertType, TransportType, DetectorEndsType DEF Source
<1>2. CASE Transport \/ DetectorCrash
  BY <1>2, TransportType, DetectorEndsType DEF Transport
<1>3. CASE Agent \/ HandlerFails
  BY <1>3, ConsumerType, HandlerType DEF Agent, Handle
<1>4. CASE CommitOffsets \/ AgentCrash \/ Rejoin
  BY <1>4, ConsumerType
<1>5. CASE UNCHANGED vars
  BY <1>5 DEF TypeOK, vars, detector_vars, source_vars, producer_vars, agent_vars, consumer_vars
<1> QED  BY <1>1, <1>2, <1>3, <1>4, <1>5 DEF Next

(* The variables of the pipeline keep their types: whatever is in a queue, *)
(* in a topic or under investigation is a row of `alerts', and the agent   *)
(* holds an alert exactly while its handler runs.                          *)
THEOREM TypeCorrect == Spec => []TypeOK
<1>1. Init => TypeOK
  BY TypeInit
<1>2. TypeOK /\ [Next]_vars => TypeOK'
  BY TypeStep
<1> QED  BY <1>1, <1>2, PTL DEF Spec
-----------------------------------------------------------------------------
(* What alerts.status and agent_runs say of each other                     *)

(* While the handler is past its first update the row says so, ...         *)
UnderInvestigation ==
    pc \in {"investigate", "persist", "finish"} => status[alert] = "investigating"

(* ... and before its last one the newest run is the one it has written.   *)
RunRecorded ==
    pc = "finish" =>
        \E i \in DOMAIN agent_runs :
            IsNewestRun(i, alert) /\ agent_runs[i].status = outcome

(* The inductive invariant behind StatusTellsNewestRun and the refinement  *)
(* of AlertLifecycle: what is in the tables alone does not tell what the   *)
(* handler is about to write over it.                                      *)
StatusInv == TypeOK /\ UnderInvestigation /\ RunRecorded /\ StatusTellsNewestRun

(* A step that leaves both tables alone, and the handler too or out of its *)
(* protected part, keeps what they say of each other.                      *)
LEMMA TablesAlone ==
    ASSUME StatusInv, TypeOK',
           UNCHANGED <<status, agent_runs>>,
           \/ UNCHANGED <<pc, alert, outcome>>
           \/ pc' \in {"poll", "mark"}
           \/ pc = "investigate" /\ pc' = "persist" /\ UNCHANGED alert
    PROVE  StatusInv'
<1>1. UnderInvestigation'
  BY DEF StatusInv, UnderInvestigation
<1>2. RunRecorded'
  BY DEF StatusInv, RunRecorded, IsNewestRun
<1>3. StatusTellsNewestRun'
  BY DEF StatusInv, StatusTellsNewestRun, IsNewestRun
<1> QED  BY <1>1, <1>2, <1>3 DEF StatusInv

(* An update of the status of the alert under investigation.               *)
LEMMA UpdateEffect ==
    ASSUME TypeOK, pc # "poll", NEW new, Update(new)
    PROVE  /\ alert \in DOMAIN status
           /\ DOMAIN status' = DOMAIN status
           /\ status'[alert] = new
           /\ \A a \in DOMAIN status : a # alert => status'[a] = status[a]
<1>1. alert \in DOMAIN status
  BY RowsDomain DEF TypeOK
<1> QED  BY <1>1 DEF Update

(* A run is inserted behind those that are there.                          *)
LEMMA PersistEffect ==
    ASSUME TypeOK, PersistRun
    PROVE  LET n == Len(agent_runs)
           IN  /\ n \in Nat
               /\ DOMAIN agent_runs = 1..n
               /\ DOMAIN agent_runs' = 1..(n + 1)
               /\ \A i \in 1..n : agent_runs'[i] = agent_runs[i]
               /\ agent_runs'[n + 1] = [alert |-> alert, status |-> outcome, life |-> agent_life]
<1> DEFINE n   == Len(agent_runs)
           run == [alert |-> alert, status |-> outcome, life |-> agent_life]
<1>1. agent_runs' = Append(agent_runs, run)
  BY DEF PersistRun
<1>2. agent_runs \in Seq(Run)
  BY DEF TypeOK
<1>3. run \in Run
  <2>1. alert \in Nat /\ agent_life \in Nat /\ outcome \in Outcomes
    BY RowsDomain, PipelineBoundsAssumption DEF PersistRun, TypeOK
  <2> QED  BY <2>1 DEF Run
<1>4. n \in Nat /\ DOMAIN agent_runs = 1..n
  BY <1>2, LenProperties
<1> HIDE DEF run
<1>5. /\ agent_runs' \in Seq(Run)
      /\ Len(agent_runs') = n + 1
      /\ \A i \in 1..n : agent_runs'[i] = agent_runs[i]
      /\ agent_runs'[n + 1] = run
  BY <1>1, <1>2, <1>3, AppendProperties
<1>6. DOMAIN agent_runs' = 1..(n + 1)
  BY <1>5, LenProperties
<1> QED  BY <1>4, <1>5, <1>6 DEF run

(* A new run is the newest of its alert, and the newest runs of the other  *)
(* alerts stay the newest.                                                 *)
LEMMA NewestAfterPersist ==
    ASSUME TypeOK, PersistRun, NEW n, n = Len(agent_runs), NEW a
    PROVE  /\ n + 1 \in DOMAIN agent_runs'
           /\ agent_runs'[n + 1].status = outcome
           /\ a = alert => IsNewestRun(n + 1, a)'
           /\ a # alert =>
                 \A i \in DOMAIN agent_runs :
                    IsNewestRun(i, a) =>
                        /\ i \in DOMAIN agent_runs'
                        /\ IsNewestRun(i, a)'
                        /\ agent_runs'[i] = agent_runs[i]
<1>1. /\ n \in Nat
      /\ DOMAIN agent_runs = 1..n
      /\ DOMAIN agent_runs' = 1..(n + 1)
      /\ \A i \in 1..n : agent_runs'[i] = agent_runs[i]
      /\ agent_runs'[n + 1].alert = alert
      /\ agent_runs'[n + 1].status = outcome
  BY PersistEffect
<1>2. n + 1 \in DOMAIN agent_runs'
  BY <1>1
<1>3. a = alert => IsNewestRun(n + 1, a)'
  BY <1>1 DEF IsNewestRun
<1>4. ASSUME a # alert, NEW i \in DOMAIN agent_runs, IsNewestRun(i, a)
      PROVE  /\ i \in DOMAIN agent_runs'
             /\ IsNewestRun(i, a)'
             /\ agent_runs'[i] = agent_runs[i]
  <2>1. i \in 1..n /\ i \in DOMAIN agent_runs' /\ agent_runs'[i] = agent_runs[i]
    BY <1>1, <1>4
  <2>2. ASSUME NEW j \in DOMAIN agent_runs', agent_runs'[j].alert = a
        PROVE  j <= i
    <3>1. j # n + 1
      BY <1>1, <1>4, <2>2
    <3>2. j \in 1..n
      BY <1>1, <3>1
    <3> QED  BY <1>1, <1>4, <2>2, <3>2 DEF IsNewestRun
  <2> QED  BY <1>4, <2>1, <2>2 DEF IsNewestRun
<1> QED  BY <1>1, <1>2, <1>3, <1>4

(* Every step keeps what the tables and the handler say of each other.     *)
LEMMA StatusStep == StatusInv /\ TypeOK' /\ [Next]_vars => StatusInv'
<1> SUFFICES ASSUME StatusInv, TypeOK', [Next]_vars PROVE StatusInv'
  OBVIOUS
<1>0. TypeOK
  BY DEF StatusInv
<1>1. CASE RaiseAlert
  <2>1. /\ DOMAIN status = 1..Len(status)
        /\ DOMAIN status' = 1..(Len(status) + 1)
        /\ Len(status) \in Nat
        /\ \A a \in DOMAIN status : status'[a] = status[a]
        /\ status'[Len(status) + 1] = "new"
    <3>1. status \in Seq(Statuses) /\ "new" \in Statuses
      BY <1>0 DEF TypeOK, Statuses
    <3>2. status' = Append(status, "new")
      BY <1>1 DEF RaiseAlert
    <3> QED  BY <3>1, <3>2, AppendProperties, LenProperties
  <2>2. UNCHANGED <<pc, alert, outcome, agent_runs>>
    BY <1>1 DEF RaiseAlert, agent_vars
  <2>3. UnderInvestigation'
    <3>1. pc # "poll" => alert \in DOMAIN status
      BY <1>0, RowsDomain DEF TypeOK
    <3> QED  BY <2>1, <2>2, <3>1 DEF StatusInv, UnderInvestigation
  <2>4. RunRecorded'
    BY <2>2 DEF StatusInv, RunRecorded, IsNewestRun
  <2>5. StatusTellsNewestRun'
    <3> SUFFICES ASSUME NEW a \in DOMAIN status', status'[a] \in Settled
                 PROVE  \E i \in DOMAIN agent_runs :
                            /\ IsNewestRun(i, a)
                            /\ status'[a] = IF agent_runs[i].status = "completed"
                                            THEN "diagnosed" ELSE "error"
      BY <2>2 DEF StatusTellsNewestRun, IsNewestRun
    <3>1. a \in DOMAIN status /\ status'[a] = status[a]
      BY <2>1 DEF Settled
    <3> QED  BY <3>1 DEF StatusInv, StatusTellsNewestRun
  <2> QED  BY <2>3, <2>4, <2>5 DEF StatusInv
<1>2. CASE MarkInvestigating
  <2>1. pc # "poll" /\ Update("investigating") /\ UNCHANGED <<outcome, agent_runs>>
    BY <1>2 DEF MarkInvestigating, TakenStatus
  <2>2. /\ alert \in DOMAIN status
        /\ DOMAIN status' = DOMAIN status
        /\ status'[alert] = "investigating"
        /\ \A a \in DOMAIN status : a # alert => status'[a] = status[a]
    BY <1>0, <2>1, UpdateEffect
  <2>3. (pc' = "investigate" /\ UNCHANGED alert) \/ pc' = "poll"
    BY <1>2 DEF MarkInvestigating, Raise, Return
  <2>4. UnderInvestigation' /\ RunRecorded'
    BY <2>2, <2>3 DEF UnderInvestigation, RunRecorded
  <2>5. StatusTellsNewestRun'
    BY <2>1, <2>2 DEF StatusInv, StatusTellsNewestRun, IsNewestRun, Settled
  <2> QED  BY <2>4, <2>5 DEF StatusInv
<1>3. CASE Investigate
  BY <1>3, TablesAlone DEF Investigate, Catch
<1>4. CASE PersistRun
  <2>1. /\ pc = "persist"
        /\ UNCHANGED <<outcome, status>>
        /\ (pc' = "finish" /\ UNCHANGED alert) \/ pc' = "poll"
    BY <1>4 DEF PersistRun, Raise, Return
  <2>2. UnderInvestigation'
    BY <2>1 DEF StatusInv, UnderInvestigation
  <2>3. RunRecorded'
    <3> SUFFICES ASSUME pc' = "finish"
                 PROVE  \E i \in DOMAIN agent_runs' :
                            IsNewestRun(i, alert)' /\ agent_runs'[i].status = outcome'
      BY DEF RunRecorded
    <3>1. PICK a, n : a = alert /\ n = Len(agent_runs)
      OBVIOUS
    <3>2. /\ n + 1 \in DOMAIN agent_runs'
          /\ agent_runs'[n + 1].status = outcome
          /\ IsNewestRun(n + 1, a)'
      BY <1>0, <1>4, <3>1, NewestAfterPersist
    <3>3. alert' = a
      BY <2>1, <3>1
    <3> QED  BY <2>1, <3>2, <3>3 DEF IsNewestRun
  <2>4. StatusTellsNewestRun'
    <3> SUFFICES ASSUME NEW a \in DOMAIN status, status[a] \in Settled
                 PROVE  \E i \in DOMAIN agent_runs' :
                            /\ IsNewestRun(i, a)'
                            /\ status[a] = IF agent_runs'[i].status = "completed"
                                           THEN "diagnosed" ELSE "error"
      BY <2>1 DEF StatusTellsNewestRun
    <3>1. a # alert
      BY <2>1 DEF StatusInv, UnderInvestigation, Settled
    <3>2. PICK i \in DOMAIN agent_runs :
            /\ IsNewestRun(i, a)
            /\ status[a] = IF agent_runs[i].status = "completed" THEN "diagnosed" ELSE "error"
      BY DEF StatusInv, StatusTellsNewestRun
    <3>3. i \in DOMAIN agent_runs' /\ IsNewestRun(i, a)' /\ agent_runs'[i] = agent_runs[i]
      BY <1>0, <1>4, <3>1, <3>2, NewestAfterPersist
    <3> QED  BY <3>2, <3>3
  <2> QED  BY <2>2, <2>3, <2>4 DEF StatusInv
<1>5. CASE FinishAlert
  <2>1. /\ pc = "finish" /\ pc' = "poll"
        /\ Update(FinalStatus)
        /\ UNCHANGED <<outcome, agent_runs>>
    BY <1>5 DEF FinishAlert, Return
  <2>2. /\ alert \in DOMAIN status
        /\ DOMAIN status' = DOMAIN status
        /\ status'[alert] = FinalStatus
        /\ \A a \in DOMAIN status : a # alert => status'[a] = status[a]
    BY <1>0, <2>1, UpdateEffect
  <2>3. UnderInvestigation' /\ RunRecorded'
    BY <2>1 DEF UnderInvestigation, RunRecorded
  <2>4. StatusTellsNewestRun'
    <3> SUFFICES ASSUME NEW a \in DOMAIN status, status'[a] \in Settled
                 PROVE  \E i \in DOMAIN agent_runs :
                            /\ IsNewestRun(i, a)
                            /\ status'[a] = IF agent_runs[i].status = "completed"
                                            THEN "diagnosed" ELSE "error"
      BY <2>1, <2>2 DEF StatusTellsNewestRun, IsNewestRun
    <3>1. CASE a = alert
      BY <2>1, <2>2, <3>1 DEF StatusInv, RunRecorded, FinalStatus
    <3>2. CASE a # alert
      BY <2>2, <3>2 DEF StatusInv, StatusTellsNewestRun
    <3> QED  BY <3>1, <3>2
  <2> QED  BY <2>3, <2>4 DEF StatusInv
<1>6. CASE \/ ProduceAlert \/ AbandonAlert \/ DetectorCrash
           \/ \E p \in TopicPartitions : Send(p) \/ SendFails(p)
  BY <1>6, TablesAlone
  DEF ProduceAlert, AbandonAlert, DetectorCrash, Send, SendFails, agent_vars
<1>7. CASE \/ HandlerFails \/ AgentCrash \/ Rejoin
           \/ \E p \in TopicPartitions : Poll(p)
  BY <1>7, TablesAlone DEF HandlerFails, AgentCrash, Rejoin, Poll, Raise, Return
<1>8. CASE CommitOffsets \/ UNCHANGED vars
  BY <1>8, TablesAlone DEF CommitOffsets, vars, agent_vars
<1> QED
  BY <1>1, <1>2, <1>3, <1>4, <1>5, <1>6, <1>7, <1>8
  DEF Next, Source, Transport, Agent, Handle

(* A settled alert always shows the outcome of its newest run, whatever is *)
(* delivered twice, raises or crashes between the handler's transactions.  *)
THEOREM StatusIsTold == Spec => []StatusTellsNewestRun
<1>1. Init => StatusInv
  BY TypeInit
  DEF Init, StatusInv, UnderInvestigation, RunRecorded, StatusTellsNewestRun
<1>2. StatusInv /\ TypeOK' /\ [Next]_vars => StatusInv'
  BY StatusStep
<1>3. StatusInv => StatusTellsNewestRun
  BY DEF StatusInv
<1> QED  BY <1>1, <1>2, <1>3, TypeCorrect, PTL DEF Spec
-----------------------------------------------------------------------------
(* The two abstract specifications the pipeline implements                 *)

(* What the tables show of the runs, and how a run appears there.          *)
LEMMA RecordedRun ==
    ASSUME TypeOK, PersistRun
    PROVE  [i \in DOMAIN agent_runs' |->
                [alert |-> agent_runs'[i].alert, status |-> agent_runs'[i].status]]
           = Append([i \in DOMAIN agent_runs |->
                        [alert |-> agent_runs[i].alert, status |-> agent_runs[i].status]],
                    [alert |-> alert, status |-> outcome])
<1> DEFINE n      == Len(agent_runs)
           Shown  == [alert : Nat, status : Outcomes]
           before == [i \in DOMAIN agent_runs |->
                        [alert |-> agent_runs[i].alert, status |-> agent_runs[i].status]]
           after  == [i \in DOMAIN agent_runs' |->
                        [alert |-> agent_runs'[i].alert, status |-> agent_runs'[i].status]]
           new    == [alert |-> alert, status |-> outcome]
<1>1. /\ n \in Nat
      /\ DOMAIN agent_runs = 1..n
      /\ DOMAIN agent_runs' = 1..(n + 1)
      /\ \A i \in 1..n : agent_runs'[i] = agent_runs[i]
      /\ agent_runs'[n + 1].alert = alert
      /\ agent_runs'[n + 1].status = outcome
  BY PersistEffect
<1>2. new \in Shown
  BY RowsDomain DEF PersistRun, TypeOK
<1>3. \A i \in 1..n : agent_runs[i] \in Run
  BY <1>1, ElementOfSeq DEF TypeOK
<1> HIDE DEF n
<1>4. before \in [1..n -> Shown]
  BY <1>1, <1>3 DEF Run
<1>5. before \in Seq(Shown) /\ Len(before) = n
  <2> HIDE DEF before, Shown
  <2> QED  BY <1>1, <1>4
<1>6. after \in [1..(n + 1) -> Shown]
  <2>1. \A i \in 1..(n + 1) : after[i] = IF i = n + 1 THEN new ELSE before[i]
    BY <1>1
  <2>2. DOMAIN after = 1..(n + 1) /\ after = [i \in 1..(n + 1) |-> after[i]]
    BY <1>1
  <2>3. \A i \in 1..(n + 1) : after[i] \in Shown
    <3> HIDE DEF after, before, Shown, new
    <3> QED  BY <1>1, <1>2, <1>4, <2>1
  <2> HIDE DEF after, before, Shown, new
  <2> QED  BY <2>2, <2>3
<1>7. after \in Seq(Shown) /\ Len(after) = n + 1
  <2> HIDE DEF after, Shown
  <2> QED  BY <1>1, <1>6
<1>8. \A i \in 1..n : after[i] = before[i]
  BY <1>1
<1>9. after[n + 1] = new
  BY <1>1
<1> HIDE DEF before, after, new, Shown
<1>10. /\ Append(before, new) \in Seq(Shown)
       /\ Len(Append(before, new)) = n + 1
       /\ \A i \in 1..n : Append(before, new)[i] = before[i]
       /\ Append(before, new)[n + 1] = new
  BY <1>2, <1>5, AppendProperties
<1>11. \A i \in 1..(n + 1) : after[i] = Append(before, new)[i]
  BY <1>1, <1>8, <1>9, <1>10
<1>12. after = Append(before, new)
  BY <1>7, <1>10, <1>11, SeqEqual
<1> QED  BY <1>12 DEF before, after, new

(* Every step shows in the tables as a step of AlertLifecycle, or not.     *)
LEMMA LifecycleStep ==
    StatusInv /\ [Next]_vars => [Lifecycle!LifecycleNext]_(Lifecycle!lifecycle_vars)
<1> SUFFICES ASSUME StatusInv, [Next]_vars
             PROVE  Lifecycle!LifecycleNext \/ UNCHANGED Lifecycle!lifecycle_vars
  OBVIOUS
<1>1. TypeOK
  BY DEF StatusInv
<1>2. ASSUME pc # "poll" PROVE alert \in DOMAIN status
  BY <1>1, <1>2, RowsDomain DEF TypeOK
<1>3. CASE UNCHANGED <<status, agent_runs>>
  BY <1>3 DEF Lifecycle!lifecycle_vars
<1>4. CASE RaiseAlert
  <2>1. status' = Append(status, "new") /\ UNCHANGED agent_runs
    BY <1>4 DEF RaiseAlert, agent_vars
  <2> QED  BY <2>1 DEF Lifecycle!LifecycleNext, Lifecycle!Raised
<1>5. CASE MarkInvestigating
  <2>1. /\ alert \in DOMAIN status
        /\ status' = [status EXCEPT ![alert] = "investigating"]
        /\ UNCHANGED agent_runs
    BY <1>2, <1>5 DEF MarkInvestigating, Update, TakenStatus
  <2>2. Lifecycle!Taken(alert)
    BY <2>1 DEF Lifecycle!Taken
  <2> QED  BY <2>1, <2>2 DEF Lifecycle!LifecycleNext
<1>6. CASE PersistRun
  <2>1. alert \in DOMAIN status /\ UNCHANGED status /\ outcome \in {"completed", "failed"}
    BY <1>1, <1>2, <1>6 DEF PersistRun, TypeOK, Outcomes
  <2>2. status[alert] = "investigating"
    BY <1>6 DEF StatusInv, UnderInvestigation, PersistRun
  <2>3. PICK a \in DOMAIN status : a = alert
    BY <2>1
  <2>4. Lifecycle!Recorded(a)
    BY <1>1, <1>6, <2>1, <2>2, <2>3, RecordedRun DEF Lifecycle!Recorded
  <2> QED  BY <2>4 DEF Lifecycle!LifecycleNext
<1>7. CASE FinishAlert
  <2>1. /\ pc = "finish"
        /\ alert \in DOMAIN status
        /\ status' = [status EXCEPT ![alert] = FinalStatus]
        /\ UNCHANGED agent_runs
    BY <1>2, <1>7 DEF FinishAlert, Update
  <2>2. status[alert] = "investigating"
    BY <2>1 DEF StatusInv, UnderInvestigation
  <2>3. PICK i \in DOMAIN agent_runs : IsNewestRun(i, alert) /\ agent_runs[i].status = outcome
    BY <2>1 DEF StatusInv, RunRecorded
  <2>4. Lifecycle!IsNewestRunOf(i, alert)
    BY <2>3 DEF Lifecycle!IsNewestRunOf, IsNewestRun
  <2>5. Lifecycle!Settled(alert)
    BY <2>1, <2>2, <2>3, <2>4 DEF Lifecycle!Settled, Lifecycle!Verdict, FinalStatus
  <2> QED  BY <2>1, <2>5 DEF Lifecycle!LifecycleNext
<1>8. CASE ~(RaiseAlert \/ MarkInvestigating \/ PersistRun \/ FinishAlert)
  <2>1. UNCHANGED <<status, agent_runs>>
    BY <1>8
    DEF Next, Source, Transport, Agent, Handle, ProduceAlert, AbandonAlert, Send, SendFails,
        DetectorCrash, Poll, Investigate, HandlerFails, CommitOffsets, AgentCrash, Rejoin,
        vars, agent_vars
  <2> QED  BY <1>3, <2>1
<1> QED  BY <1>4, <1>5, <1>6, <1>7, <1>8

(* Whatever is delivered twice, raises or crashes, the tables show an alert*)
(* taken, recorded and settled in this order, and settled only with the    *)
(* verdict of its newest run.                                              *)
THEOREM PipelineImplementsLifecycle == Spec => ImplementsAlertLifecycle
<1>1. Init => Lifecycle!LifecycleInit
  BY DEF Init, Lifecycle!LifecycleInit
<1>2. Init => StatusInv
  BY TypeInit
  DEF Init, StatusInv, UnderInvestigation, RunRecorded, StatusTellsNewestRun
<1>3. StatusInv /\ TypeOK' /\ [Next]_vars => StatusInv'
  BY StatusStep
<1>4. StatusInv /\ [Next]_vars => [Lifecycle!LifecycleNext]_(Lifecycle!lifecycle_vars)
  BY LifecycleStep
<1> QED
  BY <1>1, <1>2, <1>3, <1>4, TypeCorrect, PTL
  DEF Spec, ImplementsAlertLifecycle, Lifecycle!LifecycleSpec

(* Composed with producer, topic and agent the detector is still an        *)
(* AlertSource: a crash looks like a row that was never published.         *)
THEOREM PipelineKeepsSource == Spec => SourceSpec
<1>1. Init => SourceInit
  BY DEF Init
<1>2. [Next]_vars => [SourceNext]_source_vars
  <2> SUFFICES ASSUME [Next]_vars PROVE SourceNext \/ UNCHANGED source_vars
    OBVIOUS
  <2>1. CASE Source
    BY <2>1 DEF Source, RaiseAlert, ProduceAlert, AbandonAlert, SourceNext
  <2>2. CASE DetectorCrash
    BY <2>2 DEF DetectorCrash, SourceNext, Abandon, source_vars
  <2>3. CASE ~Source /\ ~DetectorCrash
    BY <2>3
    DEF Next, Transport, Agent, Handle, Send, SendFails, Poll, MarkInvestigating, Investigate,
        PersistRun, FinishAlert, HandlerFails, CommitOffsets, AgentCrash, Rejoin, vars,
        detector_vars, source_vars
  <2> QED  BY <2>1, <2>2, <2>3
<1> QED  BY <1>1, <1>2, PTL DEF Spec, SourceSpec
-----------------------------------------------------------------------------
(* The logs, and where the agent stands in them                            *)

(* Transport appends at most one message to the log of its partition.      *)
LEMMA TransportEffect ==
    ASSUME TypeOK, NEW p \in TopicPartitions, Send(p) \/ SendFails(p)
    PROVE  \/ UNCHANGED topic
           \/ /\ topic' \in [TopicPartitions -> Seq(DOMAIN rows)]
              /\ \A q \in TopicPartitions \ {p} : topic'[q] = topic[q]
              /\ Len(topic'[p]) = Len(topic[p]) + 1
              /\ \A i \in 1..Len(topic[p]) : topic'[p][i] = topic[p][i]
              /\ topic'[p][Len(topic[p]) + 1] = queue[p][1]
<1>1. CASE UNCHANGED topic
  BY <1>1
<1>2. CASE queue[p] # <<>> /\ topic' = [topic EXCEPT ![p] = Append(@, Head(queue[p]))]
  <2>1. queue[p] \in Seq(DOMAIN rows) /\ topic \in [TopicPartitions -> Seq(DOMAIN rows)]
    BY DEF TypeOK
  <2>2. Head(queue[p]) \in DOMAIN rows /\ Head(queue[p]) = queue[p][1]
    BY <1>2, <2>1, HeadTailProperties
  <2> QED  BY <1>2, <2>1, <2>2, AppendAt
<1> QED  BY <1>1, <1>2 DEF Send, SendFails, Deliver, Retry, Expire

(* The agent has committed no more than it has read, and read no more than *)
(* there is.                                                               *)
OffsetsInLog ==
    \A p \in TopicPartitions :
        committed[p] <= position[p] /\ position[p] <= Len(topic[p])

LEMMA OffsetsStep == TypeOK /\ OffsetsInLog /\ [Next]_vars => OffsetsInLog'
<1> SUFFICES ASSUME TypeOK, OffsetsInLog, [Next]_vars PROVE OffsetsInLog'
  OBVIOUS
<1>1. \A p \in TopicPartitions :
        /\ committed[p] \in Nat /\ position[p] \in Nat /\ Len(topic[p]) \in Nat
        /\ committed[p] <= position[p] /\ position[p] <= Len(topic[p])
  BY LenProperties DEF TypeOK, OffsetsInLog
<1>2. ASSUME NEW p \in TopicPartitions, Send(p) \/ SendFails(p)
      PROVE  OffsetsInLog'
  <2>1. UNCHANGED <<position, committed>>
    BY <1>2 DEF Send, SendFails, agent_vars, consumer_vars
  <2>2. \A q \in TopicPartitions : Len(topic[q]) <= Len(topic'[q]) /\ Len(topic'[q]) \in Nat
    <3>1. CASE UNCHANGED topic
      BY <1>1, <3>1
    <3>2. CASE /\ \A q \in TopicPartitions \ {p} : topic'[q] = topic[q]
               /\ Len(topic'[p]) = Len(topic[p]) + 1
      BY <1>1, <3>2
    <3> QED  BY <1>2, <3>1, <3>2, TransportEffect
  <2> QED  BY <1>1, <2>1, <2>2 DEF OffsetsInLog
<1>3. ASSUME NEW p \in TopicPartitions, Poll(p)
      PROVE  OffsetsInLog'
  <2>1. UNCHANGED <<topic, committed>>
    BY <1>3 DEF Poll, detector_vars, producer_vars
  <2>2. /\ position[p] < Len(topic[p])
        /\ position'[p] = position[p] + 1
        /\ \A q \in TopicPartitions \ {p} : position'[q] = position[q]
    BY <1>3, PollEffect
  <2> QED  BY <1>1, <2>1, <2>2 DEF OffsetsInLog
<1>4. CASE CommitOffsets
  BY <1>1, <1>4 DEF CommitOffsets, detector_vars, producer_vars, OffsetsInLog
<1>5. CASE AgentCrash \/ Rejoin
  BY <1>1, <1>5
  DEF AgentCrash, Rejoin, ResumeOffsets, detector_vars, producer_vars, OffsetsInLog
<1>6. CASE UNCHANGED <<topic, position, committed>>
  BY <1>6 DEF OffsetsInLog
<1>7. CASE Source \/ DetectorCrash \/ Handle \/ HandlerFails \/ UNCHANGED vars
  BY <1>6, <1>7
  DEF Source, RaiseAlert, ProduceAlert, AbandonAlert, Enqueue, DetectorCrash, LoseQueue, Handle,
      MarkInvestigating, Investigate, PersistRun, FinishAlert, HandlerFails, vars,
      detector_vars, producer_vars, agent_vars, consumer_vars
<1> QED
  BY <1>2, <1>3, <1>4, <1>5, <1>7 DEF Next, Transport, Agent
-----------------------------------------------------------------------------
(* Alerts that are left behind                                             *)

(* What the handler drops is the alert it held, and no other.              *)
LEMMA DroppedAlert ==
    ASSUME UNCHANGED topic,
           \A p \in TopicPartitions : position'[p] <= position[p],
           \A p \in TopicPartitions :
                position[p] \in Nat /\ position'[p] \in Nat /\ DOMAIN topic[p] \subseteq Nat,
           DOMAIN status' = DOMAIN status,
           \A a \in DOMAIN status : a # alert => status'[a] = status[a]
    PROVE  LeftBehind' \subseteq LeftBehind \cup {alert}
<1> SUFFICES ASSUME NEW a \in LeftBehind', a # alert PROVE a \in LeftBehind
  OBVIOUS
<1>1. /\ a \in DOMAIN status
      /\ status[a] \notin Settled
      /\ \E p \in TopicPartitions : \E i \in DOMAIN topic[p] : topic[p][i] = a
  BY DEF LeftBehind, Settled
<1>2. ASSUME NEW p \in TopicPartitions, NEW i \in DOMAIN topic[p], topic[p][i] = a
      PROVE  i <= position[p]
  <2>1. i <= position'[p]
    BY <1>2 DEF LeftBehind
  <2> QED  BY <2>1
<1> QED  BY <1>1, <1>2 DEF LeftBehind

(* The set grows by the alert under investigation only, and only in a step *)
(* in which an exception leaves the handler or the agent dies.             *)
LEMMA LeftBehindStep ==
    ASSUME TypeOK, OffsetsInLog, [Next]_vars
    PROVE  \/ LeftBehind' \subseteq LeftBehind /\ UNCHANGED <<faults, agent_life>>
           \/ /\ LeftBehind' \subseteq LeftBehind \cup {alert}
              /\ faults' + agent_life' = faults + agent_life + 1
<1>1. \A p \in TopicPartitions :
        /\ committed[p] \in Nat /\ position[p] \in Nat
        /\ Len(topic[p]) \in Nat /\ DOMAIN topic[p] = 1..Len(topic[p])
        /\ committed[p] <= position[p] /\ position[p] <= Len(topic[p])
  BY LenProperties DEF TypeOK, OffsetsInLog
<1>2. faults \in Nat /\ agent_life \in Nat
  BY PipelineBoundsAssumption DEF TypeOK
<1>3. DOMAIN status = 1..Len(status) /\ Len(status) \in Nat
  BY LenProperties DEF TypeOK
<1>4. ASSUME pc # "poll", NEW new, Update(new), UNCHANGED <<topic, position>>
      PROVE  LeftBehind' \subseteq LeftBehind \cup {alert} /\ status'[alert] = new
  BY <1>1, <1>4, UpdateEffect, DroppedAlert
<1>5. ASSUME UNCHANGED <<status, topic, position>>
      PROVE  LeftBehind' \subseteq LeftBehind \cup {alert}
  BY <1>1, <1>5, DroppedAlert
<1>6. CASE UNCHANGED <<status, topic, position, alert, faults, agent_life>>
  BY <1>6 DEF LeftBehind
<1>7. CASE /\ LeftBehind' \subseteq LeftBehind \cup {alert}
           /\ UNCHANGED <<alert, faults, agent_life>>
  <2>1. alert \notin LeftBehind'
    BY <1>7 DEF LeftBehind
  <2> QED  BY <1>7, <2>1
<1>8. CASE RaiseAlert
  <2>1. /\ UNCHANGED <<topic, position, alert, faults, agent_life>>
        /\ status' = Append(status, "new")
    BY <1>8 DEF RaiseAlert, producer_vars, agent_vars, consumer_vars
  <2>2. /\ DOMAIN status' = 1..(Len(status) + 1)
        /\ \A a \in DOMAIN status : status'[a] = status[a]
    <3>1. status \in Seq(Statuses) /\ "new" \in Statuses
      BY DEF TypeOK, Statuses
    <3> QED  BY <2>1, <3>1, AppendProperties, LenProperties
  <2>3. ASSUME NEW a \in LeftBehind' PROVE a \in LeftBehind
    <3>1. PICK p \in TopicPartitions : \E i \in DOMAIN topic[p] : topic[p][i] = a
      BY <2>1 DEF LeftBehind
    <3>2. topic[p] \in Seq(DOMAIN rows)
      BY DEF TypeOK
    <3>3. a \in DOMAIN status
      BY <1>1, <3>1, <3>2, RowsDomain, ElementOfSeq
    <3> QED  BY <2>1, <2>2, <3>3 DEF LeftBehind, Settled
  <2> QED  BY <2>1, <2>3
<1>9. ASSUME NEW p \in TopicPartitions, Send(p) \/ SendFails(p)
      PROVE  LeftBehind' \subseteq LeftBehind /\ UNCHANGED <<faults, agent_life>>
  <2>1. UNCHANGED <<status, position, alert, faults, agent_life>>
    BY <1>9 DEF Send, SendFails, agent_vars, consumer_vars
  <2>2. CASE UNCHANGED topic
    BY <2>1, <2>2 DEF LeftBehind
  <2>3. CASE /\ topic' \in [TopicPartitions -> Seq(DOMAIN rows)]
             /\ \A q \in TopicPartitions \ {p} : topic'[q] = topic[q]
             /\ Len(topic'[p]) = Len(topic[p]) + 1
             /\ \A i \in 1..Len(topic[p]) : topic'[p][i] = topic[p][i]
    <3>1. DOMAIN topic'[p] = 1..(Len(topic[p]) + 1)
      BY <2>3, LenProperties
    <3>2. ASSUME NEW a \in LeftBehind' PROVE a \in LeftBehind
      <4>1. /\ a \in DOMAIN status /\ status[a] \notin Settled /\ a # alert
        BY <2>1, <3>2 DEF LeftBehind, Settled
      <4>2. \A q \in TopicPartitions : \A i \in DOMAIN topic'[q] :
                topic'[q][i] = a => i <= position[q]
        BY <2>1, <3>2 DEF LeftBehind
      <4>3. \A q \in TopicPartitions : \A i \in DOMAIN topic[q] :
                i \in DOMAIN topic'[q] /\ topic'[q][i] = topic[q][i]
        <5>1. \A i \in 1..Len(topic[p]) : i \in DOMAIN topic'[p] /\ topic'[p][i] = topic[p][i]
          BY <1>1, <2>3, <3>1
        <5> QED  BY <1>1, <2>3, <5>1
      <4>4. PICK q \in TopicPartitions : \E i \in DOMAIN topic'[q] : topic'[q][i] = a
        BY <3>2 DEF LeftBehind
      <4>5. PICK i \in DOMAIN topic'[q] : topic'[q][i] = a
        BY <4>4
      <4>6. i <= Len(topic[q])
        BY <1>1, <2>3, <4>2, <4>5
      <4>7. i \in DOMAIN topic[q]
        BY <1>1, <2>3, <3>1, <4>6
      <4> QED  BY <4>1, <4>2, <4>3, <4>5, <4>7 DEF LeftBehind
    <3> QED  BY <2>1, <3>2
  <2> QED  BY <1>9, <2>2, <2>3, TransportEffect
<1>10. ASSUME NEW p \in TopicPartitions, Poll(p)
       PROVE  LeftBehind' \subseteq LeftBehind /\ UNCHANGED <<faults, agent_life>>
  <2>1. UNCHANGED <<status, topic, faults, agent_life>>
    BY <1>10 DEF Poll, detector_vars, producer_vars
  <2>2. alert = NoAlert
    BY <1>10 DEF Poll, TypeOK
  <2>3. /\ position'[p] = position[p] + 1
        /\ position[p] < Len(topic[p])
        /\ \A q \in TopicPartitions \ {p} : position'[q] = position[q]
        /\ alert' = topic[p][position[p] + 1]
    BY <1>10, PollEffect
  <2>4. ASSUME NEW a \in LeftBehind' PROVE a \in LeftBehind
    <3>1. /\ a \in DOMAIN status /\ status[a] \notin Settled /\ a # alert'
          /\ \E q \in TopicPartitions : \E i \in DOMAIN topic[q] : topic[q][i] = a
      BY <2>1, <2>4 DEF LeftBehind, Settled
    <3>2. a # alert
      BY <1>3, <2>2, <3>1, NoAlertAssumption
    <3>3. ASSUME NEW q \in TopicPartitions, NEW i \in DOMAIN topic[q], topic[q][i] = a
          PROVE  i <= position[q]
      <4>1. i <= position'[q]
        BY <2>1, <2>4, <3>3 DEF LeftBehind
      <4>2. CASE q = p
        BY <1>1, <2>3, <3>1, <3>3, <4>1, <4>2
      <4>3. CASE q # p
        BY <2>3, <4>1, <4>3
      <4> QED  BY <4>2, <4>3
    <3> QED  BY <3>1, <3>2, <3>3 DEF LeftBehind
  <2> QED  BY <2>1, <2>4
<1>11. CASE MarkInvestigating
  <2>1. /\ LeftBehind' \subseteq LeftBehind \cup {alert}
        /\ UNCHANGED agent_life
    BY <1>4, <1>11
    DEF MarkInvestigating, TakenStatus, detector_vars, producer_vars, consumer_vars
  <2>2. CASE Raise
    BY <1>2, <2>1, <2>2 DEF Raise
  <2>3. CASE UNCHANGED <<alert, faults>>
    BY <1>7, <2>1, <2>3
  <2> QED  BY <1>11, <2>2, <2>3 DEF MarkInvestigating
<1>12. CASE PersistRun \/ HandlerFails
  <2>1. UNCHANGED <<status, topic, position, agent_life>>
    BY <1>12 DEF PersistRun, HandlerFails, detector_vars, producer_vars, consumer_vars
  <2>2. CASE Raise
    BY <1>2, <1>5, <2>1, <2>2 DEF Raise
  <2>3. CASE UNCHANGED <<alert, faults>>
    BY <1>6, <2>1, <2>3
  <2> QED  BY <1>12, <2>2, <2>3 DEF PersistRun, HandlerFails
<1>13. CASE FinishAlert
  <2>1. /\ LeftBehind' \subseteq LeftBehind \cup {alert}
        /\ UNCHANGED <<faults, agent_life>>
        /\ status'[alert] = FinalStatus
    BY <1>4, <1>13 DEF FinishAlert, detector_vars, producer_vars, consumer_vars
  <2>2. alert \notin LeftBehind'
    BY <2>1 DEF LeftBehind, FinalStatus, Settled
  <2> QED  BY <2>1, <2>2
<1>14. CASE AgentCrash
  <2>1. /\ UNCHANGED <<status, topic, faults>>
        /\ position' = committed
        /\ agent_life' = agent_life + 1
    BY <1>14 DEF AgentCrash, ResumeOffsets, detector_vars, producer_vars
  <2>2. LeftBehind' \subseteq LeftBehind \cup {alert}
    BY <1>1, <2>1, DroppedAlert
  <2> QED  BY <1>2, <2>1, <2>2
<1>15. CASE Rejoin
  <2>1. /\ UNCHANGED <<status, topic, alert, faults, agent_life>>
        /\ position' = committed
    BY <1>15 DEF Rejoin, ResumeOffsets, detector_vars, producer_vars
  <2>2. LeftBehind' \subseteq LeftBehind \cup {alert}
    BY <1>1, <2>1, DroppedAlert
  <2> QED  BY <1>7, <2>1, <2>2
<1>16. CASE \/ ProduceAlert \/ AbandonAlert \/ DetectorCrash
            \/ Investigate \/ CommitOffsets \/ UNCHANGED vars
  BY <1>6, <1>16
  DEF ProduceAlert, AbandonAlert, Enqueue, DetectorCrash, LoseQueue, Investigate, Catch,
      CommitOffsets, vars, detector_vars, producer_vars, agent_vars, consumer_vars
<1> QED
  BY <1>8, <1>9, <1>10, <1>11, <1>12, <1>13, <1>14, <1>15, <1>16
  DEF Next, Source, Transport, Agent, Handle

(* Each exception and each crash of the agent leaves at most one alert     *)
(* behind, at any length of the queue, number of retries or rejoins.       *)
THEOREM LeftBehindIsBounded == Spec => []LeftBehindBound
<1> DEFINE Inv == TypeOK /\ OffsetsInLog /\ LeftBehindBound
<1>1. Init => Inv
  <2> SUFFICES ASSUME Init PROVE Inv
    OBVIOUS
  <2>1. TypeOK
    BY TypeInit
  <2>2. OffsetsInLog
    BY EmptySeq DEF Init, ProducerInit, OffsetsInLog
  <2>3. LeftBehind = {}
    BY EmptySeq DEF Init, LeftBehind
  <2>4. LeftBehindBound
    BY <2>3, FS_EmptySet DEF Init, LeftBehindBound
  <2> QED  BY <2>1, <2>2, <2>4
<1>2. Inv /\ TypeOK' /\ [Next]_vars => Inv'
  <2> SUFFICES ASSUME Inv, TypeOK', [Next]_vars PROVE Inv'
    OBVIOUS
  <2>1. OffsetsInLog'
    BY OffsetsStep
  <2>2. IsFiniteSet(LeftBehind)
    <3>1. DOMAIN status = 1..Len(status) /\ Len(status) \in Nat
      BY LenProperties DEF TypeOK
    <3>2. IsFiniteSet(DOMAIN status)
      BY <3>1, FS_Interval
    <3> QED  BY <3>2, FS_Subset DEF LeftBehind
  <2>3. /\ IsFiniteSet(LeftBehind \cup {alert})
        /\ Cardinality(LeftBehind \cup {alert}) <= Cardinality(LeftBehind) + 1
        /\ Cardinality(LeftBehind) \in Nat
    BY <2>2, FS_AddElement, FS_CardinalityType
  <2>4. faults \in Nat /\ agent_life \in Nat /\ faults' \in Nat /\ agent_life' \in Nat
    <3>1. /\ faults \in 0..MaxFaults /\ faults' \in 0..MaxFaults
          /\ agent_life \in 1..MaxAgentLives /\ agent_life' \in 1..MaxAgentLives
      BY DEF TypeOK
    <3> QED  BY <3>1, PipelineBoundsAssumption
  <2>5. Cardinality(LeftBehind) <= faults + (agent_life - 1)
    BY DEF LeftBehindBound
  <2>6. CASE LeftBehind' \subseteq LeftBehind /\ UNCHANGED <<faults, agent_life>>
    <3>1. Cardinality(LeftBehind') \in Nat /\ Cardinality(LeftBehind') <= Cardinality(LeftBehind)
      BY <2>2, <2>6, FS_Subset, FS_CardinalityType
    <3> QED  BY <2>1, <2>3, <2>4, <2>5, <2>6, <3>1 DEF LeftBehindBound
  <2>7. CASE /\ LeftBehind' \subseteq LeftBehind \cup {alert}
             /\ faults' + agent_life' = faults + agent_life + 1
    <3>1. /\ Cardinality(LeftBehind') \in Nat
          /\ Cardinality(LeftBehind') <= Cardinality(LeftBehind \cup {alert})
          /\ Cardinality(LeftBehind \cup {alert}) \in Nat
      BY <2>3, <2>7, FS_Subset, FS_CardinalityType
    <3>2. Cardinality(LeftBehind') <= faults' + (agent_life' - 1)
      <4>1. PICK before \in Nat, bound \in Nat, after \in Nat :
               /\ before = Cardinality(LeftBehind)
               /\ bound = Cardinality(LeftBehind \cup {alert})
               /\ after = Cardinality(LeftBehind')
        BY <2>3, <3>1
      <4>2. PICK f \in Nat, l \in Nat, f1 \in Nat, l1 \in Nat :
               f = faults /\ l = agent_life /\ f1 = faults' /\ l1 = agent_life'
        BY <2>4
      <4>3. /\ after <= bound /\ bound <= before + 1
            /\ before <= f + (l - 1)
            /\ f1 + l1 = f + l + 1
        BY <2>3, <2>5, <2>7, <3>1, <4>1, <4>2
      <4>4. after <= f1 + (l1 - 1)
        BY <4>3
      <4> QED  BY <4>1, <4>2, <4>4
    <3> QED  BY <2>1, <3>2 DEF LeftBehindBound
  <2> QED  BY <2>6, <2>7, LeftBehindStep
<1>3. Inv => LeftBehindBound
  OBVIOUS
<1> HIDE DEF Inv
<1> QED  BY <1>1, <1>2, <1>3, TypeCorrect, PTL DEF Spec
-----------------------------------------------------------------------------
(* The order of a partition                                                *)

(* The partition of the host an alert is about.                            *)
PartitionOf(a) == AlertPartitionOf[rows[a]]

(* Whatever is queued or delivered lies in the partition of its host.      *)
KeyedByHost ==
    \A p \in TopicPartitions :
        /\ \A i \in DOMAIN queue[p] : PartitionOf(queue[p][i]) = p
        /\ \A i \in DOMAIN topic[p] : PartitionOf(topic[p][i]) = p

(* The row about to be published is newer than all that were.              *)
NewestPending ==
    pending # 0 =>
        \A p \in TopicPartitions :
            /\ \A i \in DOMAIN queue[p] : queue[p][i] < pending
            /\ \A i \in DOMAIN topic[p] : topic[p][i] < pending

LogInv == KeyedByHost /\ NewestPending /\ LogInOrder

(* Queues and logs hold rows.                                              *)
LEMMA EntriesAreRows ==
    ASSUME TypeOK, NEW p \in TopicPartitions
    PROVE  /\ Len(queue[p]) \in Nat /\ DOMAIN queue[p] = 1..Len(queue[p])
           /\ Len(topic[p]) \in Nat /\ DOMAIN topic[p] = 1..Len(topic[p])
           /\ \A i \in DOMAIN queue[p] : queue[p][i] \in DOMAIN rows
           /\ \A i \in DOMAIN topic[p] : topic[p][i] \in DOMAIN rows
<1>1. queue[p] \in Seq(DOMAIN rows) /\ topic[p] \in Seq(DOMAIN rows)
  BY DEF TypeOK
<1> QED  BY <1>1, LenProperties, ElementOfSeq

(* A new row is newer than everything in the queues and the logs.          *)
LEMMA RaiseAlertInOrder == TypeOK /\ LogInv /\ RaiseAlert => LogInv'
<1> SUFFICES ASSUME TypeOK, LogInv, RaiseAlert PROVE LogInv'
  OBVIOUS
<1>1. PICK h \in Hosts : InsertRow(h)
  BY DEF RaiseAlert
<1>2. UNCHANGED <<queue, topic, retries>>
  BY DEF RaiseAlert, producer_vars
<1>3. PICK n \in Nat : n = Len(rows)
  BY RowsDomain
<1>4. /\ DOMAIN rows = 1..n
      /\ \A a \in 1..n : rows'[a] = rows[a]
      /\ pending' \in {0, n + 1}
  BY <1>1, <1>3, RowsDomain, AppendProperties DEF InsertRow, TypeOK
<1>5. KeyedByHost'
  BY <1>2, <1>4, EntriesAreRows DEF LogInv, KeyedByHost, PartitionOf
<1>6. NewestPending'
  <2> SUFFICES ASSUME pending' # 0, NEW p \in TopicPartitions
               PROVE  /\ \A i \in DOMAIN queue[p] : queue[p][i] < n + 1
                      /\ \A i \in DOMAIN topic[p] : topic[p][i] < n + 1
    BY <1>2, <1>4 DEF NewestPending
  <2>1. \A a \in 1..n : a < n + 1
    OBVIOUS
  <2> QED  BY <1>4, <2>1, EntriesAreRows
<1>7. LogInOrder'
  BY <1>2 DEF LogInv, LogInOrder, Increasing
<1> QED  BY <1>5, <1>6, <1>7 DEF LogInv

(* It joins the queue of its host's partition, behind all others.          *)
LEMMA ProduceAlertInOrder == TypeOK /\ LogInv /\ ProduceAlert => LogInv'
<1> SUFFICES ASSUME TypeOK, LogInv, ProduceAlert PROVE LogInv'
  OBVIOUS
<1>1. pending # 0 /\ pending' = 0 /\ UNCHANGED <<rows, topic, retries>>
  BY DEF ProduceAlert, Publish, Enqueue
<1>2. pending \in DOMAIN rows
  BY <1>1, RowsDomain DEF TypeOK
<1>3. PICK p \in TopicPartitions : p = PartitionOf(pending)
  BY <1>2, AlertPartitionAssumption, ElementOfSeq, RowsDomain DEF TypeOK, PartitionOf
<1>4. queue' = [queue EXCEPT ![p] = Append(@, pending)]
  BY <1>3 DEF ProduceAlert, Enqueue, PartitionOf
<1>5. /\ queue' \in [TopicPartitions -> Seq(DOMAIN rows)]
      /\ \A q \in TopicPartitions \ {p} : queue'[q] = queue[q]
      /\ Len(queue'[p]) = Len(queue[p]) + 1
      /\ \A i \in 1..Len(queue[p]) : queue'[p][i] = queue[p][i]
      /\ queue'[p][Len(queue[p]) + 1] = pending
  BY <1>2, <1>4, AppendAt DEF TypeOK
<1>6. PICK n \in Nat : n = Len(queue[p])
  BY EntriesAreRows
<1>7. DOMAIN queue[p] = 1..n /\ DOMAIN queue'[p] = 1..(n + 1)
  BY <1>5, <1>6, EntriesAreRows, LenProperties
<1>8. KeyedByHost'
  <2>1. \A i \in DOMAIN queue'[p] : PartitionOf(queue'[p][i]) = p
    BY <1>3, <1>5, <1>6, <1>7 DEF LogInv, KeyedByHost
  <2>2. \A q \in TopicPartitions : \A i \in DOMAIN queue'[q] : PartitionOf(queue'[q][i]) = q
    BY <1>5, <2>1 DEF LogInv, KeyedByHost
  <2> QED  BY <1>1, <2>2 DEF LogInv, KeyedByHost, PartitionOf
<1>9. NewestPending'
  BY <1>1 DEF NewestPending
<1>10. LogInOrder'
  <2> SUFFICES ASSUME retries = 0, NEW q \in TopicPartitions
               PROVE  /\ Increasing(queue'[q])
                      /\ Increasing(topic[q])
                      /\ \A i \in DOMAIN topic[q], j \in DOMAIN queue'[q] :
                            topic[q][i] < queue'[q][j]
    BY <1>1 DEF LogInOrder, Increasing
  <2>1. /\ Increasing(queue[q]) /\ Increasing(topic[q])
        /\ \A i \in DOMAIN topic[q], j \in DOMAIN queue[q] : topic[q][i] < queue[q][j]
    BY DEF LogInv, LogInOrder
  <2>2. CASE q # p
    BY <1>5, <2>1, <2>2
  <2>3. CASE q = p
    <3>1. /\ \A i \in 1..n : queue[p][i] < pending
          /\ \A i \in DOMAIN topic[p] : topic[p][i] < pending
      BY <1>1, <1>7 DEF LogInv, NewestPending
    <3>2. ASSUME NEW i \in 1..(n + 1), NEW j \in 1..(n + 1), i < j
          PROVE  queue'[p][i] < queue'[p][j]
      <4>1. i \in 1..n /\ queue'[p][i] = queue[p][i]
        BY <1>5, <1>6, <3>2
      <4>2. CASE j = n + 1
        BY <1>5, <1>6, <3>1, <4>1, <4>2
      <4>3. CASE j # n + 1
        <5>1. j \in 1..n /\ queue'[p][j] = queue[p][j]
          BY <1>5, <1>6, <4>3
        <5> QED  BY <1>7, <2>1, <2>3, <3>2, <4>1, <5>1 DEF Increasing
      <4> QED  BY <4>2, <4>3
    <3>3. Increasing(queue'[p])
      BY <1>7, <3>2 DEF Increasing
    <3>4. ASSUME NEW i \in DOMAIN topic[p], NEW j \in 1..(n + 1)
          PROVE  topic[p][i] < queue'[p][j]
      <4>1. CASE j = n + 1
        BY <1>5, <1>6, <3>1, <4>1
      <4>2. CASE j # n + 1
        <5>1. j \in DOMAIN queue[p] /\ queue'[p][j] = queue[p][j]
          BY <1>5, <1>6, <1>7, <4>2
        <5> QED  BY <2>1, <2>3, <5>1
      <4> QED  BY <4>1, <4>2
    <3> QED  BY <1>7, <2>1, <2>3, <3>3, <3>4
  <2> QED  BY <2>2, <2>3
<1> QED  BY <1>8, <1>9, <1>10 DEF LogInv
(* librdkafka's thread moves messages within their partition, and in order *)
(* until the first retry.                                                  *)
LEMMA TransportInOrder ==
    ASSUME TypeOK, LogInv, NEW p \in TopicPartitions, Send(p) \/ SendFails(p)
    PROVE  LogInv'
<1>1. UNCHANGED <<rows, pending>> /\ (Deliver(p) \/ Retry(p) \/ Expire(p))
  BY DEF Send, SendFails, source_vars
<1>2. PICK m \in Nat : \E n \in Nat : Moved(p, m, n)
  <2>1. /\ queue \in [TopicPartitions -> Seq(DOMAIN rows)]
        /\ topic \in [TopicPartitions -> Seq(DOMAIN rows)]
    BY DEF TypeOK
  <2> QED  BY <1>1, <2>1, TransportMoves
<1>3. PICK n \in Nat : Moved(p, m, n)
  BY <1>2
<1>4. \A q \in TopicPartitions :
         /\ \A i \in DOMAIN queue'[q] : \E j \in DOMAIN queue[q] : queue'[q][i] = queue[q][j]
         /\ \A i \in DOMAIN topic'[q] :
               \/ i \in DOMAIN topic[q] /\ topic'[q][i] = topic[q][i]
               \/ \E j \in DOMAIN queue[q] : topic'[q][i] = queue[q][j]
  BY <1>3, MovedEntries
<1>5. KeyedByHost'
  <2>1. \A q \in TopicPartitions :
            /\ \A i \in DOMAIN queue'[q] : PartitionOf(queue'[q][i]) = q
            /\ \A i \in DOMAIN topic'[q] : PartitionOf(topic'[q][i]) = q
    BY <1>4 DEF LogInv, KeyedByHost
  <2> QED  BY <1>1, <2>1 DEF KeyedByHost, PartitionOf
<1>6. NewestPending'
  BY <1>1, <1>4 DEF LogInv, NewestPending
<1>7. LogInOrder'
  <2>1. retries \in Nat /\ LogInOrder
    BY ProducerAssumption DEF TypeOK, LogInv
  <2> QED  BY <1>3, <2>1, MovedInOrder
<1> QED  BY <1>5, <1>6, <1>7 DEF LogInv

(* Every step keeps the order.                                             *)
LEMMA LogStep == TypeOK /\ LogInv /\ [Next]_vars => LogInv'
<1> SUFFICES ASSUME TypeOK, LogInv, [Next]_vars PROVE LogInv'
  OBVIOUS
<1>1. CASE UNCHANGED <<rows, pending, queue, topic, retries>>
  BY <1>1 DEF LogInv, KeyedByHost, NewestPending, LogInOrder, PartitionOf, Increasing
<1>2. CASE UNCHANGED detector_vars
  BY <1>1, <1>2 DEF detector_vars, source_vars, producer_vars
<1>3. CASE AbandonAlert
  BY <1>3
  DEF AbandonAlert, Abandon, producer_vars, LogInv, KeyedByHost, NewestPending, LogInOrder,
      PartitionOf, Increasing
<1>4. CASE DetectorCrash
  <2>1. /\ pending' = 0
        /\ queue' = [p \in TopicPartitions |-> <<>>]
        /\ UNCHANGED <<rows, topic, retries>>
    BY <1>4 DEF DetectorCrash, LoseQueue
  <2>2. \A p \in TopicPartitions : DOMAIN queue'[p] = {}
    BY <2>1
  <2> QED
    BY <2>1, <2>2 DEF LogInv, KeyedByHost, NewestPending, LogInOrder, PartitionOf, Increasing
<1>5. CASE Source
  BY <1>3, <1>5, RaiseAlertInOrder, ProduceAlertInOrder DEF Source
<1>6. CASE Transport
  BY <1>6, TransportInOrder DEF Transport
<1>7. CASE Agent \/ HandlerFails \/ CommitOffsets \/ AgentCrash \/ Rejoin \/ UNCHANGED vars
  BY <1>2, <1>7
  DEF Agent, Handle, Poll, MarkInvestigating, Investigate, PersistRun, FinishAlert, HandlerFails,
      CommitOffsets, AgentCrash, Rejoin, vars
<1> QED  BY <1>4, <1>5, <1>6, <1>7 DEF Next
-----------------------------------------------------------------------------
(* The order of the investigations                                         *)

(* No message was sent twice, and no partition read twice.                 *)
ReadOnce == retries = 0 /\ agent_life = 1 /\ rejoins = 0

RunsNameRows == \A i \in DOMAIN agent_runs : agent_runs[i].alert \in DOMAIN rows

(* The alert in the handler is the last one read of its partition, ...     *)
HandlesLastRead ==
    \A p \in TopicPartitions :
        pc # "poll" /\ PartitionOf(alert) = p
            => position[p] > 0 /\ alert = topic[p][position[p]]

(* ... the recorded ones are not newer than that, ...                      *)
RecordedWereRead ==
    \A i \in DOMAIN agent_runs, p \in TopicPartitions :
        PartitionOf(agent_runs[i].alert) = p
            => position[p] > 0 /\ agent_runs[i].alert <= topic[p][position[p]]

(* ... and older as long as the handler has not recorded its run.          *)
HandlesNewer ==
    pc \in {"mark", "investigate", "persist"} =>
        \A i \in DOMAIN agent_runs :
            PartitionOf(agent_runs[i].alert) = PartitionOf(alert)
                => agent_runs[i].alert < alert

RecordedInOrder ==
    \A i, j \in DOMAIN agent_runs :
        i < j /\ PartitionOf(agent_runs[i].alert) = PartitionOf(agent_runs[j].alert)
            => agent_runs[i].alert < agent_runs[j].alert

(* The inductive invariant behind InvestigatedInOrder.                     *)
RunsInv ==
    /\ RunsNameRows
    /\ ReadOnce => HandlesLastRead /\ RecordedWereRead /\ HandlesNewer /\ RecordedInOrder

(* New rows and messages change nothing that was read.                     *)
LEMMA ReadingKept ==
    ASSUME RunsInv, ReadOnce' => ReadOnce,
           UNCHANGED <<position, pc, alert, agent_runs>>,
           pc # "poll" => alert \in DOMAIN rows,
           \A a \in DOMAIN rows : a \in DOMAIN rows' /\ rows'[a] = rows[a],
           \A p \in TopicPartitions : position[p] > 0 =>
                topic'[p][position[p]] = topic[p][position[p]]
    PROVE  RunsInv'
<1>1. RunsNameRows'
  BY DEF RunsInv, RunsNameRows
<1>2. \A i \in DOMAIN agent_runs :
        PartitionOf(agent_runs[i].alert)' = PartitionOf(agent_runs[i].alert)
  BY DEF RunsInv, RunsNameRows, PartitionOf
<1>3. pc # "poll" => PartitionOf(alert)' = PartitionOf(alert)
  BY DEF PartitionOf
<1>4. ASSUME ReadOnce'
      PROVE  HandlesLastRead' /\ RecordedWereRead' /\ HandlesNewer' /\ RecordedInOrder'
  <2>1. HandlesLastRead /\ RecordedWereRead /\ HandlesNewer /\ RecordedInOrder
    BY <1>4 DEF RunsInv
  <2>2. HandlesLastRead'
    BY <1>3, <2>1 DEF HandlesLastRead
  <2>3. RecordedWereRead'
    BY <1>2, <2>1 DEF RecordedWereRead
  <2>4. HandlesNewer'
    BY <1>2, <1>3, <2>1 DEF HandlesNewer
  <2>5. RecordedInOrder'
    BY <1>2, <2>1 DEF RecordedInOrder
  <2> QED  BY <2>2, <2>3, <2>4, <2>5
<1> QED  BY <1>1, <1>4 DEF RunsInv

(* The next message is newer than what was read of its partition.          *)
LEMMA PollInOrder ==
    ASSUME TypeOK, LogInv, RunsInv, NEW p \in TopicPartitions, Poll(p)
    PROVE  RunsInv'
<1>1. UNCHANGED <<rows, topic, retries, agent_life, rejoins, agent_runs>> /\ pc' = "mark"
  BY DEF Poll, detector_vars, source_vars, producer_vars
<1>2. PICK n \in Nat : n = position[p]
  BY PollEffect
<1>3. /\ position'[p] = n + 1
      /\ \A q \in TopicPartitions \ {p} : position'[q] = position[q]
      /\ alert' = topic[p][n + 1]
      /\ n + 1 \in DOMAIN topic[p]
      /\ n > 0 => n \in DOMAIN topic[p]
      /\ alert' \in DOMAIN rows
  BY <1>2, PollEffect, EntriesAreRows
<1>4. PartitionOf(topic[p][n + 1]) = p
  BY <1>3 DEF LogInv, KeyedByHost
<1>5. ASSUME ReadOnce,
             NEW i \in DOMAIN agent_runs, PartitionOf(agent_runs[i].alert) = p
      PROVE  agent_runs[i].alert < topic[p][n + 1]
  <2>1. n > 0 /\ agent_runs[i].alert <= topic[p][n]
    BY <1>2, <1>5 DEF RunsInv, RecordedWereRead
  <2>2. topic[p][n] < topic[p][n + 1]
    BY <1>3, <1>5, <2>1 DEF LogInv, LogInOrder, Increasing, ReadOnce
  <2>3. PICK x \in Nat, y \in Nat, z \in Nat :
            x = agent_runs[i].alert /\ y = topic[p][n] /\ z = topic[p][n + 1]
    BY <1>3, <1>5, <2>1, EntriesAreRows, RowsDomain DEF RunsInv, RunsNameRows
  <2>4. x < z
    BY <2>1, <2>2, <2>3
  <2> QED  BY <2>3, <2>4
<1>6. ASSUME ReadOnce'
      PROVE  HandlesLastRead' /\ RecordedWereRead' /\ HandlesNewer' /\ RecordedInOrder'
  <2>1. ReadOnce /\ RecordedWereRead /\ RecordedInOrder
    BY <1>1, <1>6 DEF RunsInv, ReadOnce
  <2>2. HandlesLastRead'
    BY <1>1, <1>3, <1>4 DEF HandlesLastRead, PartitionOf
  <2>3. RecordedWereRead'
    <3> SUFFICES ASSUME NEW i \in DOMAIN agent_runs, NEW q \in TopicPartitions,
                        PartitionOf(agent_runs[i].alert) = q
                 PROVE  position'[q] > 0 /\ agent_runs[i].alert <= topic[q][position'[q]]
      BY <1>1 DEF RecordedWereRead, PartitionOf
    <3>1. CASE q = p
      <4>1. agent_runs[i].alert < topic[p][n + 1]
        BY <1>5, <2>1, <3>1
      <4>2. PICK x \in Nat, z \in Nat : x = agent_runs[i].alert /\ z = topic[p][n + 1]
        BY <1>3, EntriesAreRows, RowsDomain DEF RunsInv, RunsNameRows
      <4>3. x <= z
        BY <4>1, <4>2
      <4> QED  BY <1>3, <3>1, <4>2, <4>3
    <3>2. CASE q # p
      BY <1>3, <2>1, <3>2 DEF RecordedWereRead
    <3> QED  BY <3>1, <3>2
  <2>4. HandlesNewer'
    <3> SUFFICES ASSUME NEW i \in DOMAIN agent_runs,
                        PartitionOf(agent_runs[i].alert) = PartitionOf(topic[p][n + 1])
                 PROVE  agent_runs[i].alert < topic[p][n + 1]
      BY <1>1, <1>3 DEF HandlesNewer, PartitionOf
    <3> QED  BY <1>4, <1>5, <2>1
  <2>5. RecordedInOrder'
    BY <1>1, <2>1 DEF RecordedInOrder, PartitionOf
  <2> QED  BY <2>2, <2>3, <2>4, <2>5
<1>7. RunsNameRows'
  BY <1>1 DEF RunsInv, RunsNameRows
<1> QED  BY <1>6, <1>7 DEF RunsInv

(* A recorded run is that of the last alert read, and the newest of its    *)
(* partition.                                                              *)
LEMMA PersistInOrder ==
    ASSUME TypeOK, RunsInv, PersistRun
    PROVE  RunsInv'
<1>1. /\ UNCHANGED <<rows, topic, position, retries, agent_life, rejoins>>
      /\ pc = "persist"
      /\ (pc' = "finish" /\ UNCHANGED alert) \/ pc' = "poll"
  BY DEF PersistRun, Raise, Return, detector_vars, source_vars, producer_vars, consumer_vars
<1>2. alert \in DOMAIN rows /\ PartitionOf(alert) \in TopicPartitions
  BY <1>1, AlertPartitionAssumption, ElementOfSeq, RowsDomain DEF TypeOK, PartitionOf
<1>3. PICK a \in Nat, n \in Nat : a = alert /\ n = Len(agent_runs)
  <2>1. alert \in Nat
    BY <1>2, RowsDomain
  <2>2. Len(agent_runs) \in Nat
    BY LenProperties DEF TypeOK
  <2> QED  BY <2>1, <2>2
<1>4. /\ DOMAIN agent_runs = 1..n
      /\ DOMAIN agent_runs' = 1..(n + 1)
      /\ \A i \in 1..n : agent_runs'[i] = agent_runs[i]
      /\ agent_runs'[n + 1].alert = a
  BY <1>3, PersistEffect
<1>5. \A i \in 1..(n + 1) : i # n + 1 => i \in 1..n
  OBVIOUS
<1>6. RunsNameRows'
  BY <1>1, <1>2, <1>3, <1>4, <1>5 DEF RunsInv, RunsNameRows
<1>7. ASSUME ReadOnce'
      PROVE  HandlesLastRead' /\ RecordedWereRead' /\ HandlesNewer' /\ RecordedInOrder'
  <2>1. HandlesLastRead /\ RecordedWereRead /\ HandlesNewer /\ RecordedInOrder
    BY <1>1, <1>7 DEF RunsInv, ReadOnce
  <2>2. HandlesLastRead'
    BY <1>1, <2>1 DEF HandlesLastRead, PartitionOf
  <2>3. RecordedWereRead'
    <3> SUFFICES ASSUME NEW i \in 1..(n + 1), NEW p \in TopicPartitions,
                        PartitionOf(agent_runs'[i].alert) = p
                 PROVE  position[p] > 0 /\ agent_runs'[i].alert <= topic[p][position[p]]
      BY <1>1, <1>4 DEF RecordedWereRead, PartitionOf
    <3>1. CASE i = n + 1
      <4>1. position[p] > 0 /\ a = topic[p][position[p]]
        BY <1>1, <1>3, <1>4, <2>1, <3>1 DEF HandlesLastRead
      <4>2. a <= a
        OBVIOUS
      <4> QED  BY <1>4, <3>1, <4>1, <4>2
    <3>2. CASE i # n + 1
      BY <1>4, <1>5, <2>1, <3>2 DEF RecordedWereRead
    <3> QED  BY <3>1, <3>2
  <2>4. HandlesNewer'
    BY <1>1 DEF HandlesNewer
  <2>5. RecordedInOrder'
    <3> SUFFICES ASSUME NEW i \in 1..(n + 1), NEW j \in 1..(n + 1), i < j,
                        PartitionOf(agent_runs'[i].alert) = PartitionOf(agent_runs'[j].alert)
                 PROVE  agent_runs'[i].alert < agent_runs'[j].alert
      BY <1>1, <1>4 DEF RecordedInOrder, PartitionOf
    <3>1. i \in 1..n /\ agent_runs'[i] = agent_runs[i]
      BY <1>4
    <3>2. CASE j = n + 1
      BY <1>1, <1>3, <1>4, <2>1, <3>1, <3>2 DEF HandlesNewer
    <3>3. CASE j # n + 1
      BY <1>4, <1>5, <2>1, <3>1, <3>3 DEF RecordedInOrder
    <3> QED  BY <3>2, <3>3
  <2> QED  BY <2>2, <2>3, <2>4, <2>5
<1> QED  BY <1>6, <1>7 DEF RunsInv

(* The handler's other calls record nothing and read nothing.              *)
LEMMA HandlerInOrder ==
    ASSUME RunsInv,
           UNCHANGED <<rows, topic, position, retries, agent_life, rejoins, agent_runs>>,
           \/ pc' = "poll"
           \/ /\ pc \in {"mark", "investigate", "persist"}
              /\ pc' \in {"mark", "investigate", "persist"}
              /\ UNCHANGED alert
    PROVE  RunsInv'
BY DEF RunsInv, ReadOnce, RunsNameRows, HandlesLastRead, RecordedWereRead, HandlesNewer,
       RecordedInOrder, PartitionOf

(* Every step keeps the order of the investigations.                       *)
LEMMA RunsStep == TypeOK /\ TypeOK' /\ OffsetsInLog /\ LogInv /\ RunsInv /\ [Next]_vars => RunsInv'
<1> SUFFICES ASSUME TypeOK, TypeOK', OffsetsInLog, LogInv, RunsInv, [Next]_vars PROVE RunsInv'
  OBVIOUS
<1> USE DEF detector_vars, source_vars, producer_vars, agent_vars, consumer_vars
<1>1. \A p \in TopicPartitions : position[p] \in Nat /\ position[p] <= Len(topic[p])
  BY DEF TypeOK, OffsetsInLog
<1>2. pc # "poll" => alert \in DOMAIN rows
  BY DEF TypeOK
<1>3. CASE /\ UNCHANGED <<rows, topic, position, pc, alert, agent_runs>>
           /\ ReadOnce' => ReadOnce
  BY <1>2, <1>3, ReadingKept
<1>4. CASE RaiseAlert
  <2>1. UNCHANGED <<topic, position, pc, alert, agent_runs, retries, agent_life, rejoins>>
    BY <1>4 DEF RaiseAlert
  <2>2. \A a \in DOMAIN rows : a \in DOMAIN rows' /\ rows'[a] = rows[a]
    <3>1. PICK h \in Hosts : rows' = Append(rows, h)
      BY <1>4 DEF RaiseAlert, InsertRow
    <3>2. rows \in Seq(Hosts)
      BY DEF TypeOK
    <3> QED  BY <3>1, <3>2, AppendProperties, LenProperties
  <2> QED  BY <1>2, <2>1, <2>2, ReadingKept DEF ReadOnce
<1>5. ASSUME NEW p \in TopicPartitions, Send(p) \/ SendFails(p)
      PROVE  RunsInv'
  <2>1. UNCHANGED <<rows, position, pc, alert, agent_runs, agent_life, rejoins>>
    BY <1>5 DEF Send, SendFails
  <2>2. ReadOnce' => ReadOnce
    <3>1. retries' = 0 => retries = 0
      BY <1>5, ProducerAssumption DEF Send, SendFails, Deliver, Retry, Expire, TypeOK
    <3> QED  BY <2>1, <3>1 DEF ReadOnce
  <2>3. \A q \in TopicPartitions : position[q] > 0 =>
            topic'[q][position[q]] = topic[q][position[q]]
    <3>1. CASE UNCHANGED topic
      BY <3>1
    <3>2. CASE /\ \A q \in TopicPartitions \ {p} : topic'[q] = topic[q]
               /\ \A i \in 1..Len(topic[p]) : topic'[p][i] = topic[p][i]
      BY <1>1, <3>2, EntriesAreRows
    <3> QED  BY <1>5, <3>1, <3>2, TransportEffect
  <2> QED  BY <1>2, <2>1, <2>2, <2>3, ReadingKept
<1>6. CASE ProduceAlert \/ AbandonAlert \/ DetectorCrash \/ CommitOffsets \/ UNCHANGED vars
  BY <1>3, <1>6
  DEF ProduceAlert, Publish, Enqueue, AbandonAlert, Abandon, DetectorCrash, LoseQueue,
      CommitOffsets, vars, ReadOnce
<1>7. CASE MarkInvestigating \/ Investigate \/ FinishAlert \/ HandlerFails
  BY <1>7, HandlerInOrder
  DEF MarkInvestigating, Investigate, Catch, FinishAlert, HandlerFails, Raise, Return
<1>8. CASE AgentCrash \/ Rejoin
  <2>1. ~ReadOnce'
    BY <1>8, PipelineBoundsAssumption DEF AgentCrash, Rejoin, ReadOnce, TypeOK
  <2>2. UNCHANGED <<rows, agent_runs>>
    BY <1>8 DEF AgentCrash, Rejoin
  <2> QED  BY <2>1, <2>2 DEF RunsInv, RunsNameRows
<1> QED
  BY <1>4, <1>5, <1>6, <1>7, <1>8, PollInOrder, PersistInOrder
  DEF Next, Source, Transport, Agent, Handle

LEMMA ReadingInit == Init => TypeOK /\ OffsetsInLog /\ LogInv /\ RunsInv
<1> SUFFICES ASSUME Init PROVE TypeOK /\ OffsetsInLog /\ LogInv /\ RunsInv
  OBVIOUS
<1>1. TypeOK
  BY TypeInit
<1>2. OffsetsInLog
  BY EmptySeq DEF Init, ProducerInit, OffsetsInLog
<1>3. \A p \in TopicPartitions : DOMAIN queue[p] = {} /\ DOMAIN topic[p] = {}
  BY DEF Init, ProducerInit
<1>4. LogInv
  BY <1>3
  DEF Init, SourceInit, LogInv, KeyedByHost, NewestPending, LogInOrder, Increasing
<1>5. RunsInv
  BY DEF Init, RunsInv, RunsNameRows, HandlesLastRead, RecordedWereRead, HandlesNewer,
         RecordedInOrder
<1> QED  BY <1>1, <1>2, <1>4, <1>5

(* Without retries and redelivery the alerts of a host are investigated in *)
(* the order in which they were raised, at any number of partitions.       *)
THEOREM OrderIsKept == Spec => []InvestigatedInOrder
<1> DEFINE Inv == TypeOK /\ OffsetsInLog /\ LogInv /\ RunsInv
<1>1. Init => Inv
  BY ReadingInit
<1>2. Inv /\ TypeOK' /\ [Next]_vars => Inv'
  BY OffsetsStep, LogStep, RunsStep
<1>3. Inv => InvestigatedInOrder
  BY DEF RunsInv, RecordedInOrder, ReadOnce, InvestigatedInOrder, PartitionOf
<1> HIDE DEF Inv
<1> QED  BY <1>1, <1>2, <1>3, TypeCorrect, PTL DEF Spec
-----------------------------------------------------------------------------
(* The number of messages                                                  *)

(* What was delivered and what the client holds was produced, or sent      *)
(* again.                                                                  *)
SentInv ==
    /\ IsFiniteSet(Held) /\ IsFiniteSet(Delivered)
    /\ Cardinality(Delivered) + Queued <= Len(produced) + retries

LEMMA OneMoreDelivered ==
    ASSUME NEW p \in TopicPartitions, NEW n \in Nat, IsFiniteSet(Delivered),
           DOMAIN topic[p] = 1..n, DOMAIN topic'[p] = 1..(n + 1),
           \A q \in TopicPartitions \ {p} : topic'[q] = topic[q]
    PROVE  IsFiniteSet(Delivered') /\ Cardinality(Delivered') = Cardinality(Delivered) + 1
<1>1. Delivered = Places(topic) /\ Delivered' = Places(topic')
  BY DEF Delivered, Places
<1>2. Delivered' = Delivered \cup {<<p, n + 1>>} /\ <<p, n + 1>> \notin Delivered
  <2>1. /\ Places(topic') = Places(topic) \cup {<<p, n + 1>>}
        /\ <<p, n + 1>> \notin Places(topic)
    BY MorePlaces
  <2> QED  BY <1>1, <2>1
<1> QED  BY <1>2, FS_AddElement

LEMMA SentNumbers ==
    ASSUME TypeOK, SentInv
    PROVE  Cardinality(Delivered) \in Nat /\ Queued \in Nat /\ Len(produced) \in Nat /\ retries \in Nat
<1>1. produced \in Seq(DOMAIN rows) /\ retries \in Nat
  BY ProducerAssumption DEF TypeOK
<1> QED  BY <1>1, FS_CardinalityType, LenProperties DEF SentInv, Queued

LEMMA TransportSends ==
    ASSUME TypeOK, SentInv, NEW p \in TopicPartitions, Send(p) \/ SendFails(p)
    PROVE  SentInv'
<1>1. UNCHANGED produced /\ (Deliver(p) \/ Retry(p) \/ Expire(p))
  BY DEF Send, SendFails, source_vars
<1>2. PICK d \in Nat, h \in Nat, l \in Nat, r \in Nat :
         d = Cardinality(Delivered) /\ h = Queued /\ l = Len(produced) /\ r = retries
  BY SentNumbers
<1>3. d + h <= l + r /\ IsFiniteSet(Held) /\ IsFiniteSet(Delivered)
  BY <1>2 DEF SentInv
<1>4. PICK m \in Nat : \E n \in Nat : Moved(p, m, n)
  <2>1. /\ queue \in [TopicPartitions -> Seq(DOMAIN rows)]
        /\ topic \in [TopicPartitions -> Seq(DOMAIN rows)]
    BY DEF TypeOK
  <2> QED  BY <1>1, <2>1, TransportMoves
<1>5. PICK n \in Nat : Moved(p, m, n)
  BY <1>4
<1>6. /\ DOMAIN queue[p] = 1..(m + 1) /\ DOMAIN topic[p] = 1..n
      /\ \A q \in TopicPartitions \ {p} : queue'[q] = queue[q] /\ topic'[q] = topic[q]
  BY <1>5 DEF Moved
<1>7. Shifted(p, m) => IsFiniteSet(Held') /\ h = Queued' + 1
  BY <1>2, <1>3, <1>6, OneLessHeld DEF Shifted
<1>8. Rotated(p, m) => Held' = Held /\ Queued' = h
  <2> SUFFICES ASSUME Rotated(p, m) PROVE Held' = Held /\ Queued' = h
    OBVIOUS
  <2>1. \A q \in TopicPartitions : DOMAIN queue'[q] = DOMAIN queue[q]
    BY <1>6 DEF Rotated
  <2> QED  BY <1>2, <2>1, AsManyHeld
<1>9. Appended(p, n) => IsFiniteSet(Delivered') /\ Cardinality(Delivered') = d + 1
  BY <1>2, <1>3, <1>6, OneMoreDelivered DEF Appended
<1>10. topic'[p] = topic[p] => Delivered' = Delivered /\ Cardinality(Delivered') = d
  <2> SUFFICES ASSUME topic'[p] = topic[p] PROVE Delivered' = Delivered
    BY <1>2
  <2>1. \A q \in TopicPartitions : DOMAIN topic'[q] = DOMAIN topic[q]
    BY <1>6
  <2>2. Delivered = Places(topic) /\ Delivered' = Places(topic')
    BY DEF Delivered, Places
  <2> QED  BY <2>1, <2>2, SamePlaces
<1>11. Len(produced') = l
  BY <1>1, <1>2
<1>12. IsFiniteSet(Held') => Queued' \in Nat
  BY FS_CardinalityType DEF Queued
<1>13. CASE Shifted(p, m) /\ Appended(p, n) /\ retries' = r
  BY <1>3, <1>7, <1>9, <1>11, <1>12, <1>13 DEF SentInv
<1>14. CASE Rotated(p, m) /\ (Appended(p, n) \/ topic'[p] = topic[p]) /\ retries' = r + 1
  BY <1>3, <1>8, <1>9, <1>10, <1>11, <1>14 DEF SentInv
<1>15. CASE Shifted(p, m) /\ topic'[p] = topic[p] /\ retries' = r
  BY <1>3, <1>7, <1>10, <1>11, <1>12, <1>15 DEF SentInv
<1> QED  BY <1>2, <1>5, <1>13, <1>14, <1>15 DEF Moved

LEMMA ProduceSends == TypeOK /\ SentInv /\ ProduceAlert => SentInv'
<1> SUFFICES ASSUME TypeOK, SentInv, ProduceAlert PROVE SentInv'
  OBVIOUS
<1>1. /\ pending \in DOMAIN rows /\ produced' = Append(produced, pending)
      /\ Enqueue(AlertPartitionOf[rows[pending]], pending)
  BY RowsDomain DEF ProduceAlert, Publish, TypeOK
<1>2. AlertPartitionOf[rows[pending]] \in TopicPartitions
  BY <1>1, AlertPartitionAssumption, ElementOfSeq, RowsDomain DEF TypeOK
<1>3. produced \in Seq(DOMAIN rows) /\ queue \in [TopicPartitions -> Seq(DOMAIN rows)]
  BY DEF TypeOK
<1>4. IsFiniteSet(Held') /\ Queued' = Queued + 1
  BY <1>1, <1>2, <1>3, EnqueueKeeps DEF SentInv
<1>5. Len(produced') = Len(produced) + 1
  BY <1>1, <1>3, AppendProperties
<1>6. UNCHANGED <<topic, retries>> /\ Delivered' = Delivered
  BY <1>1 DEF Enqueue, Delivered
<1>7. PICK d \in Nat, h \in Nat, l \in Nat, r \in Nat :
         d = Cardinality(Delivered) /\ h = Queued /\ l = Len(produced) /\ r = retries
  BY SentNumbers
<1> QED  BY <1>4, <1>5, <1>6, <1>7 DEF SentInv

LEMMA SentStep == TypeOK /\ SentInv /\ [Next]_vars => SentInv'
<1> SUFFICES ASSUME TypeOK, SentInv, [Next]_vars PROVE SentInv'
  OBVIOUS
<1>1. CASE UNCHANGED <<produced, queue, topic, retries>>
  BY <1>1 DEF SentInv, Held, Queued, Delivered
<1>2. CASE RaiseAlert \/ AbandonAlert \/ UNCHANGED detector_vars
  BY <1>1, <1>2
  DEF RaiseAlert, InsertRow, AbandonAlert, Abandon, detector_vars, source_vars, producer_vars
<1>3. CASE DetectorCrash
  <2>1. /\ queue' = [p \in TopicPartitions |-> <<>>]
        /\ UNCHANGED <<produced, topic, retries>>
    BY <1>3 DEF DetectorCrash, LoseQueue
  <2>2. Held' = {} /\ Delivered' = Delivered
    <3>1. Held' = Places(queue')
      BY DEF Held, Places
    <3> QED  BY <2>1, <3>1, NoneHeld DEF Delivered
  <2>3. IsFiniteSet(Held') /\ Queued' = 0
    BY <2>2, FS_EmptySet DEF Queued
  <2>4. Cardinality(Delivered) <= Len(produced) + retries
    BY SentNumbers DEF SentInv
  <2> QED  BY <2>1, <2>2, <2>3, <2>4, SentNumbers DEF SentInv
<1>4. CASE Source
  BY <1>2, <1>4, ProduceSends DEF Source
<1>5. CASE Transport
  BY <1>5, TransportSends DEF Transport
<1>6. CASE Agent \/ HandlerFails \/ CommitOffsets \/ AgentCrash \/ Rejoin \/ UNCHANGED vars
  BY <1>2, <1>6
  DEF Agent, Handle, Poll, MarkInvestigating, Investigate, PersistRun, FinishAlert, HandlerFails,
      CommitOffsets, AgentCrash, Rejoin, vars
<1> QED  BY <1>3, <1>4, <1>5, <1>6 DEF Next
-----------------------------------------------------------------------------
(* The number of runs                                                      *)

(* The copies of an alert that the agent's present reading has passed.     *)
CopiesRead(a) == {po \in Copies(a) : po[2] <= position[po[1]]}

(* The handler holds the alert and has not recorded its run.               *)
Awaited(a) == IF pc # "finish" /\ alert = a THEN 1 ELSE 0

(* Each reading of the partitions gives every copy one run at most.        *)
Counted(a) ==
    Cardinality(RunsOf(a)) + Awaited(a)
        <= Cardinality(Copies(a)) * (agent_life + rejoins - 1) + Cardinality(CopiesRead(a))

RunsCounted == \A a \in DOMAIN rows : Counted(a)

(* One reading more, or some copies more.                                  *)
LEMMA ReadAgain ==
    ASSUME NEW c \in Nat, NEW e \in Nat, NEW r \in Nat, r <= c
    PROVE  c * e + r <= c * (e + 1) /\ c * e \in Nat /\ c * (e + 1) \in Nat
<1>1. c * (e + 1) = c * e + c /\ c * e \in Nat
  OBVIOUS
<1>2. PICK x \in Nat : x = c * e
  BY <1>1
<1> QED  BY <1>1, <1>2

LEMMA MoreCopies ==
    ASSUME NEW c \in Nat, NEW d \in Nat, NEW e \in Nat, c <= d
    PROVE  c * e <= d * e /\ c * e \in Nat /\ d * e \in Nat
<1>1. PICK k \in Nat : d = c + k
  <2>1. d - c \in Nat /\ d = c + (d - c)
    OBVIOUS
  <2> QED  BY <2>1
<1>2. (c + k) * e = c * e + k * e /\ c * e \in Nat /\ k * e \in Nat
  OBVIOUS
<1>3. PICK x \in Nat, y \in Nat : x = c * e /\ y = k * e
  BY <1>2
<1> QED  BY <1>1, <1>2, <1>3

LEMMA FiniteParts ==
    ASSUME NEW S, IsFiniteSet(S), NEW T, T \subseteq S, NEW U, U \subseteq T
    PROVE  /\ IsFiniteSet(T) /\ Cardinality(T) \in Nat
           /\ IsFiniteSet(U) /\ Cardinality(U) \in Nat
           /\ Cardinality(U) <= Cardinality(T)
<1>1. IsFiniteSet(T)
  BY FS_Subset
<1>2. IsFiniteSet(U) /\ Cardinality(U) <= Cardinality(T)
  BY <1>1, FS_Subset
<1> QED  BY <1>1, <1>2, FS_CardinalityType

LEMMA RunsAreFinite ==
    ASSUME TypeOK, NEW a
    PROVE  IsFiniteSet(RunsOf(a)) /\ Cardinality(RunsOf(a)) \in Nat
<1>1. PICK n \in Nat : n = Len(agent_runs) /\ DOMAIN agent_runs = 1..n
  BY LenProperties DEF TypeOK
<1>2. IsFiniteSet(1..n)
  BY FS_Interval
<1>3. RunsOf(a) \in SUBSET (1..n)
  BY <1>1 DEF RunsOf
<1>4. IsFiniteSet(RunsOf(a))
  BY <1>2, <1>3, FS_Subset
<1> QED  BY <1>4, FS_CardinalityType

LEMMA Readings ==
    ASSUME TypeOK
    PROVE  agent_life + rejoins - 1 \in Nat
<1>1. PICK l \in Nat \ {0}, j \in Nat : l = agent_life /\ j = rejoins
  BY PipelineBoundsAssumption DEF TypeOK
<1>2. l + j - 1 \in Nat
  OBVIOUS
<1> QED  BY <1>1, <1>2

(* A step that records no run of a: either the handler does not take it up,*)
(* or it takes up another copy.                                            *)
LEMMA CountKept ==
    ASSUME TypeOK, IsFiniteSet(Delivered), IsFiniteSet(Delivered)', NEW a, Counted(a),
           RunsOf(a)' = RunsOf(a), UNCHANGED <<agent_life, rejoins>>,
           Copies(a) \subseteq Copies(a)', CopiesRead(a) \subseteq CopiesRead(a)',
           \/ Awaited(a)' = 0 \/ Awaited(a)' = Awaited(a)
           \/ \E po \in CopiesRead(a)' : po \notin CopiesRead(a)
    PROVE  Counted(a)'
<1>1. /\ Copies(a) \subseteq Delivered /\ CopiesRead(a) \subseteq Copies(a)
      /\ Copies(a)' \subseteq Delivered' /\ CopiesRead(a)' \subseteq Copies(a)'
  BY DEF Copies, CopiesRead
<1>2. PICK c \in Nat, r \in Nat : c = Cardinality(Copies(a)) /\ r = Cardinality(CopiesRead(a))
  BY <1>1, FiniteParts
<1>3. IsFiniteSet(Copies(a)') /\ IsFiniteSet(CopiesRead(a)')
  BY <1>1, FiniteParts
<1>4. PICK d \in Nat, s \in Nat : d = Cardinality(Copies(a)') /\ s = Cardinality(CopiesRead(a)')
  BY <1>3, FS_CardinalityType
<1>5. c <= d /\ r <= s
  BY <1>2, <1>3, <1>4, FS_Subset
<1>6. (\E po \in CopiesRead(a)' : po \notin CopiesRead(a)) => r # s
  BY <1>2, <1>3, <1>4, FS_Subset
<1>7. PICK e \in Nat : e = agent_life + rejoins - 1
  BY Readings
<1>8. PICK k \in Nat : k = Cardinality(RunsOf(a)) /\ Cardinality(RunsOf(a))' = k
  BY RunsAreFinite
<1>9. PICK w \in 0..1, v \in 0..1 : w = Awaited(a) /\ v = Awaited(a)'
  BY DEF Awaited
<1>10. k + w <= c * e + r
  BY <1>2, <1>7, <1>8, <1>9 DEF Counted
<1>11. c * e <= d * e /\ c * e \in Nat /\ d * e \in Nat
  BY <1>5, MoreCopies
<1>12. PICK x \in Nat, y \in Nat : x = c * e /\ y = d * e
  BY <1>11
<1>13. k + v <= y + s
  <2>1. CASE v = 0 \/ v = w
    BY <1>5, <1>10, <1>11, <1>12, <2>1
  <2>2. CASE r # s
    BY <1>5, <1>10, <1>11, <1>12, <2>2
  <2> QED  BY <1>6, <1>9, <2>1, <2>2
<1> QED  BY <1>4, <1>7, <1>8, <1>9, <1>12, <1>13 DEF Counted

(* A reading that starts over passes every copy once more at most.         *)
LEMMA CountAgain ==
    ASSUME TypeOK, IsFiniteSet(Delivered), NEW a, Counted(a),
           RunsOf(a)' = RunsOf(a), Copies(a)' = Copies(a), Awaited(a)' = 0,
           NEW e \in Nat, agent_life + rejoins - 1 = e, agent_life' + rejoins' - 1 = e + 1
    PROVE  Counted(a)'
<1>1. /\ Copies(a) \subseteq Delivered /\ CopiesRead(a) \subseteq Copies(a)
      /\ CopiesRead(a)' \subseteq Copies(a)
  BY DEF Copies, CopiesRead
<1>2. PICK c \in Nat, r \in Nat :
         c = Cardinality(Copies(a)) /\ r = Cardinality(CopiesRead(a)) /\ r <= c
  BY <1>1, FiniteParts
<1>3. PICK s \in Nat : s = Cardinality(CopiesRead(a)')
  BY <1>1, FiniteParts
<1>4. PICK k \in Nat : k = Cardinality(RunsOf(a)) /\ Cardinality(RunsOf(a))' = k
  BY RunsAreFinite
<1>5. PICK w \in 0..1 : w = Awaited(a)
  BY DEF Awaited
<1>6. k + w <= c * e + r
  BY <1>2, <1>4, <1>5 DEF Counted
<1>7. c * e + r <= c * (e + 1) /\ c * e \in Nat /\ c * (e + 1) \in Nat
  BY <1>2, ReadAgain
<1>8. PICK x \in Nat, y \in Nat : x = c * e /\ y = c * (e + 1)
  BY <1>7
<1>9. k + 0 <= y + s
  BY <1>6, <1>7, <1>8
<1>10. Cardinality(Copies(a))' = c
  BY <1>2
<1> QED  BY <1>3, <1>4, <1>8, <1>9, <1>10 DEF Counted

(* A run recorded is no longer awaited.                                    *)
LEMMA PersistCounts ==
    ASSUME TypeOK, RunsCounted, PersistRun
    PROVE  RunsCounted'
<1>1. /\ UNCHANGED <<rows, topic, position, agent_life, rejoins>>
      /\ pc = "persist"
      /\ (pc' = "finish" /\ UNCHANGED alert) \/ (pc' = "poll" /\ alert' = NoAlert)
  BY DEF PersistRun, Raise, Return, detector_vars, source_vars, producer_vars, consumer_vars
<1>2. PICK n \in Nat : n = Len(agent_runs)
  BY LenProperties DEF TypeOK
<1>3. /\ DOMAIN agent_runs = 1..n /\ DOMAIN agent_runs' = 1..(n + 1)
      /\ \A i \in 1..n : agent_runs'[i] = agent_runs[i]
      /\ agent_runs'[n + 1].alert = alert
  BY <1>2, PersistEffect
<1>4. 1..(n + 1) = (1..n) \cup {n + 1} /\ n + 1 \notin 1..n
  OBVIOUS
<1> SUFFICES ASSUME NEW a \in DOMAIN rows PROVE Counted(a)'
  BY <1>1 DEF RunsCounted
<1>5. Counted(a)
  BY DEF RunsCounted
<1>6. Copies(a)' = Copies(a) /\ CopiesRead(a)' = CopiesRead(a)
  BY <1>1 DEF Copies, CopiesRead, Delivered
<1>7. Awaited(a)' = 0
  <2>1. a # NoAlert
    BY RowsDomain, NoAlertAssumption
  <2> QED  BY <1>1, <2>1 DEF Awaited
<1>8. Cardinality(RunsOf(a))' = Cardinality(RunsOf(a)) + Awaited(a)
  <2>1. IsFiniteSet(RunsOf(a)) /\ Cardinality(RunsOf(a)) \in Nat
    BY RunsAreFinite
  <2>2. CASE a = alert
    <3>1. RunsOf(a)' = RunsOf(a) \cup {n + 1} /\ n + 1 \notin RunsOf(a)
      BY <1>3, <1>4, <2>2 DEF RunsOf
    <3>2. Awaited(a) = 1
      BY <1>1, <2>2 DEF Awaited
    <3> QED  BY <2>1, <3>1, <3>2, FS_AddElement
  <2>3. CASE a # alert
    <3>1. RunsOf(a)' = RunsOf(a)
      BY <1>3, <1>4, <2>3 DEF RunsOf
    <3>2. Awaited(a) = 0
      BY <2>3 DEF Awaited
    <3> QED  BY <2>1, <3>1, <3>2
  <2> QED  BY <2>2, <2>3
<1>9. Cardinality(RunsOf(a))' + 0 = Cardinality(RunsOf(a)) + Awaited(a)
  BY <1>8, RunsAreFinite DEF Awaited
<1> QED  BY <1>1, <1>5, <1>6, <1>7, <1>9 DEF Counted

(* The next message is a copy not read before.                             *)
LEMMA PollCounts ==
    ASSUME TypeOK, IsFiniteSet(Delivered), RunsCounted, NEW p \in TopicPartitions, Poll(p)
    PROVE  RunsCounted'
<1>1. UNCHANGED <<rows, topic, agent_life, rejoins, agent_runs>> /\ pc' = "mark"
  BY DEF Poll, detector_vars, source_vars, producer_vars
<1>2. PICK n \in Nat : n = position[p]
  BY PollEffect
<1>3. /\ position'[p] = n + 1 /\ alert' = topic[p][n + 1] /\ n + 1 \in DOMAIN topic[p]
      /\ \A q \in TopicPartitions \ {p} : position'[q] = position[q]
  BY <1>2, PollEffect, EntriesAreRows
<1>4. \A po \in Delivered : \E q \in TopicPartitions : \E i \in Nat : po = <<q, i>>
  <2> SUFFICES ASSUME NEW po \in Delivered
               PROVE  \E q \in TopicPartitions : \E i \in Nat : po = <<q, i>>
    OBVIOUS
  <2>1. PICK q \in TopicPartitions : po \in {q} \X DOMAIN topic[q]
    BY DEF Delivered
  <2>2. PICK i \in DOMAIN topic[q] : po = <<q, i>>
    BY <2>1
  <2>3. i \in Nat
    BY EntriesAreRows
  <2> QED  BY <2>2, <2>3
<1>5. <<p, n + 1>> \in Delivered
  BY <1>3 DEF Delivered
<1> SUFFICES ASSUME NEW a \in DOMAIN rows PROVE Counted(a)'
  BY <1>1 DEF RunsCounted
<1>6. RunsOf(a)' = RunsOf(a) /\ Copies(a)' = Copies(a) /\ Delivered' = Delivered
  BY <1>1 DEF RunsOf, Copies, Delivered
<1>7. CopiesRead(a) \subseteq CopiesRead(a)'
  <2> SUFFICES ASSUME NEW po \in CopiesRead(a) PROVE po \in CopiesRead(a)'
    OBVIOUS
  <2>1. po \in Delivered /\ po \in Copies(a) /\ po[2] <= position[po[1]]
    BY DEF CopiesRead, Copies
  <2>2. PICK q \in TopicPartitions : \E i \in Nat : po = <<q, i>>
    BY <1>4, <2>1
  <2>3. PICK i \in Nat : po = <<q, i>>
    BY <2>2
  <2>4. i <= position[q]
    BY <2>1, <2>3
  <2>5. i <= position'[q]
    BY <1>2, <1>3, <2>4
  <2> QED  BY <1>6, <2>1, <2>3, <2>5 DEF CopiesRead
<1>8. CASE a = alert'
  <2>1. <<p, n + 1>> \in Copies(a)'
    BY <1>1, <1>3, <1>5, <1>6, <1>8 DEF Copies
  <2>2. <<p, n + 1>> \in CopiesRead(a)'
    <3>1. n + 1 <= position'[p]
      BY <1>3
    <3> QED  BY <2>1, <3>1 DEF CopiesRead
  <2>3. <<p, n + 1>> \notin CopiesRead(a)
    <3>1. ~(n + 1 <= position[p])
      BY <1>2
    <3> QED  BY <3>1 DEF CopiesRead
  <2> QED  BY <1>1, <1>6, <1>7, <2>2, <2>3, CountKept DEF RunsCounted
<1>9. CASE a # alert'
  <2>1. Awaited(a)' = 0
    BY <1>9 DEF Awaited
  <2> QED  BY <1>1, <1>6, <1>7, <2>1, CountKept DEF RunsCounted
<1> QED  BY <1>8, <1>9

(* New copies are not read yet.                                            *)
LEMMA TransportCounts ==
    ASSUME TypeOK, SentInv, SentInv', RunsCounted,
           NEW p \in TopicPartitions, Send(p) \/ SendFails(p)
    PROVE  RunsCounted'
<1>1. /\ UNCHANGED <<rows, position, agent_life, rejoins, agent_runs, pc, alert>>
      /\ Deliver(p) \/ Retry(p) \/ Expire(p)
  BY DEF Send, SendFails, source_vars, agent_vars, consumer_vars
<1>2. PICK m \in Nat : \E n \in Nat : Moved(p, m, n)
  <2>1. /\ queue \in [TopicPartitions -> Seq(DOMAIN rows)]
        /\ topic \in [TopicPartitions -> Seq(DOMAIN rows)]
    BY DEF TypeOK
  <2> QED  BY <1>1, <2>1, TransportMoves
<1>3. PICK n \in Nat : Moved(p, m, n)
  BY <1>2
<1>4. \A q \in TopicPartitions :
         \A i \in DOMAIN topic[q] : i \in DOMAIN topic'[q] /\ topic'[q][i] = topic[q][i]
  BY <1>3, MovedEntries
<1> SUFFICES ASSUME NEW a \in DOMAIN rows PROVE Counted(a)'
  BY <1>1 DEF RunsCounted
<1>5. Copies(a) \subseteq Copies(a)'
  <2> SUFFICES ASSUME NEW po \in Copies(a) PROVE po \in Copies(a)'
    OBVIOUS
  <2>1. po \in Delivered /\ topic[po[1]][po[2]] = a
    BY DEF Copies
  <2>2. PICK q \in TopicPartitions : po \in {q} \X DOMAIN topic[q]
    BY <2>1 DEF Delivered
  <2>3. PICK i \in DOMAIN topic[q] : po = <<q, i>>
    BY <2>2
  <2>4. po \in {q} \X DOMAIN topic'[q] /\ topic'[po[1]][po[2]] = a
    BY <1>4, <2>1, <2>3
  <2> QED  BY <2>4 DEF Copies, Delivered
<1>6. CopiesRead(a) \subseteq CopiesRead(a)'
  BY <1>1, <1>5 DEF CopiesRead
<1>7. RunsOf(a)' = RunsOf(a) /\ Awaited(a)' = Awaited(a)
  BY <1>1 DEF RunsOf, Awaited
<1>8. IsFiniteSet(Delivered) /\ IsFiniteSet(Delivered)'
  BY DEF SentInv
<1> QED  BY <1>1, <1>5, <1>6, <1>7, <1>8, CountKept DEF RunsCounted

(* A new row has no run and nobody holds it.                               *)
LEMMA RaiseCounts ==
    ASSUME TypeOK, SentInv, RunsNameRows, RunsCounted, RaiseAlert
    PROVE  RunsCounted'
<1>1. UNCHANGED <<topic, position, agent_life, rejoins, agent_runs, pc, alert>>
  BY DEF RaiseAlert, producer_vars, agent_vars, consumer_vars
<1>2. \A a \in DOMAIN rows' : a \in DOMAIN rows \/ (a \notin DOMAIN rows /\ a \in Nat)
  <2>1. PICK h \in Hosts : rows' = Append(rows, h)
    BY DEF RaiseAlert, InsertRow
  <2>2. rows' \in Seq(Hosts)
    BY <2>1, AppendProperties DEF TypeOK
  <2> QED  BY <2>2, LenProperties
<1>3. \A a : /\ RunsOf(a)' = RunsOf(a) /\ Copies(a)' = Copies(a) /\ CopiesRead(a)' = CopiesRead(a)
             /\ Awaited(a)' = Awaited(a)
  BY <1>1 DEF RunsOf, Copies, CopiesRead, Delivered, Awaited
<1>4. ASSUME NEW a \in DOMAIN rows'
      PROVE  Counted(a)
  <2>1. CASE a \in DOMAIN rows
    BY <2>1 DEF RunsCounted
  <2>2. CASE a \notin DOMAIN rows /\ a \in Nat
    <3>1. RunsOf(a) = {}
      BY <2>2 DEF RunsOf, RunsNameRows
    <3>2. Awaited(a) = 0
      BY <2>2, NoAlertAssumption DEF Awaited, TypeOK
    <3>3. /\ Copies(a) \subseteq Delivered /\ CopiesRead(a) \subseteq Copies(a)
          /\ IsFiniteSet(Delivered)
      BY DEF Copies, CopiesRead, SentInv
    <3>4. PICK c \in Nat, r \in Nat :
             c = Cardinality(Copies(a)) /\ r = Cardinality(CopiesRead(a))
      BY <3>3, FiniteParts
    <3>5. PICK e \in Nat : e = agent_life + rejoins - 1
      BY Readings
    <3>6. c * e \in Nat /\ 0 + 0 <= c * e + r
      <4>1. c * e \in Nat
        OBVIOUS
      <4>2. PICK x \in Nat : x = c * e
        BY <4>1
      <4> QED  BY <4>2
    <3> QED  BY <3>1, <3>2, <3>4, <3>5, <3>6, FS_EmptySet DEF Counted
  <2> QED  BY <1>2, <2>1, <2>2
<1>5. \A a : Counted(a)' <=> Counted(a)
  BY <1>1, <1>3 DEF Counted
<1> QED  BY <1>4, <1>5 DEF RunsCounted

LEMMA CountStep ==
    ASSUME TypeOK, SentInv, SentInv', RunsNameRows, RunsCounted, [Next]_vars
    PROVE  RunsCounted'
<1> USE DEF detector_vars, source_vars, producer_vars, agent_vars, consumer_vars
<1>1. IsFiniteSet(Delivered) /\ IsFiniteSet(Delivered)'
  BY DEF SentInv
<1>2. \A a \in DOMAIN rows : a # NoAlert
  BY RowsDomain, NoAlertAssumption
<1>3. CASE /\ UNCHANGED <<rows, topic, position, agent_life, rejoins, agent_runs>>
           /\ \/ UNCHANGED <<pc, alert>>
              \/ alert' = NoAlert
              \/ alert' = alert /\ pc # "finish" /\ pc' # "finish"
  <2> SUFFICES ASSUME NEW a \in DOMAIN rows PROVE Counted(a)'
    BY <1>3 DEF RunsCounted
  <2>1. RunsOf(a)' = RunsOf(a) /\ Copies(a)' = Copies(a) /\ CopiesRead(a)' = CopiesRead(a)
    BY <1>3 DEF RunsOf, Copies, CopiesRead, Delivered
  <2>2. Awaited(a)' = 0 \/ Awaited(a)' = Awaited(a)
    BY <1>2, <1>3 DEF Awaited
  <2>3. Counted(a) /\ UNCHANGED <<agent_life, rejoins>>
    BY <1>3 DEF RunsCounted
  <2> QED  BY <1>1, <2>1, <2>2, <2>3, CountKept
<1>4. CASE ProduceAlert \/ AbandonAlert \/ DetectorCrash \/ CommitOffsets \/ UNCHANGED vars
  BY <1>3, <1>4
  DEF ProduceAlert, Publish, Enqueue, AbandonAlert, Abandon, DetectorCrash, LoseQueue,
      CommitOffsets, vars
<1>5. CASE MarkInvestigating \/ Investigate \/ FinishAlert \/ HandlerFails
  BY <1>3, <1>5
  DEF MarkInvestigating, Investigate, Catch, FinishAlert, HandlerFails, Raise, Return
<1>6. CASE AgentCrash \/ Rejoin
  <2>1. UNCHANGED <<rows, topic, agent_runs>> /\ alert' = NoAlert
    BY <1>6 DEF AgentCrash, Rejoin, Return, TypeOK
  <2>2. PICK e \in Nat : agent_life + rejoins - 1 = e /\ agent_life' + rejoins' - 1 = e + 1
    <3>1. PICK l \in Nat \ {0}, j \in Nat : l = agent_life /\ j = rejoins
      BY PipelineBoundsAssumption DEF TypeOK
    <3>2. (agent_life' = l + 1 /\ rejoins' = j) \/ (agent_life' = l /\ rejoins' = j + 1)
      BY <1>6, <3>1 DEF AgentCrash, Rejoin
    <3>3. PICK e \in Nat : l + j - 1 = e /\ (l + 1) + j - 1 = e + 1 /\ l + (j + 1) - 1 = e + 1
      <4>1. /\ l + j - 1 \in Nat
            /\ (l + 1) + j - 1 = (l + j - 1) + 1 /\ l + (j + 1) - 1 = (l + j - 1) + 1
        OBVIOUS
      <4> QED  BY <4>1
    <3> QED  BY <3>1, <3>2, <3>3
  <2> SUFFICES ASSUME NEW a \in DOMAIN rows PROVE Counted(a)'
    BY <2>1 DEF RunsCounted
  <2>3. RunsOf(a)' = RunsOf(a) /\ Copies(a)' = Copies(a) /\ Awaited(a)' = 0
    BY <1>2, <2>1 DEF RunsOf, Copies, Delivered, Awaited
  <2>4. Counted(a)
    BY DEF RunsCounted
  <2> QED  BY <1>1, <2>2, <2>3, <2>4, CountAgain
<1> QED
  BY <1>1, <1>4, <1>5, <1>6, RaiseCounts, TransportCounts, PollCounts, PersistCounts
  DEF Next, Source, Transport, Agent, Handle

(* Each reading of a partition gives a copy of an alert one run at most,   *)
(* copies come only from retries and lie in the partition of their host:   *)
(* nothing is investigated more often, however messages are sent again and *)
(* read again (kafka_utils.py:20-42, 45-57, 71).                           *)
THEOREM RunsAreBounded == Spec => []RunsBound
<1> DEFINE Inv == /\ TypeOK /\ OffsetsInLog /\ LogInv /\ RunsInv
                  /\ SentInv /\ RunsCounted
<1>1. Init => Inv
  <2> SUFFICES ASSUME Init PROVE Inv
    OBVIOUS
  <2>1. TypeOK /\ OffsetsInLog /\ LogInv /\ RunsInv
    BY ReadingInit
  <2>2. /\ rows = <<>> /\ produced = <<>> /\ retries = 0
        /\ queue = [p \in TopicPartitions |-> <<>>] /\ topic = [p \in TopicPartitions |-> <<>>]
    BY DEF Init, SourceInit, ProducerInit
  <2>3. Held = {} /\ Delivered = {}
    <3>1. Held = Places(queue) /\ Delivered = Places(topic)
      BY DEF Held, Delivered, Places
    <3> QED  BY <2>2, <3>1, NoneHeld
  <2>4. SentInv
    <3>1. Len(produced) = 0
      BY <2>2, EmptySeq
    <3> QED  BY <2>2, <2>3, <3>1, FS_EmptySet DEF SentInv, Queued
  <2>5. RunsCounted
    BY <2>2 DEF RunsCounted
  <2> QED  BY <2>1, <2>4, <2>5
<1>2. Inv /\ TypeOK' /\ [Next]_vars => Inv'
  BY OffsetsStep, LogStep, RunsStep, SentStep, CountStep DEF RunsInv
<1>3. Inv => RunsBound
  <2> SUFFICES ASSUME Inv PROVE RunsBound
    OBVIOUS
  <2>1. ASSUME NEW a \in DOMAIN status
        PROVE  Cardinality(RunsOf(a)) <= Cardinality(Copies(a)) * (agent_life + rejoins)
    <3>1. a \in DOMAIN rows /\ Counted(a)
      BY RowsDomain DEF RunsCounted
    <3>2. /\ Copies(a) \subseteq Delivered /\ CopiesRead(a) \subseteq Copies(a)
          /\ IsFiniteSet(Delivered)
      BY DEF Copies, CopiesRead, SentInv
    <3>3. PICK c \in Nat, r \in Nat :
             c = Cardinality(Copies(a)) /\ r = Cardinality(CopiesRead(a)) /\ r <= c
      BY <3>2, FiniteParts
    <3>4. PICK e \in Nat : e = agent_life + rejoins - 1 /\ agent_life + rejoins = e + 1
      <4>1. PICK l \in Nat \ {0}, j \in Nat : l = agent_life /\ j = rejoins
        BY PipelineBoundsAssumption DEF TypeOK
      <4>2. l + j - 1 \in Nat /\ l + j = (l + j - 1) + 1
        OBVIOUS
      <4> QED  BY <4>1, <4>2
    <3>5. PICK k \in Nat, w \in 0..1 : k = Cardinality(RunsOf(a)) /\ w = Awaited(a)
      BY RunsAreFinite DEF Awaited
    <3>6. k + w <= c * e + r
      BY <3>1, <3>3, <3>4, <3>5 DEF Counted
    <3>7. c * e + r <= c * (e + 1) /\ c * e \in Nat /\ c * (e + 1) \in Nat
      BY <3>3, ReadAgain
    <3>8. PICK x \in Nat, y \in Nat : x = c * e /\ y = c * (e + 1)
      BY <3>7
    <3>9. k <= y
      BY <3>6, <3>7, <3>8
    <3> QED  BY <3>3, <3>4, <3>5, <3>8, <3>9
  <2>2. ASSUME NEW a \in DOMAIN status, NEW po \in Copies(a)
        PROVE  po[1] = AlertPartitionOf[rows[a]]
    <3>1. po \in Delivered /\ topic[po[1]][po[2]] = a
      BY DEF Copies
    <3>2. PICK q \in TopicPartitions : po \in {q} \X DOMAIN topic[q]
      BY <3>1 DEF Delivered
    <3>3. PICK i \in DOMAIN topic[q] : po = <<q, i>>
      BY <3>2
    <3>4. PartitionOf(topic[q][i]) = q
      BY DEF LogInv, KeyedByHost
    <3> QED  BY <3>1, <3>3, <3>4 DEF PartitionOf
  <2>3. Cardinality(Delivered) <= Len(produced) + retries
    BY SentNumbers DEF SentInv
  <2> QED  BY <2>1, <2>2, <2>3 DEF RunsBound
<1> HIDE DEF Inv
<1> QED  BY <1>1, <1>2, <1>3, TypeCorrect, PTL DEF Spec
=============================================================================
