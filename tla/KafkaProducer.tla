---------------------------- MODULE KafkaProducer ----------------------------
(***************************************************************************)
(* The producer of common/kafka_utils.py (make_producer, produce_json) and *)
(* the topic behind it.  produce() only puts a message into the client's   *)
(* bounded queue; librdkafka's thread sends it, retries it and gives it up.*)
(* A message is any value; each partition of the topic is a log.           *)
(***************************************************************************)
EXTENDS Naturals, Sequences, FiniteSets, SequencesExt

CONSTANTS
    TopicPartitions,  \* partitions of the topic
    QueueLimit,       \* queue.buffering.max.messages
    MaxRetries,       \* bound: produce requests sent again
    MaxExpired        \* bound: messages the producer gives up

ASSUME ProducerAssumption ==
    /\ QueueLimit \in Nat \ {0}
    /\ MaxRetries \in Nat
    /\ MaxExpired \in Nat

VARIABLES
    queue,    \* messages the client holds, per partition
    topic,    \* the log of the topic, per partition
    retries,  \* produce requests sent again so far
    expired   \* messages given up so far

producer_vars == <<queue, topic, retries, expired>>

ProducerInit ==
    /\ queue = [p \in TopicPartitions |-> <<>>]
    /\ topic = [p \in TopicPartitions |-> <<>>]
    /\ retries = 0
    /\ expired = 0

(* The places of the queue that are taken.                                 *)
Held == UNION {{p} \X DOMAIN queue[p] : p \in TopicPartitions}

Queued == Cardinality(Held)

(* Faulty: one message too many is accepted.                               *)
QueueIsFullOneMore == Queued > QueueLimit

(* produce() raises BufferError instead of queueing the message.           *)
QueueIsFull == Queued >= QueueLimit

(* Faulty: without its key a message goes to any partition.                *)
EnqueueUnkeyed(p, message) ==
    /\ ~QueueIsFull
    /\ \E q \in TopicPartitions : queue' = [queue EXCEPT ![q] = Append(@, message)]
    /\ UNCHANGED <<topic, retries, expired>>

(* produce_json: the key decides the partition.                            *)
Enqueue(p, message) ==
    /\ ~QueueIsFull
    /\ queue' = [queue EXCEPT ![p] = Append(@, message)]
    /\ UNCHANGED <<topic, retries, expired>>

(* acks=all: the broker has the message and the producer knows it.         *)
Deliver(p) ==
    /\ queue[p] # <<>>
    /\ topic' = [topic EXCEPT ![p] = Append(@, Head(queue[p]))]
    /\ queue' = [queue EXCEPT ![p] = Tail(@)]
    /\ UNCHANGED <<retries, expired>>

(* A request fails and is sent again, behind the messages in flight with it*)
(* since the producer is not idempotent; the broker may have its message.  *)
Retry(p) ==
    /\ queue[p] # <<>>
    /\ retries < MaxRetries
    /\ retries' = retries + 1
    /\ queue' = [queue EXCEPT ![p] = Append(Tail(@), Head(@))]
    /\ \/ topic' = [topic EXCEPT ![p] = Append(@, Head(queue[p]))]
       \/ UNCHANGED topic
    /\ UNCHANGED expired

(* message.timeout.ms passes: _delivery_report logs it, and that is all.   *)
Expire(p) ==
    /\ queue[p] # <<>>
    /\ expired < MaxExpired
    /\ expired' = expired + 1
    /\ queue' = [queue EXCEPT ![p] = Tail(@)]
    /\ UNCHANGED <<topic, retries>>

(* The process dies: what its client still holds is gone.                  *)
LoseQueue ==
    /\ queue' = [p \in TopicPartitions |-> <<>>]
    /\ UNCHANGED <<topic, retries, expired>>
=============================================================================
