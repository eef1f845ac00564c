------------------------------ MODULE Telemetry ------------------------------
(***************************************************************************)
(* The generator service (services/generator/app/main.py) after start-up:  *)
(* every tick it produces one event per host to `telemetry.raw', and every *)
(* FlushInterval ticks it waits for its producer's queue.  Samples are what*)
(* AnomalyInjector makes of them; the signal underneath is left out.  An   *)
(* event is named by its position in `generated'.                          *)
(***************************************************************************)
EXTENDS AnomalyInjector, KafkaProducer, FiniteSets

CONSTANTS
    HostProfiles,   \* HOST_PROFILES, a sequence of hosts
    PartitionOf,    \* the partition a host's key hashes to
    FlushInterval,  \* the literal 20 of run()
    MaxTime,        \* bound: ticks of the wall clock
    MaxLives,       \* bound: incarnations of the process
    MaxTimeouts     \* bound: flushes that give up

Hosts == Range(HostProfiles)

(* host_profiles.json names every host once; the generators and injectors *)
(* are dicts keyed by it.                                                  *)
ASSUME GeneratorAssumption ==
    /\ HostProfiles \in Seq(Hosts) /\ IsInjective(HostProfiles)
    /\ PartitionOf \in [Hosts -> TopicPartitions]
    /\ FlushInterval \in Nat \ {0}
    /\ MaxTime \in Nat
    /\ MaxLives \in Nat \ {0}
    /\ MaxTimeouts \in Nat

VARIABLES
    pc,          \* "tick", or "flush" while producer.flush(5) waits
    next_host,   \* the index of the next profile of this tick's for loop
    tick_count,
    clock,       \* wall-clock time, in ticks
    injectors,   \* the injectors, by host
    generated,   \* every event this system has produced, oldest first
    life,        \* the incarnation of the process
    timeouts     \* flushes that gave up so far

local_vars == <<next_host, tick_count, injectors>>

vars == <<pc, local_vars, clock, generated, life, timeouts, producer_vars>>

(* A record of telemetry.raw, and the incarnation that produced it.        *)
Event == [host : Hosts, ts : 0..MaxTime, sample : Samples, life : 1..MaxLives]

TypeOK ==
    /\ pc \in {"tick", "flush"}
    /\ next_host \in 1..(Len(HostProfiles) + 1)
    /\ tick_count \in 0..(clock + 1)
    /\ clock \in 0..MaxTime
    /\ injectors \in [Hosts -> Injector]
    /\ \A h \in Hosts :
          injectors[h].type # "none" => injectors[h].tick_index < injectors[h].duration
    /\ generated \in Seq(Event)
    /\ queue \in [TopicPartitions -> Seq(DOMAIN generated)]
    /\ topic \in [TopicPartitions -> Seq(DOMAIN generated)]
    /\ Queued <= QueueLimit
    /\ retries \in 0..MaxRetries
    /\ expired \in 0..MaxExpired
    /\ life \in 1..MaxLives
    /\ timeouts \in 0..MaxTimeouts

FreshInjectors == [h \in Hosts |-> FreshInjector]

Init ==
    /\ ProducerInit
    /\ pc = "tick"
    /\ next_host = 1
    /\ tick_count = 0
    /\ clock = 0
    /\ injectors = FreshInjectors
    /\ generated = <<>>
    /\ life = 1
    /\ timeouts = 0
-----------------------------------------------------------------------------
(* One round of the loop over HOST_PROFILES: tick, inject, produce.        *)
ProduceEvent ==
    /\ pc = "tick"
    /\ next_host <= Len(HostProfiles)
    /\ LET host == HostProfiles[next_host]
       IN  \E step \in MaybeInject(injectors[host]) :
             /\ injectors' = [injectors EXCEPT ![host] = step.injector]
             /\ generated' = Append(generated,
                   [host |-> host, ts |-> clock, sample |-> step.sample, life |-> life])
             /\ Enqueue(PartitionOf[host], Len(generated'))
    /\ next_host' = next_host + 1
    /\ UNCHANGED <<pc, tick_count, clock, life, timeouts>>

(* time.sleep until the next tick is due.                                  *)
Sleep ==
    /\ clock < MaxTime
    /\ clock' = clock + 1
    /\ next_host' = 1
    /\ pc' = "tick"

(* Faulty: the flush comes one tick late.                                  *)
FlushDueLate(count) == count % (FlushInterval + 1) = 0

FlushDue(count) == count % FlushInterval = 0

(* The end of the for loop.                                                *)
EndTick ==
    /\ pc = "tick"
    /\ next_host > Len(HostProfiles)
    /\ tick_count' = tick_count + 1
    /\ \/ FlushDue(tick_count') /\ pc' = "flush" /\ UNCHANGED <<clock, next_host>>
       \/ ~FlushDue(tick_count') /\ Sleep
    /\ UNCHANGED <<injectors, generated, life, timeouts, producer_vars>>

(* Faulty: the queue is not waited for.                                    *)
FlushAtOnce ==
    /\ pc = "flush"
    /\ Sleep
    /\ UNCHANGED <<tick_count, injectors, generated, life, timeouts, producer_vars>>

(* producer.flush(5) returns: nothing is queued any more, or 5 s are over. *)
Flush ==
    /\ pc = "flush"
    /\ \/ Queued = 0 /\ UNCHANGED timeouts
       \/ Queued > 0 /\ timeouts < MaxTimeouts /\ timeouts' = timeouts + 1
    /\ Sleep
    /\ UNCHANGED <<tick_count, injectors, generated, life, producer_vars>>

(* The process ends and is restarted, some ticks later, with new injectors *)
(* and a new producer.                                                     *)
Restart ==
    /\ life < MaxLives
    /\ clock < MaxTime
    /\ life' = life + 1
    /\ clock' = clock + 1
    /\ pc' = "tick"
    /\ next_host' = 1
    /\ tick_count' = 0
    /\ injectors' = FreshInjectors
    /\ LoseQueue
    /\ UNCHANGED <<generated, timeouts>>

Crash == Restart

(* produce() raises BufferError; nothing catches it.                       *)
Overflow ==
    /\ pc = "tick"
    /\ next_host <= Len(HostProfiles)
    /\ QueueIsFull
    /\ Restart

(* librdkafka's thread.                                                    *)
Transport ==
    /\ \E p \in TopicPartitions : Deliver(p) \/ Retry(p) \/ Expire(p)
    /\ UNCHANGED <<pc, local_vars, clock, generated, life, timeouts>>

Next == ProduceEvent \/ EndTick \/ Flush \/ Crash \/ Overflow \/ Transport

Spec == Init /\ [][Next]_vars
-----------------------------------------------------------------------------
(* Two events of one injector: of a host, in one life of the process.      *)
OfOneInjector(k, m) ==
    generated[k].host = generated[m].host /\ generated[k].life = generated[m].life

(* The perturbation that begins with event k runs through its ticks one by *)
(* one and is followed by a cooldown without any.                          *)
Follows(m, k) ==
    LET first == generated[k].sample
        later == generated[m].ts - generated[k].ts
    IN  /\ later < first.duration =>
              generated[m].sample = [first EXCEPT !.tick = later + 1]
        /\ later \in first.duration..(first.duration + CooldownTicks - 1) =>
              generated[m].sample.type = "none"

(* Event m, in tick t of its perturbation, comes one tick after event j,   *)
(* which is in tick t - 1 of it.                                           *)
IsNextAfter(m, j) ==
    /\ generated[m].ts = generated[j].ts + 1
    /\ generated[m].sample.tick > 1 =>
          generated[m].sample.tick = generated[j].sample.tick + 1

(* `a cooldown after any anomaly so events don't overlap or chain          *)
(* back-to-back' (anomaly_injector.py:14-18): in one life of the process a *)
(* host is sampled every tick, its perturbations are complete, in step, and*)
(* at least the cooldown apart; nothing is perturbed in the middle of      *)
(* nowhere.                                                                *)
PerturbationsAreSpaced ==
    \A m \in DOMAIN generated :
        LET earlier == {k \in 1..(m - 1) : OfOneInjector(k, m)}
        IN  /\ \A k \in earlier : generated[k].sample.tick = 1 => Follows(m, k)
            /\ earlier # {} \/ generated[m].sample.tick > 1 =>
                  \E j \in earlier : IsNextAfter(m, j)

(* Where the logs go down, or repeat themselves.                           *)
Descents(logs) ==
    UNION {{p} \X {i \in 1..(Len(logs[p]) - 1) : logs[p][i] >= logs[p][i + 1]} :
           p \in TopicPartitions}

(* What the detector may assume of `telemetry.raw': each host's events are *)
(* in the partition of its key, in the order in which they were generated; *)
(* a retry by the producer repeats an event or puts it behind later ones,  *)
(* and disturbs the order in one place only (kafka_utils.py:19-42,         *)
(* main.py:73-80).                                                         *)
DisorderBound ==
    /\ \A p \in TopicPartitions : \A i \in DOMAIN topic[p] :
          PartitionOf[generated[topic[p][i]].host] = p
    /\ Cardinality(Descents(topic)) <= retries

InFlightOrDelivered == UNION {Range(queue[p]) \cup Range(topic[p]) : p \in TopicPartitions}

Lost == DOMAIN generated \ InFlightOrDelivered

(* Events produced between two flushes.                                    *)
FlushBatch == FlushInterval * Len(HostProfiles)

(* The periodic flush bounds what the producer holds: a queue of more than *)
(* one interval's events, and so a BufferError, needs a flush that gave up *)
(* (main.py:82-85).                                                        *)
BacklogBound == Queued <= (timeouts + 1) * FlushBatch

(* An event is lost only by being given up or with its process, and a      *)
(* process takes no more with it than one flush interval (and one more per *)
(* flush that gave up): the end of what it sent to the partition, when     *)
(* nothing was given up or sent again.                                     *)
TelemetryLossBound ==
    /\ Cardinality(Lost) <= expired + (life - 1) * (timeouts + 1) * FlushBatch
    /\ expired = 0 /\ retries = 0 =>
          \A k \in Lost, m \in DOMAIN generated :
             /\ generated[m].life = generated[k].life
             /\ PartitionOf[generated[m].host] = PartitionOf[generated[k].host]
             /\ m > k
             => m \in Lost
    /\ \A k \in Lost : expired = 0 => generated[k].life < life
=============================================================================
