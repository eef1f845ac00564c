--------------------------- MODULE TelemetryProofs ---------------------------
(***************************************************************************)
(* Theorems of the generator, for every number of hosts, partitions, ticks,*)
(* retries, expiries, lives and flushes that give up.                      *)
(***************************************************************************)
EXTENDS Telemetry, KafkaProducerProofs

(* Arithmetic                                                              *)

LEMMA Division ==
    ASSUME NEW F \in Nat \ {0}, NEW t \in Nat
    PROVE  t = F * (t \div F) + (t % F) /\ t \div F \in Nat /\ t % F \in 0..(F - 1)
OBVIOUS

LEMMA Remainder ==
    ASSUME NEW F \in Nat \ {0}, NEW q \in Nat, NEW r \in 0..(F - 1)
    PROVE  (F * q + r) % F = r
OBVIOUS

(* The next remainder is one more, or 0.                                   *)
LEMMA NextRemainder ==
    ASSUME NEW F \in Nat \ {0}, NEW t \in Nat
    PROVE  (t + 1) % F = (t % F) + 1 \/ (t + 1) % F = 0
<1>1. PICK q \in Nat, r \in 0..(F - 1) : t = F * q + r /\ r = t % F
  BY Division
<1>2. CASE r + 1 = F
  <2>1. PICK u \in Nat : u = F * q
    OBVIOUS
  <2>2. F * (q + 1) + 0 = u + F
    BY <2>1
  <2>3. t + 1 = u + F
    <3>1. t = u + r
      BY <1>1, <2>1
    <3> QED  BY <1>2, <3>1
  <2>4. q + 1 \in Nat /\ 0 \in 0..(F - 1)
    OBVIOUS
  <2>5. (F * (q + 1) + 0) % F = 0
    BY <2>4, Remainder
  <2> QED  BY <2>2, <2>3, <2>5
<1>3. CASE r + 1 # F
  <2>1. t + 1 = F * q + (r + 1) /\ r + 1 \in 0..(F - 1)
    BY <1>1, <1>3
  <2> QED  BY <1>1, <2>1, Remainder
<1> QED  BY <1>2, <1>3

(* What a tick adds to the backlog, once more or for the last time.        *)
LEMMA TickAdds ==
    ASSUME NEW N \in Nat, NEW F \in Nat \ {0}, NEW r \in 0..(F - 1)
    PROVE  r * N + N = (r + 1) * N /\ r * N + N <= F * N /\ F * N \in Nat /\ r * N \in Nat
<1>1. r * N + N = (r + 1) * N
  OBVIOUS
<1>2. PICK d \in Nat : F = (r + 1) + d
  <2>1. F - (r + 1) \in Nat /\ F = (r + 1) + (F - (r + 1))
    OBVIOUS
  <2> QED  BY <2>1
<1>3. F * N = (r + 1) * N + d * N /\ d * N \in Nat /\ (r + 1) * N \in Nat /\ r * N \in Nat
  BY <1>2
<1> QED  BY <1>1, <1>3

LEMMA OneFlushMore ==
    ASSUME NEW t \in Nat, NEW B \in Nat
    PROVE  (t + 1) * B = t * B + B /\ t * B \in Nat
OBVIOUS
-----------------------------------------------------------------------------
(* Types and the backlog                                                   *)

(* The loop waits for the producer at the end of every FlushInterval-th    *)
(* tick, before the clock moves on.                                        *)
TickInv ==
    /\ IsFiniteSet(Held)
    /\ pc = "flush" => tick_count <= clock + 1 /\ tick_count % FlushInterval = 0
    /\ pc = "tick" => tick_count <= clock

(* What this round and the ticks since the last flush have produced, on top*)
(* of an interval's events for every flush that gave up.                   *)
BacklogInv ==
    /\ pc = "flush" => Queued <= timeouts * FlushBatch + FlushBatch
    /\ pc = "tick" =>
          Queued <= timeouts * FlushBatch
                    + ((tick_count % FlushInterval) * Len(HostProfiles) + (next_host - 1))

LEMMA ProfilesType ==
    /\ Len(HostProfiles) \in Nat
    /\ DOMAIN HostProfiles = 1..Len(HostProfiles)
    /\ \A i \in 1..Len(HostProfiles) : HostProfiles[i] \in Hosts
<1>1. HostProfiles \in Seq(Hosts)
  BY GeneratorAssumption
<1> QED  BY <1>1, LenProperties, ElementOfSeq

LEMMA QueuedType == ASSUME IsFiniteSet(Held) PROVE Queued \in Nat
BY FS_CardinalityType DEF Queued

LEMMA InjectorType ==
    ASSUME NEW injector \in Injector,
           injector.type # "none" => injector.tick_index < injector.duration,
           NEW step \in MaybeInject(injector)
    PROVE  /\ step.injector \in Injector /\ step.sample \in Samples
           /\ step.injector.type # "none" => step.injector.tick_index < step.injector.duration
<1> USE InjectorAssumption DEF Injector, Samples, Types
<1>1. FreshInjector \in Injector /\ FreshInjector.type = "none"
  BY DEF FreshInjector
<1>2. AfterFinish \in Injector /\ AfterFinish.type = "none"
  BY DEF AfterFinish, FreshInjector
<1>3. \A active \in Perturbations : active \in Injector /\ active.tick_index = 0
  <2>1. ASSUME NEW d \in Nat, NEW type \in {"spike", "ramp"}, NEW active,
               active = [FreshInjector EXCEPT !.type = type, !.duration = d]
        PROVE  active \in Injector /\ active.tick_index = 0
    <3> HIDE DEF Injector, Samples, Types
    <3>1. active = [type |-> type, duration |-> d, tick_index |-> 0, cooldown_remaining |-> 0]
      BY <2>1 DEF FreshInjector
    <3>2. 0 \in 0..CooldownTicks /\ type \in Types
      BY DEF Types
    <3> QED  BY <3>1, <3>2 DEF Injector
  <2>2. \A active \in Perturbations : \E d \in Nat, type \in {"spike", "ramp"} :
           active = [FreshInjector EXCEPT !.type = type, !.duration = d]
    <3> HIDE DEF Injector, Samples, Types
    <3> QED  BY DEF Perturbations
  <2>3. ASSUME NEW active \in Perturbations PROVE active \in Injector /\ active.tick_index = 0
    <3> HIDE DEF Injector, Samples, Types
    <3>1. PICK d \in Nat : \E type \in {"spike", "ramp"} :
             active = [FreshInjector EXCEPT !.type = type, !.duration = d]
      BY <2>2
    <3>2. PICK type \in {"spike", "ramp"} :
             active = [FreshInjector EXCEPT !.type = type, !.duration = d]
      BY <3>1
    <3> QED  BY <2>1, <3>2
  <2> QED  BY <2>3
<1>4. ASSUME NEW active \in Injector, step = Apply(active)
      PROVE  /\ step.injector \in Injector /\ step.sample \in Samples
             /\ step.injector.type # "none" => step.injector.tick_index < step.injector.duration
  <2>1. step.sample \in Samples
    BY <1>4 DEF Apply, Sample
  <2>2. CASE active.tick_index + 1 >= active.duration
    <3>1. step.injector = AfterFinish
      BY <1>4, <2>2 DEF Apply
    <3> QED  BY <1>2, <2>1, <3>1
  <2>3. CASE ~(active.tick_index + 1 >= active.duration)
    <3>1. step.injector = [active EXCEPT !.tick_index = active.tick_index + 1]
      BY <1>4, <2>3 DEF Apply
    <3> QED  BY <2>1, <2>3, <3>1
  <2> QED  BY <2>2, <2>3
<1>5. ASSUME NEW idle \in Injector, idle.type = "none", step = Pass(idle)
      PROVE  /\ step.injector \in Injector /\ step.sample \in Samples
             /\ step.injector.type = "none"
  BY <1>1, <1>5 DEF Pass, Sample
<1>6. CASE injector.type # "none"
  BY <1>4, <1>6 DEF MaybeInject
<1>7. CASE injector.type = "none" /\ injector.cooldown_remaining > 0
  <2>1. PICK cooler : cooler = [injector EXCEPT !.cooldown_remaining = @ - 1]
    OBVIOUS
  <2>2. cooler \in Injector /\ cooler.type = "none"
    BY <1>7, <2>1
  <2>3. step = Pass(cooler)
    BY <1>7, <2>1 DEF MaybeInject
  <2> QED  BY <1>5, <2>2, <2>3
<1>8. CASE injector.type = "none" /\ ~(injector.cooldown_remaining > 0)
  <2>1. step = Pass(injector) \/ \E active \in Perturbations : step = Apply(active)
    BY <1>8 DEF MaybeInject
  <2> QED  BY <1>3, <1>4, <1>5, <1>8, <2>1
<1> QED  BY <1>6, <1>7, <1>8
LEMMA TypeInit == Init => TypeOK /\ TickInv /\ BacklogInv
<1> SUFFICES ASSUME Init PROVE TypeOK /\ TickInv /\ BacklogInv
  OBVIOUS
<1>1. Held = {} /\ Queued = 0 /\ IsFiniteSet(Held)
  <2>1. Held = Places(queue)
    BY DEF Held, Places
  <2>2. Held = {}
    BY <2>1, NoneHeld DEF Init, ProducerInit
  <2> QED  BY <2>2, FS_EmptySet DEF Queued
<1>2. injectors \in [Hosts -> Injector] /\ \A h \in Hosts : injectors[h].type = "none"
  <2>1. FreshInjector \in Injector /\ FreshInjector.type = "none"
    BY InjectorAssumption DEF FreshInjector, Injector, Types
  <2> QED  BY <2>1 DEF Init, FreshInjectors
<1>3. generated = <<>> /\ generated \in Seq(Event)
  BY EmptySeq DEF Init
<1>4. /\ queue \in [TopicPartitions -> Seq(DOMAIN generated)]
      /\ topic \in [TopicPartitions -> Seq(DOMAIN generated)]
  BY EmptySeq DEF Init, ProducerInit
<1>5. 0 % FlushInterval = 0
  <2>1. FlushInterval \in Nat \ {0}
    BY GeneratorAssumption
  <2> QED  BY <2>1
<1>6. /\ pc = "tick" /\ next_host = 1 /\ tick_count = 0 /\ clock = 0 /\ life = 1
      /\ timeouts = 0 /\ retries = 0 /\ expired = 0
  BY DEF Init, ProducerInit
<1>7. TypeOK
  BY <1>1, <1>2, <1>3, <1>4, <1>6, GeneratorAssumption, ProducerAssumption, ProfilesType
  DEF TypeOK
<1>8. TickInv
  BY <1>1, <1>6 DEF TickInv
<1>9. BacklogInv
  <2>1. 0 * FlushBatch = 0 /\ 0 * Len(HostProfiles) = 0
    BY GeneratorAssumption, ProfilesType DEF FlushBatch
  <2> QED  BY <1>1, <1>5, <1>6, <2>1 DEF BacklogInv
<1> QED  BY <1>7, <1>8, <1>9

(* One more event, which is the newest.                                    *)
LEMMA ProduceEffect ==
    ASSUME TypeOK, TickInv, ProduceEvent
    PROVE  /\ HostProfiles[next_host] \in Hosts /\ next_host \in 1..Len(HostProfiles)
           /\ injectors' \in [Hosts -> Injector]
           /\ \A h \in Hosts :
                 injectors'[h].type # "none" => injectors'[h].tick_index < injectors'[h].duration
           /\ generated' \in Seq(Event)
           /\ Len(generated') = Len(generated) + 1
           /\ \A k \in 1..Len(generated) : generated'[k] = generated[k]
           /\ generated'[Len(generated) + 1].host = HostProfiles[next_host]
           /\ generated'[Len(generated) + 1].ts = clock
           /\ generated'[Len(generated) + 1].life = life
           /\ PartitionOf[HostProfiles[next_host]] \in TopicPartitions
           /\ Enqueue(PartitionOf[HostProfiles[next_host]], Len(generated) + 1)
<1>1. next_host \in 1..Len(HostProfiles) /\ HostProfiles[next_host] \in Hosts
  <2>1. PICK N \in Nat : N = Len(HostProfiles)
    BY ProfilesType
  <2>2. PICK first \in 1..(N + 1) : first = next_host
    BY <2>1 DEF TypeOK
  <2>3. first <= N
    BY <2>1, <2>2 DEF ProduceEvent
  <2>4. first \in 1..N
    BY <2>3
  <2> QED  BY <2>1, <2>2, <2>4, ProfilesType
<1>2. PICK host \in Hosts : host = HostProfiles[next_host]
  BY <1>1
<1>3. PICK step \in MaybeInject(injectors[host]) :
         /\ injectors' = [injectors EXCEPT ![host] = step.injector]
         /\ generated' = Append(generated,
               [host |-> host, ts |-> clock, sample |-> step.sample, life |-> life])
         /\ Enqueue(PartitionOf[host], Len(generated'))
  BY <1>2 DEF ProduceEvent
<1>4. /\ step.injector \in Injector /\ step.sample \in Samples
      /\ step.injector.type # "none" => step.injector.tick_index < step.injector.duration
  <2>1. /\ injectors[host] \in Injector
        /\ injectors[host].type # "none" => injectors[host].tick_index < injectors[host].duration
    BY DEF TypeOK
  <2> QED  BY <2>1, InjectorType
<1>5. /\ injectors' \in [Hosts -> Injector]
      /\ \A h \in Hosts :
            injectors'[h].type # "none" => injectors'[h].tick_index < injectors'[h].duration
  <2>1. /\ injectors \in [Hosts -> Injector]
        /\ \A h \in Hosts :
              injectors[h].type # "none" => injectors[h].tick_index < injectors[h].duration
    BY DEF TypeOK
  <2>2. injectors' \in [Hosts -> Injector]
    BY <1>3, <1>4, <2>1
  <2>3. injectors'[host] = step.injector /\ \A h \in Hosts \ {host} : injectors'[h] = injectors[h]
    BY <1>3, <2>1
  <2> QED  BY <1>4, <2>1, <2>2, <2>3
<1> DEFINE event == [host |-> host, ts |-> clock, sample |-> step.sample, life |-> life]
<1>6. event \in Event /\ event.host = host /\ event.ts = clock /\ event.life = life
  BY <1>4 DEF TypeOK, Event
<1>7. generated' = Append(generated, event)
  BY <1>3
<1> HIDE DEF event
<1>8. /\ generated' \in Seq(Event)
      /\ Len(generated') = Len(generated) + 1
      /\ \A k \in 1..Len(generated) : generated'[k] = generated[k]
      /\ generated'[Len(generated) + 1] = event
  <2>1. generated \in Seq(Event)
    BY DEF TypeOK
  <2> QED  BY <1>6, <1>7, <2>1, AppendProperties
<1>9. PartitionOf[host] \in TopicPartitions
  BY GeneratorAssumption
<1> QED  BY <1>1, <1>2, <1>3, <1>5, <1>6, <1>8, <1>9

LEMMA GeneratedDomain ==
    ASSUME TypeOK
    PROVE  Len(generated) \in Nat /\ DOMAIN generated = 1..Len(generated)
BY LenProperties DEF TypeOK

LEMMA ProduceType ==
    ASSUME TypeOK, TickInv, ProduceEvent
    PROVE  /\ TypeOK' /\ TickInv'
           /\ Queued' = Queued + 1 /\ next_host' = next_host + 1
           /\ UNCHANGED <<pc, tick_count, timeouts>>
<1>1. PICK n \in Nat : n = Len(generated)
  BY GeneratedDomain
<1>2. /\ generated' \in Seq(Event) /\ Len(generated') = n + 1
      /\ PartitionOf[HostProfiles[next_host]] \in TopicPartitions
      /\ Enqueue(PartitionOf[HostProfiles[next_host]], n + 1)
      /\ next_host \in 1..Len(HostProfiles)
  BY <1>1, ProduceEffect
<1>3. DOMAIN generated = 1..n /\ DOMAIN generated' = 1..(n + 1)
  BY <1>1, <1>2, LenProperties, GeneratedDomain
<1>4. /\ queue \in [TopicPartitions -> Seq(1..(n + 1))]
      /\ topic \in [TopicPartitions -> Seq(1..(n + 1))]
  <2>1. /\ queue \in [TopicPartitions -> Seq(1..n)]
        /\ topic \in [TopicPartitions -> Seq(1..n)]
    BY <1>3 DEF TypeOK
  <2>2. 1..n \subseteq 1..(n + 1)
    OBVIOUS
  <2>3. \A s \in Seq(1..n) : s \in Seq(1..(n + 1))
    BY <2>2, SeqMonotonic
  <2> QED  BY <2>1, <2>3
<1>5. /\ queue' \in [TopicPartitions -> Seq(1..(n + 1))]
      /\ IsFiniteSet(Held') /\ Queued' = Queued + 1 /\ Queued < QueueLimit
  <2>1. IsFiniteSet(Held) /\ n + 1 \in 1..(n + 1)
    BY DEF TickInv
  <2> QED  BY <1>2, <1>4, <2>1, EnqueueKeeps
<1>6. Queued' <= QueueLimit
  <2>1. Queued \in Nat
    BY QueuedType DEF TickInv
  <2> QED  BY <1>5, <2>1, ProducerAssumption
<1>7. /\ next_host' = next_host + 1
      /\ UNCHANGED <<pc, tick_count, clock, life, timeouts, topic, retries, expired>>
  BY <1>2 DEF ProduceEvent, Enqueue
<1>8. next_host' \in 1..(Len(HostProfiles) + 1)
  BY <1>2, <1>7, ProfilesType
<1>9. TypeOK'
  BY <1>2, <1>3, <1>4, <1>5, <1>6, <1>7, <1>8, ProduceEffect DEF TypeOK
<1>10. TickInv'
  BY <1>5, <1>7 DEF TickInv, ProduceEvent
<1> QED  BY <1>5, <1>7, <1>9, <1>10
LEMMA HeldUnchanged == ASSUME UNCHANGED queue PROVE Held' = Held /\ Queued' = Queued
BY DEF Held, Queued

LEMMA EndTickType ==
    ASSUME TypeOK, TickInv, EndTick
    PROVE  TypeOK' /\ TickInv'
<1>1. PICK now \in 0..MaxTime, count \in Nat : now = clock /\ count = tick_count
  BY DEF TypeOK
<1>2. /\ count <= now
      /\ pc = "tick" /\ tick_count' = count + 1
      /\ \/ /\ FlushDue(count + 1) /\ pc' = "flush" /\ UNCHANGED <<clock, next_host>>
         \/ /\ clock' = now + 1 /\ now < MaxTime /\ next_host' = 1 /\ pc' = "tick"
  BY <1>1 DEF TickInv, EndTick, Sleep
<1>3. UNCHANGED <<injectors, generated, life, timeouts, queue, topic, retries, expired>>
  BY DEF EndTick, producer_vars
<1>4. Held' = Held /\ Queued' = Queued
  BY <1>3, HeldUnchanged
<1>5. /\ clock' \in 0..MaxTime /\ tick_count' \in 0..(clock' + 1)
      /\ next_host' \in 1..(Len(HostProfiles) + 1) /\ pc' \in {"tick", "flush"}
  <2>1. next_host \in 1..(Len(HostProfiles) + 1)
    BY DEF TypeOK
  <2> QED  BY <1>1, <1>2, <2>1, ProfilesType, GeneratorAssumption
<1>6. TypeOK'
  BY <1>3, <1>4, <1>5 DEF TypeOK
<1>7. TickInv'
  BY <1>1, <1>2, <1>4 DEF TickInv, FlushDue
<1> QED  BY <1>6, <1>7

LEMMA FlushType ==
    ASSUME TypeOK, TickInv, Flush
    PROVE  TypeOK' /\ TickInv'
<1>1. PICK now \in 0..MaxTime, count \in Nat, gave_up \in 0..MaxTimeouts :
         now = clock /\ count = tick_count /\ gave_up = timeouts
  BY DEF TypeOK
<1>2. /\ count <= now + 1 /\ count = tick_count'
      /\ clock' = now + 1 /\ now < MaxTime /\ next_host' = 1 /\ pc' = "tick"
      /\ timeouts' = gave_up \/ (timeouts' = gave_up + 1 /\ gave_up < MaxTimeouts)
  BY <1>1 DEF TickInv, Flush, Sleep
<1>3. UNCHANGED <<injectors, generated, life, queue, topic, retries, expired>>
  BY DEF Flush, producer_vars
<1>4. Held' = Held /\ Queued' = Queued
  BY <1>3, HeldUnchanged
<1>5. /\ clock' \in 0..MaxTime /\ tick_count' \in 0..(clock' + 1)
      /\ next_host' \in 1..(Len(HostProfiles) + 1) /\ timeouts' \in 0..MaxTimeouts
  BY <1>1, <1>2, ProfilesType, GeneratorAssumption
<1>6. TypeOK'
  BY <1>2, <1>3, <1>4, <1>5 DEF TypeOK
<1>7. TickInv'
  BY <1>1, <1>2, <1>4 DEF TickInv
<1> QED  BY <1>6, <1>7

LEMMA RestartType ==
    ASSUME TypeOK, TickInv, Restart
    PROVE  /\ TypeOK' /\ TickInv' /\ Queued' = 0
           /\ topic' = topic /\ retries' = retries /\ expired' = expired
           /\ queue' = [p \in TopicPartitions |-> <<>>]
<1>1. PICK now \in 0..MaxTime, before \in 1..MaxLives : now = clock /\ before = life
  BY DEF TypeOK
<1>2. /\ life' = before + 1 /\ before < MaxLives
      /\ clock' = now + 1 /\ now < MaxTime
      /\ pc' = "tick" /\ next_host' = 1 /\ tick_count' = 0
      /\ injectors' = FreshInjectors
      /\ queue' = [p \in TopicPartitions |-> <<>>]
      /\ UNCHANGED <<generated, timeouts, topic, retries, expired>>
  BY <1>1 DEF Restart, LoseQueue
<1>3. Held' = {} /\ Queued' = 0 /\ IsFiniteSet(Held')
  <2>1. Held' = Places(queue')
    BY DEF Held, Places
  <2>2. Held' = {}
    BY <1>2, <2>1, NoneHeld
  <2> QED  BY <2>2, FS_EmptySet DEF Queued
<1>4. injectors' \in [Hosts -> Injector] /\ \A h \in Hosts : injectors'[h].type = "none"
  <2>1. FreshInjector \in Injector /\ FreshInjector.type = "none"
    BY InjectorAssumption DEF FreshInjector, Injector, Types
  <2> QED  BY <1>2, <2>1 DEF FreshInjectors
<1>5. queue' \in [TopicPartitions -> Seq(DOMAIN generated)]
  BY <1>2, EmptySeq
<1>6. /\ clock' \in 0..MaxTime /\ tick_count' \in 0..(clock' + 1) /\ life' \in 1..MaxLives
      /\ next_host' \in 1..(Len(HostProfiles) + 1) /\ 0 <= QueueLimit
  BY <1>1, <1>2, ProfilesType, GeneratorAssumption, ProducerAssumption
<1>7. TypeOK'
  BY <1>2, <1>3, <1>4, <1>5, <1>6 DEF TypeOK
<1>8. TickInv'
  BY <1>1, <1>2, <1>3, GeneratorAssumption DEF TickInv
<1> QED  BY <1>2, <1>3, <1>7, <1>8

LEMMA TransportType ==
    ASSUME TypeOK, TickInv, Transport
    PROVE  TypeOK' /\ TickInv' /\ Queued' <= Queued
<1>1. PICK p \in TopicPartitions : Deliver(p) \/ Retry(p) \/ Expire(p)
  BY DEF Transport
<1>2. UNCHANGED <<pc, next_host, tick_count, injectors, clock, generated, life, timeouts>>
  BY DEF Transport, local_vars
<1>3. /\ queue' \in [TopicPartitions -> Seq(DOMAIN generated)]
      /\ topic' \in [TopicPartitions -> Seq(DOMAIN generated)]
      /\ IsFiniteSet(Held') /\ Queued' <= Queued
  <2>1. /\ queue \in [TopicPartitions -> Seq(DOMAIN generated)]
        /\ topic \in [TopicPartitions -> Seq(DOMAIN generated)]
        /\ IsFiniteSet(Held)
    BY DEF TypeOK, TickInv
  <2> QED  BY <1>1, <2>1, TransportKeeps
<1>4. Queued' <= QueueLimit
  <2>1. Queued \in Nat
    BY QueuedType DEF TickInv
  <2>2. Queued' \in Nat
    BY <1>3, FS_CardinalityType DEF Queued
  <2> QED  BY <1>3, <2>1, <2>2, ProducerAssumption DEF TypeOK
<1>5. retries' \in 0..MaxRetries /\ expired' \in 0..MaxExpired
  <2>1. PICK again \in 0..MaxRetries, gone \in 0..MaxExpired : again = retries /\ gone = expired
    BY DEF TypeOK
  <2>2. /\ retries' = again \/ (again < MaxRetries /\ retries' = again + 1)
        /\ expired' = gone \/ (gone < MaxExpired /\ expired' = gone + 1)
    BY <1>1, <2>1 DEF Deliver, Retry, Expire
  <2> QED  BY <2>2, ProducerAssumption
<1>6. TypeOK'
  BY <1>2, <1>3, <1>4, <1>5 DEF TypeOK
<1>7. TickInv'
  BY <1>2, <1>3 DEF TickInv
<1> QED  BY <1>3, <1>6, <1>7

LEMMA StutterType ==
    ASSUME TypeOK, TickInv, UNCHANGED vars
    PROVE  TypeOK' /\ TickInv' /\ Queued' = Queued
<1>1. UNCHANGED queue
  BY DEF vars, producer_vars
<1>2. Held' = Held /\ Queued' = Queued
  BY <1>1, HeldUnchanged
<1>3. TypeOK'
  BY <1>2 DEF TypeOK, vars, local_vars, producer_vars
<1>4. TickInv'
  BY <1>2 DEF TickInv, vars, local_vars, producer_vars
<1> QED  BY <1>2, <1>3, <1>4

LEMMA TypeStep ==
    ASSUME TypeOK, TickInv, [Next]_vars
    PROVE  TypeOK' /\ TickInv'
<1>1. CASE ProduceEvent
  BY <1>1, ProduceType
<1>2. CASE EndTick
  BY <1>2, EndTickType
<1>3. CASE Flush
  BY <1>3, FlushType
<1>4. CASE Crash \/ Overflow
  BY <1>4, RestartType DEF Crash, Overflow
<1>5. CASE Transport
  BY <1>5, TransportType
<1>6. CASE UNCHANGED vars
  BY <1>6, StutterType
<1> QED  BY <1>1, <1>2, <1>3, <1>4, <1>5, <1>6 DEF Next

(* Whatever happens, everything keeps its type: no injector runs past the  *)
(* end of its perturbation, and the client holds no more than it may       *)
(* (anomaly_injector.py, main.py:48-91, kafka_utils.py).                   *)
THEOREM TypeCorrect == Spec => []TypeOK
<1>1. Init => TypeOK /\ TickInv
  BY TypeInit
<1>2. TypeOK /\ TickInv /\ [Next]_vars => (TypeOK /\ TickInv)'
  BY TypeStep
<1> QED  BY <1>1, <1>2, PTL DEF Spec
LEMMA BacklogStep ==
    ASSUME TypeOK, TickInv, BacklogInv, [Next]_vars
    PROVE  BacklogInv'
<1>1. PICK N \in Nat : N = Len(HostProfiles)
  BY ProfilesType
<1>2. PICK F \in Nat \ {0} : F = FlushInterval
  BY GeneratorAssumption
<1>3. PICK t \in Nat, count \in Nat, first \in 1..(N + 1) :
         t = timeouts /\ count = tick_count /\ first = next_host
  BY <1>1 DEF TypeOK
<1>4. PICK B \in Nat : B = FlushBatch /\ B = F * N
  BY <1>1, <1>2 DEF FlushBatch
<1>5. PICK r \in 0..(F - 1) : r = count % F
  BY Division
<1>6. /\ r * N + N = (r + 1) * N /\ r * N + N <= B /\ r * N \in Nat
      /\ (t + 1) * B = t * B + B /\ t * B \in Nat
  BY <1>4, TickAdds, OneFlushMore
<1>7. PICK rN \in Nat, tB \in Nat : rN = r * N /\ tB = t * B
  BY <1>6
<1>8. PICK held \in Nat : held = Queued
  BY QueuedType DEF TickInv
<1>9. /\ pc = "flush" => held <= tB + B
      /\ pc = "tick" => held <= tB + (rN + (first - 1))
  BY <1>1, <1>2, <1>3, <1>4, <1>5, <1>7, <1>8 DEF BacklogInv
<1>10. pc \in {"tick", "flush"}
  BY DEF TypeOK
<1>11. CASE ProduceEvent
  <2>1. /\ Queued' = held + 1 /\ next_host' = first + 1 /\ pc = "tick"
        /\ UNCHANGED <<pc, tick_count, timeouts>>
    BY <1>3, <1>8, <1>11, ProduceType DEF ProduceEvent
  <2>2. held + 1 <= tB + (rN + ((first + 1) - 1))
    BY <1>9, <2>1
  <2> QED  BY <1>1, <1>2, <1>3, <1>4, <1>5, <1>7, <2>1, <2>2 DEF BacklogInv
<1>12. CASE EndTick
  <2>1. /\ Queued' = held /\ pc = "tick" /\ first = N + 1
        /\ tick_count' = count + 1 /\ timeouts' = t
        /\ \/ pc' = "flush"
           \/ pc' = "tick" /\ next_host' = 1 /\ (count + 1) % F # 0
    <3>1. Queued' = Queued
      BY <1>12, HeldUnchanged DEF EndTick, producer_vars
    <3> QED  BY <1>1, <1>2, <1>3, <1>8, <1>12, <3>1 DEF EndTick, Sleep, FlushDue
  <2>2. held <= tB + (rN + N) /\ rN + N <= B
    BY <1>6, <1>7, <1>9, <2>1
  <2>3. CASE pc' = "flush"
    <3>1. held <= tB + B
      BY <2>2
    <3> QED  BY <1>3, <1>4, <1>7, <2>1, <2>3, <3>1 DEF BacklogInv
  <2>4. CASE pc' = "tick" /\ next_host' = 1 /\ (count + 1) % F # 0
    <3>1. (count + 1) % F = r + 1
      BY <1>5, <2>4, NextRemainder
    <3>2. ((count + 1) % F) * N = rN + N
      BY <1>6, <1>7, <3>1
    <3>3. PICK x \in Nat : x = ((count + 1) % F) * N /\ held <= tB + (x + (1 - 1))
      BY <2>2, <3>2
    <3> QED  BY <1>1, <1>2, <1>3, <1>4, <1>7, <2>1, <2>4, <3>3 DEF BacklogInv
  <2> QED  BY <2>1, <2>3, <2>4
<1>13. CASE Flush
  <2>1. /\ Queued' = held /\ pc' = "tick" /\ next_host' = 1 /\ tick_count' = count
        /\ count % F = 0 /\ pc = "flush"
        /\ (held = 0 /\ timeouts' = t) \/ timeouts' = t + 1
    <3>1. Queued' = Queued
      BY <1>13, HeldUnchanged DEF Flush, producer_vars
    <3> QED  BY <1>2, <1>3, <1>8, <1>13, <3>1 DEF Flush, Sleep, TickInv
  <2>2. 0 * N = 0
    OBVIOUS
  <2>3. CASE held = 0 /\ timeouts' = t
    <3>1. held <= tB + (0 + (1 - 1))
      BY <2>3
    <3> QED  BY <1>1, <1>2, <1>4, <1>7, <2>1, <2>2, <2>3, <3>1 DEF BacklogInv
  <2>4. CASE timeouts' = t + 1
    <3>1. held <= (t + 1) * B + (0 + (1 - 1))
      BY <1>6, <1>7, <1>9, <2>1
    <3> QED  BY <1>1, <1>2, <1>4, <2>1, <2>2, <2>4, <3>1 DEF BacklogInv
  <2> QED  BY <2>1, <2>3, <2>4
<1>14. CASE Crash \/ Overflow
  <2>1. /\ Queued' = 0 /\ pc' = "tick" /\ next_host' = 1 /\ tick_count' = 0 /\ timeouts' = t
    BY <1>3, <1>14, RestartType DEF Crash, Overflow, Restart
  <2>2. 0 % F = 0 /\ 0 * N = 0
    OBVIOUS
  <2>3. 0 <= tB + (0 + (1 - 1))
    OBVIOUS
  <2> QED  BY <1>1, <1>2, <1>4, <1>7, <2>1, <2>2, <2>3 DEF BacklogInv
<1>15. CASE Transport \/ UNCHANGED vars
  <2>1. UNCHANGED <<pc, tick_count, timeouts, next_host>>
    BY <1>15 DEF Transport, vars, local_vars
  <2>2. PICK left \in Nat : left = Queued' /\ left <= held
    <3>1. Queued' <= Queued
      BY <1>8, <1>15, TransportType, StutterType
    <3>2. TickInv'
      BY <1>15, TransportType, StutterType
    <3>3. Queued' \in Nat
      BY <3>2, FS_CardinalityType DEF TickInv, Queued
    <3> QED  BY <1>8, <3>1, <3>3
  <2>3. /\ pc = "flush" => left <= tB + B
        /\ pc = "tick" => left <= tB + (rN + (first - 1))
    BY <1>9, <2>2
  <2> QED  BY <1>1, <1>2, <1>3, <1>4, <1>5, <1>7, <2>1, <2>2, <2>3 DEF BacklogInv
<1> QED  BY <1>11, <1>12, <1>13, <1>14, <1>15 DEF Next

LEMMA BacklogIsBound ==
    ASSUME TypeOK, TickInv, BacklogInv
    PROVE  BacklogBound
<1>1. PICK N \in Nat, F \in Nat \ {0} : N = Len(HostProfiles) /\ F = FlushInterval
  BY ProfilesType, GeneratorAssumption
<1>2. PICK t \in Nat, count \in Nat, first \in 1..(N + 1) :
         t = timeouts /\ count = tick_count /\ first = next_host
  BY <1>1 DEF TypeOK
<1>3. PICK B \in Nat : B = FlushBatch /\ B = F * N
  BY <1>1 DEF FlushBatch
<1>4. PICK r \in 0..(F - 1) : r = count % F
  BY Division
<1>5. r * N + N <= B /\ r * N \in Nat /\ (t + 1) * B = t * B + B /\ t * B \in Nat
  BY <1>3, TickAdds, OneFlushMore
<1>6. PICK rN \in Nat, tB \in Nat : rN = r * N /\ tB = t * B
  BY <1>5
<1>7. PICK held \in Nat : held = Queued
  BY QueuedType DEF TickInv
<1>8. held <= tB + B \/ held <= tB + (rN + (first - 1))
  BY <1>1, <1>2, <1>3, <1>4, <1>6, <1>7 DEF BacklogInv, TypeOK
<1>9. held <= (t + 1) * B
  BY <1>5, <1>6, <1>8
<1> QED  BY <1>2, <1>3, <1>7, <1>9 DEF BacklogBound

(* The client holds at most the events of one flush interval, and of one   *)
(* more for every flush that gave up (main.py:82-85, the flush of run()).  *)
THEOREM BacklogIsBounded == Spec => []BacklogBound
<1>1. Init => TypeOK /\ TickInv /\ BacklogInv
  BY TypeInit
<1>2. TypeOK /\ TickInv /\ BacklogInv /\ [Next]_vars => (TypeOK /\ TickInv /\ BacklogInv)'
  BY TypeStep, BacklogStep
<1>3. TypeOK /\ TickInv /\ BacklogInv => BacklogBound
  BY BacklogIsBound
<1> QED  BY <1>1, <1>2, <1>3, PTL DEF Spec
-----------------------------------------------------------------------------
(* Partitions                                                              *)

(* Whatever is queued or delivered lies in the partition of its host.      *)
Placed ==
    \A p \in TopicPartitions :
        /\ \A i \in DOMAIN queue[p] : PartitionOf[generated[queue[p][i]].host] = p
        /\ \A i \in DOMAIN topic[p] : PartitionOf[generated[topic[p][i]].host] = p

(* Queues and logs hold events.                                            *)
LEMMA EntriesAreEvents ==
    ASSUME TypeOK, NEW p \in TopicPartitions
    PROVE  /\ Len(queue[p]) \in Nat /\ DOMAIN queue[p] = 1..Len(queue[p])
           /\ Len(topic[p]) \in Nat /\ DOMAIN topic[p] = 1..Len(topic[p])
           /\ \A i \in DOMAIN queue[p] : queue[p][i] \in DOMAIN generated
           /\ \A i \in DOMAIN topic[p] : topic[p][i] \in DOMAIN generated
<1>1. queue[p] \in Seq(DOMAIN generated) /\ topic[p] \in Seq(DOMAIN generated)
  BY DEF TypeOK
<1> QED  BY <1>1, LenProperties, ElementOfSeq

LEMMA EventType ==
    ASSUME TypeOK, NEW k \in DOMAIN generated
    PROVE  /\ generated[k].host \in Hosts /\ generated[k].ts \in 0..MaxTime
           /\ generated[k].life \in 1..MaxLives
<1>1. generated \in Seq(Event) /\ k \in 1..Len(generated)
  BY GeneratedDomain DEF TypeOK
<1>2. generated[k] \in Event
  BY <1>1, ElementOfSeq
<1> QED  BY <1>2 DEF Event

(* The newest event, the (n+1)-th, has come to the end of the queue of its *)
(* host's partition.                                                       *)
Entered(p, m, n) ==
    /\ p = PartitionOf[generated'[n + 1].host]
    /\ DOMAIN queue[p] = 1..m /\ DOMAIN queue'[p] = 1..(m + 1)
    /\ \A q \in TopicPartitions : q # p => queue'[q] = queue[q]
    /\ \A i \in 1..m : queue'[p][i] = queue[p][i]
    /\ queue'[p][m + 1] = n + 1

(* What one more event does to the queues, entry by entry.                 *)
LEMMA ProduceEntries ==
    ASSUME TypeOK, TickInv, ProduceEvent, NEW n \in Nat, n = Len(generated)
    PROVE  /\ DOMAIN generated = 1..n /\ DOMAIN generated' = 1..(n + 1)
           /\ \A k \in 1..n : generated'[k] = generated[k]
           /\ topic' = topic /\ retries' = retries /\ expired' = expired
           /\ \E p \in TopicPartitions : \E m \in Nat : Entered(p, m, n)
<1>1. /\ generated' \in Seq(Event) /\ Len(generated') = n + 1
      /\ \A k \in 1..n : generated'[k] = generated[k]
      /\ generated'[n + 1].host = HostProfiles[next_host]
      /\ PartitionOf[HostProfiles[next_host]] \in TopicPartitions
      /\ Enqueue(PartitionOf[HostProfiles[next_host]], n + 1)
  BY ProduceEffect
<1>2. PICK p \in TopicPartitions :
         p = PartitionOf[generated'[n + 1].host] /\ p = PartitionOf[HostProfiles[next_host]]
  BY <1>1
<1>3. /\ queue' = [queue EXCEPT ![p] = Append(@, n + 1)]
      /\ UNCHANGED <<topic, retries, expired>>
  BY <1>1, <1>2 DEF Enqueue
<1>4. DOMAIN generated = 1..n /\ DOMAIN generated' = 1..(n + 1)
  BY <1>1, LenProperties, GeneratedDomain
<1>5. queue \in [TopicPartitions -> Seq(Nat)] /\ n + 1 \in Nat
  <2>1. DOMAIN generated \subseteq Nat
    BY <1>4
  <2>2. \A s \in Seq(DOMAIN generated) : s \in Seq(Nat)
    BY <2>1, SeqMonotonic
  <2> QED  BY <2>2 DEF TypeOK
<1>6. /\ queue' \in [TopicPartitions -> Seq(Nat)]
      /\ \A q \in TopicPartitions \ {p} : queue'[q] = queue[q]
      /\ Len(queue'[p]) = Len(queue[p]) + 1
      /\ \A i \in 1..Len(queue[p]) : queue'[p][i] = queue[p][i]
      /\ queue'[p][Len(queue[p]) + 1] = n + 1
  BY <1>3, <1>5, AppendAt
<1>7. PICK m \in Nat : m = Len(queue[p]) /\ DOMAIN queue[p] = 1..m
  BY EntriesAreEvents
<1>8. DOMAIN queue'[p] = 1..(m + 1)
  BY <1>6, <1>7, LenProperties
<1>9. Entered(p, m, n)
  BY <1>2, <1>6, <1>7, <1>8 DEF Entered
<1> QED  BY <1>1, <1>3, <1>4, <1>9

LEMMA ProducePlaced ==
    ASSUME TypeOK, TickInv, Placed, ProduceEvent
    PROVE  Placed'
<1>1. PICK n \in Nat : n = Len(generated)
  BY GeneratedDomain
<1>2. /\ DOMAIN generated = 1..n /\ DOMAIN generated' = 1..(n + 1)
      /\ \A k \in 1..n : generated'[k] = generated[k]
      /\ topic' = topic
  BY <1>1, ProduceEntries
<1>3. PICK p \in TopicPartitions : \E m \in Nat : Entered(p, m, n)
  BY <1>1, ProduceEntries
<1>31. PICK m \in Nat : Entered(p, m, n)
  BY <1>3
<1>4. /\ p = PartitionOf[generated'[n + 1].host]
      /\ DOMAIN queue[p] = 1..m /\ DOMAIN queue'[p] = 1..(m + 1)
      /\ \A q \in TopicPartitions : q # p => queue'[q] = queue[q]
      /\ \A i \in 1..m : queue'[p][i] = queue[p][i]
      /\ queue'[p][m + 1] = n + 1
  BY <1>31 DEF Entered
<1>5. \A q \in TopicPartitions :
         /\ \A i \in DOMAIN queue[q] : queue[q][i] \in 1..n
         /\ \A i \in DOMAIN topic[q] : topic[q][i] \in 1..n
  BY <1>2, EntriesAreEvents
<1>6. ASSUME NEW q \in TopicPartitions, NEW i \in DOMAIN queue[q]
      PROVE  PartitionOf[generated'[queue[q][i]].host] = q
  BY <1>2, <1>5, <1>6 DEF Placed
<1>7. ASSUME NEW q \in TopicPartitions, NEW i \in DOMAIN topic'[q]
      PROVE  PartitionOf[generated'[topic'[q][i]].host] = q
  BY <1>2, <1>5, <1>7 DEF Placed
<1>8. ASSUME NEW q \in TopicPartitions, NEW i \in DOMAIN queue'[q]
      PROVE  PartitionOf[generated'[queue'[q][i]].host] = q
  <2>1. CASE q # p
    BY <1>4, <1>6, <1>8, <2>1
  <2>2. CASE q = p /\ i = m + 1
    BY <1>4, <2>2
  <2>3. CASE q = p /\ i # m + 1
    <3>1. i \in 1..m
      BY <1>4, <1>8, <2>3
    <3>2. i \in DOMAIN queue[p] /\ queue'[p][i] = queue[p][i]
      BY <1>4, <3>1
    <3>3. PartitionOf[generated'[queue[p][i]].host] = p
      BY <1>6, <3>2
    <3> QED  BY <2>3, <3>2, <3>3
  <2> QED  BY <2>1, <2>2, <2>3
<1> QED  BY <1>7, <1>8 DEF Placed
LEMMA PlacedStep ==
    ASSUME TypeOK, TickInv, Placed, [Next]_vars
    PROVE  Placed'
<1>1. CASE ProduceEvent
  BY <1>1, ProducePlaced
<1>2. CASE UNCHANGED <<queue, topic, generated>>
  BY <1>2 DEF Placed
<1>3. CASE EndTick \/ Flush \/ UNCHANGED vars
  BY <1>2, <1>3 DEF EndTick, Flush, vars, producer_vars
<1>4. CASE Crash \/ Overflow
  <2>1. queue' = [p \in TopicPartitions |-> <<>>] /\ UNCHANGED <<topic, generated>>
    BY <1>4 DEF Crash, Overflow, Restart, LoseQueue
  <2>2. \A p \in TopicPartitions : DOMAIN queue'[p] = {}
    BY <2>1
  <2> QED  BY <2>1, <2>2 DEF Placed
<1>5. CASE Transport
  <2>1. PICK p \in TopicPartitions : Deliver(p) \/ Retry(p) \/ Expire(p)
    BY <1>5 DEF Transport
  <2>2. generated' = generated
    BY <1>5 DEF Transport
  <2>3. PICK m \in Nat : \E n \in Nat : Moved(p, m, n)
    <3>1. /\ queue \in [TopicPartitions -> Seq(DOMAIN generated)]
          /\ topic \in [TopicPartitions -> Seq(DOMAIN generated)]
      BY DEF TypeOK
    <3> QED  BY <2>1, <3>1, TransportMoves
  <2>4. PICK n \in Nat : Moved(p, m, n)
    BY <2>3
  <2>5. \A q \in TopicPartitions :
           /\ \A i \in DOMAIN queue'[q] : \E j \in DOMAIN queue[q] : queue'[q][i] = queue[q][j]
           /\ \A i \in DOMAIN topic'[q] :
                 \/ i \in DOMAIN topic[q] /\ topic'[q][i] = topic[q][i]
                 \/ \E j \in DOMAIN queue[q] : topic'[q][i] = queue[q][j]
    BY <2>4, MovedEntries
  <2> QED  BY <2>2, <2>5 DEF Placed
<1> QED  BY <1>1, <1>3, <1>4, <1>5 DEF Next
-----------------------------------------------------------------------------
(* What is lost                                                            *)

(* No event is of a later life than this one, and an event of this life is *)
(* lost only by being given up.                                            *)
LivesInv ==
    /\ \A k \in DOMAIN generated : generated[k].life <= life
    /\ expired = 0 => \A k \in Lost : generated[k].life < life

(* The end of what a process sent to a partition goes with it.             *)
LostIsSuffix ==
    expired = 0 /\ retries = 0 =>
        \A k \in Lost, m \in DOMAIN generated :
           /\ generated[m].life = generated[k].life
           /\ PartitionOf[generated[m].host] = PartitionOf[generated[k].host]
           /\ m > k
           => m \in Lost

LossCount ==
    Cardinality(Lost) <= expired + (life - 1) * (timeouts + 1) * FlushBatch

LossInv == LivesInv /\ LostIsSuffix /\ LossCount

(* An event is lost when it is in no queue and in no log.                  *)
InFlight(k) == \E p \in TopicPartitions : \E i \in DOMAIN queue[p] : queue[p][i] = k

Delivered(k) == \E p \in TopicPartitions : \E i \in DOMAIN topic[p] : topic[p][i] = k

LEMMA LostIs ==
    /\ \A k : k \in Lost <=> k \in DOMAIN generated /\ ~InFlight(k) /\ ~Delivered(k)
    /\ \A k : k \in Lost' <=> k \in DOMAIN generated' /\ ~InFlight(k)' /\ ~Delivered(k)'
<1>1. ASSUME NEW k
      PROVE  k \in Lost <=> k \in DOMAIN generated /\ ~InFlight(k) /\ ~Delivered(k)
  BY DEF Lost, InFlightOrDelivered, InFlight, Delivered, Range
<1>2. ASSUME NEW k
      PROVE  k \in Lost' <=> k \in DOMAIN generated' /\ ~InFlight(k)' /\ ~Delivered(k)'
  BY DEF Lost, InFlightOrDelivered, InFlight, Delivered, Range
<1> QED  BY <1>1, <1>2

LEMMA LostIsFinite ==
    ASSUME TypeOK
    PROVE  IsFiniteSet(Lost) /\ Cardinality(Lost) \in Nat
<1>1. PICK n \in Nat : DOMAIN generated = 1..n
  BY GeneratedDomain
<1>2. IsFiniteSet(1..n)
  BY FS_Interval
<1>3. Lost \subseteq 1..n
  BY <1>1 DEF Lost
<1>4. IsFiniteSet(Lost)
  BY <1>2, <1>3, FS_Subset
<1> QED  BY <1>4, FS_CardinalityType

(* A new event is in its queue; the others are where they were.            *)
LEMMA ProduceLosesNone ==
    ASSUME TypeOK, TickInv, ProduceEvent
    PROVE  Lost' = Lost
<1>1. PICK n \in Nat : n = Len(generated)
  BY GeneratedDomain
<1>2. /\ DOMAIN generated = 1..n /\ DOMAIN generated' = 1..(n + 1)
      /\ topic' = topic
  BY <1>1, ProduceEntries
<1>3. PICK p \in TopicPartitions : \E m \in Nat : Entered(p, m, n)
  BY <1>1, ProduceEntries
<1>4. PICK m \in Nat : Entered(p, m, n)
  BY <1>3
<1>5. InFlight(n + 1)'
  <2>1. m + 1 \in DOMAIN queue'[p] /\ queue'[p][m + 1] = n + 1
    BY <1>4 DEF Entered
  <2> QED  BY <2>1 DEF InFlight
<1>6. \A k : Delivered(k)' <=> Delivered(k)
  BY <1>2 DEF Delivered
<1>7. ASSUME NEW k \in 1..n
      PROVE  InFlight(k)' <=> InFlight(k)
  <2>1. ASSUME NEW q \in TopicPartitions, NEW i \in DOMAIN queue[q], queue[q][i] = k
        PROVE  \E j \in DOMAIN queue'[q] : queue'[q][j] = k
    <3>1. CASE q # p
      BY <1>4, <2>1, <3>1 DEF Entered
    <3>2. CASE q = p
      <4>1. i \in 1..m /\ i \in 1..(m + 1)
        BY <1>4, <3>2 DEF Entered
      <4> QED  BY <1>4, <2>1, <3>2, <4>1 DEF Entered
    <3> QED  BY <3>1, <3>2
  <2>2. ASSUME NEW q \in TopicPartitions, NEW i \in DOMAIN queue'[q], queue'[q][i] = k
        PROVE  \E j \in DOMAIN queue[q] : queue[q][j] = k
    <3>1. CASE q # p
      BY <1>4, <2>2, <3>1 DEF Entered
    <3>2. CASE q = p
      <4>1. i # m + 1
        BY <1>4, <2>2, <3>2 DEF Entered
      <4>2. i \in 1..m
        BY <1>4, <3>2, <4>1 DEF Entered
      <4> QED  BY <1>4, <2>2, <3>2, <4>2 DEF Entered
    <3> QED  BY <3>1, <3>2
  <2> QED  BY <2>1, <2>2 DEF InFlight
<1>8. \A k : k \in 1..(n + 1) <=> k \in 1..n \/ k = n + 1
  OBVIOUS
<1>9. \A k : k \in Lost' <=> k \in Lost
  BY <1>2, <1>5, <1>6, <1>7, <1>8, LostIs
<1> QED  BY <1>9

(* librdkafka's thread loses an event by giving it up, and only so.        *)
LEMMA TransportLoses ==
    ASSUME TypeOK, Transport
    PROVE  /\ Lost \subseteq Lost'
           /\ \/ Lost' = Lost /\ expired' = expired
              \/ /\ expired' = expired + 1
                 /\ \E k : Lost' \subseteq Lost \cup {k}
<1>1. PICK p \in TopicPartitions : Deliver(p) \/ Retry(p) \/ Expire(p)
  BY DEF Transport
<1>2. PICK m \in Nat : \E n \in Nat : Moved(p, m, n)
  <2>1. /\ queue \in [TopicPartitions -> Seq(DOMAIN generated)]
        /\ topic \in [TopicPartitions -> Seq(DOMAIN generated)]
    BY DEF TypeOK
  <2> QED  BY <1>1, <2>1, TransportMoves
<1>3. PICK n \in Nat : Moved(p, m, n)
  BY <1>2
<1>4. generated' = generated
  BY DEF Transport
<1>13. expired \in Nat
  BY ProducerAssumption DEF TypeOK
<1>5. \A q \in TopicPartitions :
         /\ \A i \in DOMAIN queue'[q] : \E j \in DOMAIN queue[q] : queue'[q][i] = queue[q][j]
         /\ \A i \in DOMAIN topic'[q] :
               \/ i \in DOMAIN topic[q] /\ topic'[q][i] = topic[q][i]
               \/ \E j \in DOMAIN queue[q] : topic'[q][i] = queue[q][j]
         /\ \A i \in DOMAIN topic[q] : i \in DOMAIN topic'[q] /\ topic'[q][i] = topic[q][i]
         /\ \A i \in DOMAIN queue[q] :
               \/ \E j \in DOMAIN queue'[q] : queue'[q][j] = queue[q][i]
               \/ \E j \in DOMAIN topic'[q] : topic'[q][j] = queue[q][i]
               \/ q = p /\ i = 1 /\ expired' = expired + 1
  BY <1>3, MovedEntries
<1>6. \A k : InFlight(k)' \/ Delivered(k)' => InFlight(k) \/ Delivered(k)
  BY <1>5 DEF InFlight, Delivered
<1>7. \A k : Delivered(k) => Delivered(k)'
  BY <1>5 DEF Delivered
<1>8. \A k : InFlight(k) => \/ InFlight(k)' \/ Delivered(k)'
                            \/ k = queue[p][1] /\ expired' = expired + 1
  BY <1>5 DEF InFlight, Delivered
<1>9. Lost \subseteq Lost'
  BY <1>4, <1>6, LostIs
<1>10. expired' = expired \/ expired' = expired + 1
  BY <1>3 DEF Moved
<1>11. CASE expired' = expired
  <2>1. expired' # expired + 1
    BY <1>11, <1>13
  <2>2. Lost' = Lost
    BY <1>4, <1>7, <1>8, <1>9, <2>1, LostIs
  <2> QED  BY <1>9, <1>11, <2>2
<1>12. CASE expired' = expired + 1
  <2>1. Lost' \subseteq Lost \cup {queue[p][1]}
    BY <1>4, <1>7, <1>8, LostIs
  <2> QED  BY <1>9, <1>12, <2>1
<1> QED  BY <1>10, <1>11, <1>12

(* A process takes what its client holds with it.                          *)
LEMMA RestartLoses ==
    ASSUME TypeOK, TickInv, Restart
    PROVE  /\ \A k : k \in Lost' <=> k \in Lost \/ (k \in DOMAIN generated /\ ~Delivered(k))
           /\ \A k : Delivered(k)' <=> Delivered(k)
           /\ Cardinality(Lost') <= Cardinality(Lost) + Queued
<1>1. generated' = generated /\ topic' = topic /\ queue' = [p \in TopicPartitions |-> <<>>]
  BY DEF Restart, LoseQueue
<1>2. \A k : ~InFlight(k)'
  <2>1. \A p \in TopicPartitions : DOMAIN queue'[p] = {}
    BY <1>1
  <2> QED  BY <2>1 DEF InFlight
<1>3. \A k : Delivered(k)' <=> Delivered(k)
  BY <1>1 DEF Delivered
<1>4. \A k : k \in Lost' <=> k \in Lost \/ (k \in DOMAIN generated /\ ~Delivered(k))
  BY <1>1, <1>2, <1>3, LostIs
<1> DEFINE Entry(x) == queue[x[1]][x[2]]
           Gone == {Entry(x) : x \in Held}
<1>5. IsFiniteSet(Gone) /\ Cardinality(Gone) <= Queued /\ Cardinality(Gone) \in Nat
  <2>1. IsFiniteSet(Held)
    BY DEF TickInv
  <2>2. IsFiniteSet(Gone) /\ Cardinality(Gone) <= Cardinality(Held)
    <3>1. [x \in Held |-> Entry(x)] \in [Held -> Gone]
      OBVIOUS
    <3>2. \A y \in Gone : \E x \in Held : [z \in Held |-> Entry(z)][x] = y
      OBVIOUS
    <3>3. [x \in Held |-> Entry(x)] \in Surjection(Held, Gone)
      BY <3>1, <3>2 DEF Surjection
    <3> HIDE DEF Gone, Entry
    <3> QED  BY <2>1, <3>3, FS_Surjection
  <2> QED  BY <2>2, FS_CardinalityType DEF Queued
<1>6. Lost' \subseteq Lost \cup Gone
  <2>1. ASSUME NEW k, InFlight(k) PROVE k \in Gone
    <3>1. PICK p \in TopicPartitions : \E i \in DOMAIN queue[p] : queue[p][i] = k
      BY <2>1 DEF InFlight
    <3>2. PICK i \in DOMAIN queue[p] : queue[p][i] = k
      BY <3>1
    <3>3. <<p, i>> \in Held /\ Entry(<<p, i>>) = k
      BY <3>2 DEF Held
    <3> QED  BY <3>3
  <2> HIDE DEF Gone
  <2> QED  BY <1>1, <1>3, <2>1, LostIs
<1>7. Cardinality(Lost') <= Cardinality(Lost) + Queued
  <2> HIDE DEF Gone
  <2>1. IsFiniteSet(Lost) /\ Cardinality(Lost) \in Nat
    BY LostIsFinite
  <2>2. /\ IsFiniteSet(Lost \cup Gone)
        /\ Cardinality(Lost \cup Gone) = Cardinality(Lost) + Cardinality(Gone)
                                          - Cardinality(Lost \cap Gone)
    BY <1>5, <2>1, FS_Union
  <2>3. Cardinality(Lost') <= Cardinality(Lost \cup Gone) /\ Cardinality(Lost') \in Nat
    BY <1>6, <2>2, FS_Subset, FS_CardinalityType
  <2>4. Cardinality(Lost \cap Gone) \in Nat
    BY <2>1, FS_Intersection, FS_CardinalityType
  <2>5. Queued \in Nat
    BY QueuedType DEF TickInv
  <2>6. PICK a \in Nat, b \in Nat, c \in Nat, d \in Nat, e \in Nat :
           /\ a = Cardinality(Lost') /\ b = Cardinality(Lost) /\ c = Cardinality(Gone)
           /\ d = Cardinality(Lost \cap Gone) /\ e = Queued
    BY <1>5, <2>1, <2>3, <2>4, <2>5
  <2>7. a <= b + c - d /\ c <= e
    BY <1>5, <2>2, <2>3, <2>6
  <2>8. a <= b + e
    BY <2>7
  <2> QED  BY <2>6, <2>8
<1> QED  BY <1>3, <1>4, <1>7

LEMMA OrderStep ==
    ASSUME TypeOK, TickInv, LogInOrder, [Next]_vars
    PROVE  LogInOrder'
<1>1. CASE ProduceEvent
  <2>1. PICK n \in Nat : n = Len(generated)
    BY GeneratedDomain
  <2>2. DOMAIN generated = 1..n /\ topic' = topic /\ retries' = retries
    BY <1>1, <2>1, ProduceEntries
  <2>3. PICK p \in TopicPartitions : \E m \in Nat : Entered(p, m, n)
    BY <1>1, <2>1, ProduceEntries
  <2>4. PICK m \in Nat : Entered(p, m, n)
    BY <2>3
  <2> SUFFICES ASSUME retries = 0, NEW q \in TopicPartitions
               PROVE  /\ Increasing(queue'[q])
                      /\ Increasing(topic'[q])
                      /\ \A i \in DOMAIN topic'[q], j \in DOMAIN queue'[q] :
                            topic'[q][i] < queue'[q][j]
    BY <2>2 DEF LogInOrder, Increasing
  <2>5. /\ \A i, j \in DOMAIN queue[q] : i < j => queue[q][i] < queue[q][j]
        /\ \A i, j \in DOMAIN topic[q] : i < j => topic[q][i] < topic[q][j]
        /\ \A i \in DOMAIN topic[q], j \in DOMAIN queue[q] : topic[q][i] < queue[q][j]
    BY DEF LogInOrder, Increasing
  <2>6. CASE q # p
    <3>1. queue'[q] = queue[q]
      BY <2>4, <2>6 DEF Entered
    <3> QED  BY <2>2, <2>5, <3>1 DEF Increasing
  <2>7. CASE q = p
    <3>1. /\ DOMAIN queue[p] = 1..m /\ DOMAIN queue'[p] = 1..(m + 1)
          /\ \A i \in 1..m : queue'[p][i] = queue[p][i]
          /\ queue'[p][m + 1] = n + 1
      BY <2>4 DEF Entered
    <3>2. /\ \A i \in 1..m : queue[p][i] \in 1..n
          /\ \A i \in DOMAIN topic[p] : topic[p][i] \in 1..n
      BY <2>2, <3>1, EntriesAreEvents
    <3>3. \A i \in 1..(m + 1) : i = m + 1 \/ i \in 1..m
      OBVIOUS
    <3>4. ASSUME NEW i \in 1..(m + 1), NEW j \in 1..(m + 1), i < j
          PROVE  queue'[p][i] < queue'[p][j]
      <4>1. i \in 1..m
        BY <3>4
      <4>2. CASE j = m + 1
        BY <3>1, <3>2, <4>1, <4>2
      <4>3. CASE j \in 1..m
        BY <2>5, <2>7, <3>1, <3>4, <4>1, <4>3
      <4> QED  BY <3>3, <4>2, <4>3
    <3>5. ASSUME NEW i \in DOMAIN topic[p], NEW j \in 1..(m + 1)
          PROVE  topic[p][i] < queue'[p][j]
      <4>1. CASE j = m + 1
        BY <3>1, <3>2, <4>1
      <4>2. CASE j \in 1..m
        BY <2>5, <2>7, <3>1, <4>2
      <4> QED  BY <3>3, <4>1, <4>2
    <3> QED  BY <2>2, <2>5, <2>7, <3>1, <3>4, <3>5 DEF Increasing
  <2> QED  BY <2>6, <2>7
<1>2. CASE UNCHANGED producer_vars
  BY <1>2 DEF LogInOrder, producer_vars
<1>3. CASE EndTick \/ Flush \/ UNCHANGED vars
  BY <1>2, <1>3 DEF EndTick, Flush, vars
<1>4. CASE Crash \/ Overflow
  <2>1. /\ queue' = [p \in TopicPartitions |-> <<>>] /\ topic' = topic /\ retries' = retries
    BY <1>4, RestartType DEF Crash, Overflow
  <2>2. \A p \in TopicPartitions : DOMAIN queue'[p] = {}
    BY <2>1
  <2> QED  BY <2>1, <2>2 DEF LogInOrder, Increasing
<1>5. CASE Transport
  <2>1. PICK p \in TopicPartitions : Deliver(p) \/ Retry(p) \/ Expire(p)
    BY <1>5 DEF Transport
  <2>2. PICK m \in Nat : \E n \in Nat : Moved(p, m, n)
    <3>1. /\ queue \in [TopicPartitions -> Seq(DOMAIN generated)]
          /\ topic \in [TopicPartitions -> Seq(DOMAIN generated)]
      BY DEF TypeOK
    <3> QED  BY <2>1, <3>1, TransportMoves
  <2>3. PICK n \in Nat : Moved(p, m, n)
    BY <2>2
  <2>4. retries \in Nat
    BY ProducerAssumption DEF TypeOK
  <2> QED  BY <2>3, <2>4, MovedInOrder
<1> QED  BY <1>1, <1>3, <1>4, <1>5 DEF Next

LEMMA LivesStep ==
    ASSUME TypeOK, TickInv, LivesInv, [Next]_vars
    PROVE  LivesInv'
<1>1. PICK now \in 1..MaxLives, gone \in Nat : now = life /\ gone = expired
  BY ProducerAssumption DEF TypeOK
<1>2. \A k \in DOMAIN generated : generated[k].life \in 1..MaxLives /\ generated[k].life <= now
  BY <1>1, EventType DEF LivesInv
<1>3. CASE ProduceEvent
  <2>1. PICK n \in Nat : n = Len(generated)
    BY GeneratedDomain
  <2>2. /\ DOMAIN generated = 1..n /\ DOMAIN generated' = 1..(n + 1)
        /\ \A k \in 1..n : generated'[k] = generated[k]
        /\ expired' = expired
    BY <1>3, <2>1, ProduceEntries
  <2>3. generated'[n + 1].life = now /\ life' = now
    BY <1>1, <1>3, <2>1, ProduceEffect DEF ProduceEvent
  <2>4. Lost' = Lost
    BY <1>3, ProduceLosesNone
  <2>5. \A k \in 1..(n + 1) : k = n + 1 \/ k \in 1..n
    OBVIOUS
  <2>6. \A k \in 1..(n + 1) : generated'[k].life <= now
    BY <1>2, <2>2, <2>3, <2>5
  <2>7. expired' = 0 => \A k \in Lost' : generated'[k].life < now
    <3> SUFFICES ASSUME expired = 0, NEW k \in Lost
                 PROVE  generated'[k].life < now
      BY <2>2, <2>4
    <3>1. k \in 1..n
      BY <2>2 DEF Lost
    <3> QED  BY <1>1, <2>2, <3>1 DEF LivesInv
  <2> QED  BY <2>2, <2>3, <2>6, <2>7 DEF LivesInv
<1>4. CASE UNCHANGED <<queue, topic, expired, generated, life>>
  <2>1. Lost' = Lost
    BY <1>4 DEF Lost, InFlightOrDelivered
  <2> QED  BY <1>4, <2>1 DEF LivesInv
<1>5. CASE EndTick \/ Flush \/ UNCHANGED vars
  BY <1>4, <1>5 DEF EndTick, Flush, vars, producer_vars
<1>6. CASE Crash \/ Overflow
  <2>1. generated' = generated /\ life' = now + 1
    BY <1>1, <1>6 DEF Crash, Overflow, Restart
  <2>2. Lost' \subseteq DOMAIN generated
    BY <2>1 DEF Lost
  <2>3. \A k \in DOMAIN generated : generated[k].life < now + 1 /\ generated[k].life <= now + 1
    BY <1>2
  <2> QED  BY <2>1, <2>2, <2>3 DEF LivesInv
<1>7. CASE Transport
  <2>1. generated' = generated /\ life' = life
    BY <1>7 DEF Transport
  <2>2. (Lost' = Lost /\ expired' = expired) \/ expired' = gone + 1
    BY <1>1, <1>7, TransportLoses
  <2>3. gone + 1 # 0
    OBVIOUS
  <2> QED  BY <2>1, <2>2, <2>3 DEF LivesInv
<1> QED  BY <1>3, <1>5, <1>6, <1>7 DEF Next

LEMMA SuffixStep ==
    ASSUME TypeOK, TickInv, Placed, LogInOrder, LivesInv, LostIsSuffix, [Next]_vars
    PROVE  LostIsSuffix'
<1>1. PICK gone \in Nat, again \in Nat : gone = expired /\ again = retries
  BY ProducerAssumption DEF TypeOK
<1>2. CASE ProduceEvent
  <2>1. PICK n \in Nat : n = Len(generated)
    BY GeneratedDomain
  <2>2. /\ DOMAIN generated = 1..n /\ DOMAIN generated' = 1..(n + 1)
        /\ \A k \in 1..n : generated'[k] = generated[k]
        /\ expired' = expired /\ retries' = retries
    BY <1>2, <2>1, ProduceEntries
  <2>3. PICK now \in 1..MaxLives : now = life /\ generated'[n + 1].life = now
    BY <1>2, <2>1, ProduceEffect DEF TypeOK
  <2>4. Lost' = Lost
    BY <1>2, ProduceLosesNone
  <2> SUFFICES ASSUME expired = 0, retries = 0, NEW k \in Lost, NEW m \in 1..(n + 1), m > k,
                      generated'[m].life = generated'[k].life,
                      PartitionOf[generated'[m].host] = PartitionOf[generated'[k].host]
               PROVE  m \in Lost
    BY <2>2, <2>4 DEF LostIsSuffix
  <2>5. k \in 1..n /\ generated'[k] = generated[k]
    BY <2>2 DEF Lost
  <2>6. generated[k].life < now /\ generated[k].life \in Nat
    BY <2>2, <2>3, <2>5, EventType DEF LivesInv
  <2>7. m # n + 1
    BY <2>3, <2>5, <2>6
  <2>8. m \in 1..n /\ generated'[m] = generated[m]
    BY <2>2, <2>7
  <2> QED  BY <2>2, <2>5, <2>8 DEF LostIsSuffix
<1>3. CASE UNCHANGED <<queue, topic, expired, retries, generated>>
  <2>1. Lost' = Lost
    BY <1>3 DEF Lost, InFlightOrDelivered
  <2> QED  BY <1>3, <2>1 DEF LostIsSuffix
<1>4. CASE EndTick \/ Flush \/ UNCHANGED vars
  BY <1>3, <1>4 DEF EndTick, Flush, vars, producer_vars
<1>5. CASE Crash \/ Overflow
  <2>1. Restart
    BY <1>5 DEF Crash, Overflow
  <2>2. generated' = generated /\ expired' = expired /\ retries' = retries
    BY <2>1, RestartType DEF Restart
  <2>3. \A k : k \in Lost' <=> k \in Lost \/ (k \in DOMAIN generated /\ ~Delivered(k))
    BY <2>1, RestartLoses
  <2> SUFFICES ASSUME expired = 0, retries = 0, NEW k \in Lost', NEW m \in DOMAIN generated,
                      m > k, generated[m].life = generated[k].life,
                      PartitionOf[generated[m].host] = PartitionOf[generated[k].host],
                      Delivered(m)
               PROVE  m \in Lost
    BY <2>2, <2>3 DEF LostIsSuffix
  <2>4. CASE k \in Lost
    BY <2>4 DEF LostIsSuffix
  <2>5. CASE k \notin Lost
    <3>1. InFlight(k)
      BY <2>3, <2>5, LostIs
    <3>2. PICK p \in TopicPartitions : \E i \in DOMAIN queue[p] : queue[p][i] = k
      BY <3>1 DEF InFlight
    <3>3. PICK i \in DOMAIN queue[p] : queue[p][i] = k
      BY <3>2
    <3>4. PICK q \in TopicPartitions : \E j \in DOMAIN topic[q] : topic[q][j] = m
      BY DEF Delivered
    <3>5. PICK j \in DOMAIN topic[q] : topic[q][j] = m
      BY <3>4
    <3>6. PartitionOf[generated[k].host] = p /\ PartitionOf[generated[m].host] = q
      BY <3>3, <3>5 DEF Placed
    <3>7. m < k
      BY <3>3, <3>5, <3>6 DEF LogInOrder
    <3>8. m \in Nat /\ k \in Nat
      BY <3>3, GeneratedDomain, EntriesAreEvents
    <3> QED  BY <3>7, <3>8
  <2> QED  BY <2>4, <2>5
<1>6. CASE Transport
  <2>1. generated' = generated
    BY <1>6 DEF Transport
  <2>2. (Lost' = Lost /\ expired' = expired) \/ expired' = gone + 1
    BY <1>1, <1>6, TransportLoses
  <2>3. retries' = again \/ retries' = again + 1
    BY <1>1, <1>6 DEF Transport, Deliver, Retry, Expire
  <2>4. gone + 1 # 0 /\ again + 1 # 0
    OBVIOUS
  <2> QED  BY <1>1, <2>1, <2>2, <2>3, <2>4 DEF LostIsSuffix
<1> QED  BY <1>2, <1>4, <1>5, <1>6 DEF Next

(* One more life, or one more flush that gave up.                          *)
LEMMA MoreLoss ==
    ASSUME NEW l \in Nat, NEW t \in Nat, NEW B \in Nat
    PROVE  /\ l * (t + 1) * B \in Nat
           /\ l * (t + 1) * B <= l * ((t + 1) + 1) * B
           /\ (l + 1) * (t + 1) * B = l * (t + 1) * B + (t + 1) * B
           /\ (t + 1) * B \in Nat
<1>1. PICK x \in Nat : x = l * (t + 1)
  OBVIOUS
<1>2. l * ((t + 1) + 1) = x + l /\ (l + 1) * (t + 1) = x + (t + 1)
  BY <1>1
<1>3. (x + l) * B = x * B + l * B /\ x * B \in Nat /\ l * B \in Nat
  OBVIOUS
<1>4. (x + (t + 1)) * B = x * B + (t + 1) * B /\ (t + 1) * B \in Nat
  OBVIOUS
<1> QED  BY <1>1, <1>2, <1>3, <1>4

LEMMA LossCountStep ==
    ASSUME TypeOK, TickInv, BacklogBound, LossCount, [Next]_vars
    PROVE  LossCount'
<1>1. PICK t \in Nat, gone \in Nat, l \in Nat :
         t = timeouts /\ gone = expired /\ life = l + 1
  <2>1. life \in Nat \ {0} /\ life - 1 \in Nat /\ life = (life - 1) + 1
    BY GeneratorAssumption DEF TypeOK
  <2> QED  BY <2>1, GeneratorAssumption, ProducerAssumption DEF TypeOK
<1>2. PICK B \in Nat : B = FlushBatch
  BY ProfilesType, GeneratorAssumption DEF FlushBatch
<1>3. PICK bound \in Nat, more \in Nat, batch \in Nat :
         /\ bound = l * (t + 1) * B /\ more = l * ((t + 1) + 1) * B /\ bound <= more
         /\ batch = (t + 1) * B /\ (l + 1) * (t + 1) * B = bound + batch
  <2>1. t + 1 \in Nat
    OBVIOUS
  <2> QED  BY <2>1, MoreLoss
<1>4. PICK lost \in Nat, held \in Nat : lost = Cardinality(Lost) /\ held = Queued
  BY LostIsFinite, QueuedType DEF TickInv
<1>5. lost <= gone + bound /\ held <= batch
  <2>1. life - 1 = l
    BY <1>1
  <2> QED  BY <1>1, <1>2, <1>3, <1>4, <2>1 DEF LossCount, BacklogBound
<1>6. (l + 1) - 1 = l /\ (l + 2) - 1 = l + 1
  OBVIOUS
<1>7. CASE Lost' = Lost /\ UNCHANGED <<expired, life, timeouts>>
  BY <1>7 DEF LossCount, FlushBatch
<1>8. CASE ProduceEvent
  <2>1. PICK n \in Nat : n = Len(generated)
    BY GeneratedDomain
  <2> QED  BY <1>7, <1>8, <2>1, ProduceEntries, ProduceLosesNone DEF ProduceEvent
<1>9. CASE EndTick \/ UNCHANGED vars
  <2>1. Lost' = Lost
    BY <1>9 DEF Lost, InFlightOrDelivered, EndTick, vars, producer_vars
  <2> QED  BY <1>7, <1>9, <2>1 DEF EndTick, vars, producer_vars
<1>10. CASE Flush
  <2>1. Lost' = Lost
    BY <1>10 DEF Lost, InFlightOrDelivered, Flush, producer_vars
  <2>2. expired' = gone /\ life' = l + 1 /\ (timeouts' = t \/ timeouts' = t + 1)
    BY <1>1, <1>10 DEF Flush, producer_vars
  <2>3. CASE timeouts' = t
    BY <1>1, <1>7, <2>1, <2>2, <2>3
  <2>4. CASE timeouts' = t + 1
    <3>1. lost <= gone + more
      BY <1>3, <1>5
    <3> QED  BY <1>2, <1>3, <1>4, <1>6, <2>1, <2>2, <2>4, <3>1 DEF LossCount, FlushBatch
  <2> QED  BY <2>2, <2>3, <2>4
<1>11. CASE Crash \/ Overflow
  <2>1. Restart
    BY <1>11 DEF Crash, Overflow
  <2>2. expired' = gone /\ timeouts' = t /\ life' = l + 2
    <3>1. (l + 1) + 1 = l + 2
      OBVIOUS
    <3> QED  BY <1>1, <2>1, <3>1 DEF Restart, LoseQueue
  <2>3. TypeOK'
    BY <2>1, RestartType
  <2>4. Cardinality(Lost') \in Nat /\ Cardinality(Lost') <= lost + held
    <3>1. Cardinality(Lost') <= Cardinality(Lost) + Queued
      BY <2>1, RestartLoses
    <3>2. IsFiniteSet(Lost')
      <4>1. generated' = generated
        BY <2>1 DEF Restart
      <4>2. PICK n \in Nat : DOMAIN generated = 1..n
        BY GeneratedDomain
      <4>3. Lost' \subseteq 1..n /\ IsFiniteSet(1..n)
        BY <4>1, <4>2, FS_Interval DEF Lost
      <4> QED  BY <4>3, FS_Subset
    <3> QED  BY <1>4, <3>1, <3>2, FS_CardinalityType
  <2>5. PICK now \in Nat : now = Cardinality(Lost') /\ now <= gone + (bound + batch)
    BY <1>5, <2>4
  <2> QED  BY <1>2, <1>3, <1>6, <2>2, <2>5 DEF LossCount, FlushBatch
<1>12. CASE Transport
  <2>1. life' = l + 1 /\ timeouts' = t /\ generated' = generated
    BY <1>1, <1>12 DEF Transport
  <2>2. CASE Lost' = Lost /\ expired' = expired
    BY <1>1, <1>7, <2>1, <2>2
  <2>3. CASE expired' = gone + 1 /\ \E k : Lost' \subseteq Lost \cup {k}
    <3>1. PICK k : Lost' \subseteq Lost \cup {k}
      BY <2>3
    <3>2. IsFiniteSet(Lost \cup {k}) /\ Cardinality(Lost \cup {k}) <= lost + 1
      <4>1. IsFiniteSet(Lost)
        BY LostIsFinite
      <4>2. /\ IsFiniteSet(Lost \cup {k})
            /\ \/ Cardinality(Lost \cup {k}) = Cardinality(Lost)
               \/ Cardinality(Lost \cup {k}) = Cardinality(Lost) + 1
        BY <4>1, FS_AddElement
      <4> QED  BY <1>4, <4>2
    <3>3. PICK now \in Nat : now = Cardinality(Lost') /\ now <= lost + 1
      <4>1. /\ IsFiniteSet(Lost') /\ Cardinality(Lost') <= Cardinality(Lost \cup {k})
        BY <3>1, <3>2, FS_Subset
      <4>2. Cardinality(Lost') \in Nat /\ Cardinality(Lost \cup {k}) \in Nat
        BY <3>2, <4>1, FS_CardinalityType
      <4> QED  BY <1>4, <3>2, <4>1, <4>2
    <3>4. now <= (gone + 1) + bound
      BY <1>5, <3>3
    <3> QED  BY <1>2, <1>3, <1>6, <2>1, <2>3, <3>3, <3>4 DEF LossCount, FlushBatch
  <2> QED  BY <1>1, <1>12, <2>2, <2>3, TransportLoses
<1> QED  BY <1>8, <1>9, <1>10, <1>11, <1>12 DEF Next

LEMMA LossInit == Init => Placed /\ LogInOrder /\ LossInv
<1> SUFFICES ASSUME Init PROVE Placed /\ LogInOrder /\ LossInv
  OBVIOUS
<1>1. /\ queue = [p \in TopicPartitions |-> <<>>] /\ topic = [p \in TopicPartitions |-> <<>>]
      /\ generated = <<>> /\ life = 1 /\ expired = 0 /\ timeouts = 0
  BY DEF Init, ProducerInit
<1>2. \A p \in TopicPartitions : DOMAIN queue[p] = {} /\ DOMAIN topic[p] = {}
  BY <1>1
<1>3. DOMAIN generated = {}
  BY <1>1
<1>4. Lost = {} /\ Cardinality(Lost) = 0
  BY <1>3, FS_EmptySet DEF Lost
<1>5. LossCount
  <2>1. PICK B \in Nat : B = FlushBatch
    BY ProfilesType, GeneratorAssumption DEF FlushBatch
  <2>2. 0 <= 0 + (1 - 1) * (0 + 1) * B
    BY <2>1
  <2> QED  BY <1>1, <1>4, <2>1, <2>2 DEF LossCount
<1> QED
  BY <1>2, <1>3, <1>4, <1>5
  DEF Placed, LogInOrder, Increasing, LossInv, LivesInv, LostIsSuffix

(* An event is lost only by being given up or with its process; a process  *)
(* takes no more with it than it may hold, and of a partition only the end *)
(* (kafka_utils.py:19-28, main.py:73-91).                                  *)
THEOREM LossIsBounded == Spec => []TelemetryLossBound
<1> DEFINE IInv == TypeOK /\ TickInv /\ BacklogInv /\ Placed /\ LogInOrder /\ LossInv
<1>1. Init => IInv
  BY TypeInit, LossInit
<1>2. IInv /\ [Next]_vars => IInv'
  <2> SUFFICES ASSUME IInv, [Next]_vars PROVE IInv'
    OBVIOUS
  <2>1. TypeOK' /\ TickInv' /\ BacklogInv' /\ Placed' /\ LogInOrder'
    BY TypeStep, BacklogStep, PlacedStep, OrderStep
  <2>2. LivesInv' /\ LostIsSuffix' /\ LossCount'
    BY LivesStep, SuffixStep, LossCountStep, BacklogIsBound DEF LossInv
  <2> QED  BY <2>1, <2>2 DEF LossInv
<1>3. IInv => TelemetryLossBound
  BY DEF LossInv, LivesInv, LostIsSuffix, LossCount, TelemetryLossBound
<1> HIDE DEF IInv
<1> QED  BY <1>1, <1>2, <1>3, PTL DEF Spec
-----------------------------------------------------------------------------
(* Disorder                                                                *)

(* What one partition has been sent, and what it will be sent.             *)
Joined(logs, queues) == [p \in TopicPartitions |-> logs[p] \o queues[p]]

FewDescents(f, r) == IsFiniteSet(Descents(f)) /\ Cardinality(Descents(f)) <= r

(* A log with what is queued for it goes down once for every request that  *)
(* was sent again; what is given up takes a descent away or moves it.      *)
DisorderInv == FewDescents(Joined(topic, queue), retries)

Ranks(f) ==
    \A p \in TopicPartitions :
        Len(f[p]) \in Nat /\ \A i \in 1..Len(f[p]) : f[p][i] \in Nat

(* g begins as f does.                                                     *)
Begins(g, f) ==
    \A p \in TopicPartitions :
        Len(g[p]) <= Len(f[p]) /\ \A i \in 1..Len(g[p]) : g[p][i] = f[p][i]

(* f[p] has one entry more in g, at its end; or one less, at place c.      *)
Added(f, g, p, l) ==
    /\ Len(f[p]) = l /\ Len(g[p]) = l + 1
    /\ \A i \in 1..l : g[p][i] = f[p][i]
    /\ \A q \in TopicPartitions : q # p => g[q] = f[q]

Removed(f, g, p, l, c) ==
    /\ Len(f[p]) = l + 1 /\ Len(g[p]) = l /\ c \in 1..(l + 1)
    /\ \A i \in 1..l : i < c => g[p][i] = f[p][i]
    /\ \A i \in 1..l : i >= c => g[p][i] = f[p][i + 1]
    /\ \A q \in TopicPartitions : q # p => g[q] = f[q]

LEMMA InDescents ==
    ASSUME NEW f
    PROVE  /\ \A p, i : <<p, i>> \in Descents(f) <=>
                  /\ p \in TopicPartitions /\ i \in 1..(Len(f[p]) - 1)
                  /\ f[p][i] >= f[p][i + 1]
           /\ \A x \in Descents(f) : \E p \in TopicPartitions : \E i : x = <<p, i>>
BY DEF Descents

LEMMA BeginsDescents ==
    ASSUME NEW f, NEW g, Ranks(f), Ranks(g), Begins(g, f)
    PROVE  Descents(g) \subseteq Descents(f)
<1> SUFFICES ASSUME NEW x \in Descents(g) PROVE x \in Descents(f)
  OBVIOUS
<1>1. PICK p \in TopicPartitions : \E i : x = <<p, i>>
  BY InDescents
<1>2. PICK i : x = <<p, i>>
  BY <1>1
<1>3. i \in 1..(Len(g[p]) - 1) /\ g[p][i] >= g[p][i + 1]
  BY <1>2, InDescents
<1>4. PICK k \in Nat, l \in Nat : k = Len(g[p]) /\ l = Len(f[p]) /\ k <= l
  BY DEF Ranks, Begins
<1>5. i \in 1..k /\ i + 1 \in 1..k /\ i \in 1..(l - 1)
  BY <1>3, <1>4
<1>6. g[p][i] = f[p][i] /\ g[p][i + 1] = f[p][i + 1]
  BY <1>4, <1>5 DEF Begins
<1> QED  BY <1>2, <1>3, <1>4, <1>5, <1>6, InDescents

LEMMA AddedDescents ==
    ASSUME NEW f, NEW g, NEW p \in TopicPartitions, NEW l \in Nat, Added(f, g, p, l)
    PROVE  /\ Descents(g) \subseteq Descents(f) \cup {<<p, l>>}
           /\ (l > 0 => ~(g[p][l] >= g[p][l + 1])) => Descents(g) \subseteq Descents(f)
<1>1. ASSUME NEW x \in Descents(g), x # <<p, l>> PROVE x \in Descents(f)
  <2>1. PICK q \in TopicPartitions : \E i : x = <<q, i>>
    BY InDescents
  <2>2. PICK i : x = <<q, i>>
    BY <2>1
  <2>3. i \in 1..(Len(g[q]) - 1) /\ g[q][i] >= g[q][i + 1]
    BY <2>2, InDescents
  <2>4. CASE q # p
    BY <2>2, <2>3, <2>4, InDescents DEF Added
  <2>5. CASE q = p
    <3>1. i \in 1..((l + 1) - 1) /\ i # l
      BY <1>1, <2>2, <2>3, <2>5 DEF Added
    <3>2. i \in 1..(l - 1) /\ i \in 1..l /\ i + 1 \in 1..l
      BY <3>1
    <3> QED  BY <2>2, <2>3, <2>5, <3>2, InDescents DEF Added
  <2> QED  BY <2>4, <2>5
<1>2. ASSUME <<p, l>> \in Descents(g) PROVE l > 0 /\ g[p][l] >= g[p][l + 1]
  <2>1. l \in 1..(Len(g[p]) - 1) /\ g[p][l] >= g[p][l + 1]
    BY <1>2, InDescents
  <2> QED  BY <2>1
<1> QED  BY <1>1, <1>2

LEMMA RemovedDescents ==
    ASSUME NEW f, NEW g, NEW p \in TopicPartitions, NEW l \in Nat, NEW c \in Nat,
           Ranks(f), Removed(f, g, p, l, c), IsFiniteSet(Descents(f))
    PROVE  IsFiniteSet(Descents(g)) /\ Cardinality(Descents(g)) <= Cardinality(Descents(f))
<1> DEFINE Up(i) == IF i < c - 1 THEN i
                    ELSE IF i = c - 1 /\ <<p, i>> \in Descents(f) THEN i ELSE i + 1
           Source(x) == IF x[1] = p THEN <<p, Up(x[2])>> ELSE x
<1>1. c \in 1..(l + 1) /\ Len(f[p]) = l + 1 /\ Len(g[p]) = l
  BY DEF Removed
<1>2. ASSUME NEW i, <<p, i>> \in Descents(g)
      PROVE  i \in 1..(l - 1) /\ <<p, Up(i)>> \in Descents(f)
  <2>1. i \in 1..(l - 1) /\ g[p][i] >= g[p][i + 1]
    BY <1>1, <1>2, InDescents
  <2>2. i \in 1..l /\ i + 1 \in 1..l /\ (i + 1) + 1 \in 1..(l + 1) /\ i \in 1..(l + 1)
    BY <2>1
  <2>3. \A j \in 1..(l + 1) : f[p][j] \in Nat
    BY <1>1 DEF Ranks
  <2>4. \A j \in 1..l : f[p][j] >= f[p][j + 1] => <<p, j>> \in Descents(f)
    <3>1. (l + 1) - 1 = l
      OBVIOUS
    <3> QED  BY <1>1, <3>1, InDescents
  <2>5. CASE i < c - 1
    <3>1. i < c /\ i + 1 < c
      BY <1>1, <2>2, <2>5
    <3>2. g[p][i] = f[p][i] /\ g[p][i + 1] = f[p][i + 1]
      BY <2>2, <3>1 DEF Removed
    <3> QED  BY <2>1, <2>2, <2>4, <2>5, <3>2
  <2>6. CASE i = c - 1
    <3>1. i < c /\ i + 1 >= c /\ ~(i < c - 1)
      BY <1>1, <2>2, <2>6
    <3>2. g[p][i] = f[p][i] /\ g[p][i + 1] = f[p][(i + 1) + 1]
      BY <2>2, <3>1 DEF Removed
    <3>3. f[p][i] \in Nat /\ f[p][i + 1] \in Nat /\ f[p][(i + 1) + 1] \in Nat
      <4>1. i + 1 \in 1..(l + 1)
        BY <2>1
      <4> QED  BY <2>2, <2>3, <4>1
    <3>4. f[p][i] >= f[p][i + 1] \/ f[p][i + 1] >= f[p][(i + 1) + 1]
      <4>1. f[p][i] >= f[p][(i + 1) + 1]
        BY <2>1, <3>2
      <4> QED  BY <3>3, <4>1
    <3>5. <<p, i>> \in Descents(f) \/ <<p, i + 1>> \in Descents(f)
      BY <2>2, <2>4, <3>4
    <3> QED  BY <2>1, <2>6, <3>1, <3>5
  <2>7. CASE i > c - 1
    <3>1. i >= c /\ i + 1 >= c /\ ~(i < c - 1) /\ i # c - 1
      BY <1>1, <2>2, <2>7
    <3>2. g[p][i] = f[p][i + 1] /\ g[p][i + 1] = f[p][(i + 1) + 1]
      BY <2>2, <3>1 DEF Removed
    <3> QED  BY <2>1, <2>2, <2>4, <3>1, <3>2
  <2> QED  BY <1>1, <2>1, <2>5, <2>6, <2>7
<1>3. ASSUME NEW i \in Nat, NEW j \in Nat, Up(i) = Up(j)
      PROVE  i = j
  BY <1>3
<1>4. ASSUME NEW x \in Descents(g)
      PROVE  /\ Source(x) \in Descents(f)
             /\ \/ x[1] # p /\ Source(x) = x
                \/ x = <<p, x[2]>> /\ x[2] \in Nat /\ Source(x) = <<p, Up(x[2])>>
  <2>1. PICK q \in TopicPartitions : \E i : x = <<q, i>>
    BY InDescents
  <2>2. PICK i : x = <<q, i>>
    BY <2>1
  <2>3. x[1] = q /\ x[2] = i
    BY <2>2
  <2>4. CASE q # p
    <3>1. <<q, i>> \in Descents(f)
      <4>1. g[q] = f[q]
        BY <2>4 DEF Removed
      <4> QED  BY <2>2, <4>1, InDescents
    <3> QED  BY <2>2, <2>3, <2>4, <3>1
  <2>5. CASE q = p
    <3>1. i \in 1..(l - 1) /\ <<p, Up(i)>> \in Descents(f)
      BY <1>2, <2>2, <2>5
    <3> HIDE DEF Up
    <3> QED  BY <2>2, <2>3, <2>5, <3>1
  <2> QED  BY <2>4, <2>5
<1>5. ASSUME NEW x \in Descents(g), NEW y \in Descents(g), Source(x) = Source(y)
      PROVE  x = y
  <2> HIDE DEF Up, Source
  <2>1. CASE x[1] # p /\ Source(x) = x /\ y[1] # p /\ Source(y) = y
    BY <1>5, <2>1
  <2>2. CASE x[1] # p /\ Source(x) = x /\ Source(y) = <<p, Up(y[2])>>
    <3>1. x = <<p, Up(y[2])>>
      BY <1>5, <2>2
    <3>2. x[1] = p
      BY <3>1
    <3> QED  BY <2>2, <3>2
  <2>3. CASE y[1] # p /\ Source(y) = y /\ Source(x) = <<p, Up(x[2])>>
    <3>1. y = <<p, Up(x[2])>>
      BY <1>5, <2>3
    <3>2. y[1] = p
      BY <3>1
    <3> QED  BY <2>3, <3>2
  <2>4. CASE /\ x = <<p, x[2]>> /\ x[2] \in Nat /\ Source(x) = <<p, Up(x[2])>>
             /\ y = <<p, y[2]>> /\ y[2] \in Nat /\ Source(y) = <<p, Up(y[2])>>
    <3>1. PICK a, b : a = Up(x[2]) /\ b = Up(y[2])
      OBVIOUS
    <3>2. <<p, a>> = <<p, b>>
      BY <1>5, <2>4, <3>1
    <3>3. a = b
      BY <3>2
    <3>4. x[2] = y[2]
      BY <1>3, <2>4, <3>1, <3>3
    <3> QED  BY <2>4, <3>4
  <2> QED  BY <1>4, <2>1, <2>2, <2>3, <2>4
<1>6. [x \in Descents(g) |-> Source(x)] \in Injection(Descents(g), Descents(f))
  <2>1. \A x \in Descents(g) : Source(x) \in Descents(f)
    BY <1>4
  <2> HIDE DEF Source
  <2> QED  BY <1>5, <2>1 DEF Injection, IsInjective
<1> QED  BY <1>6, FS_Injection

LEMMA BeginsFew ==
    ASSUME NEW f, NEW g, NEW r \in Nat, Ranks(f), Ranks(g), Begins(g, f), FewDescents(f, r)
    PROVE  FewDescents(g, r)
<1>1. Descents(g) \subseteq Descents(f) /\ IsFiniteSet(Descents(f))
  BY BeginsDescents DEF FewDescents
<1>2. IsFiniteSet(Descents(g)) /\ Cardinality(Descents(g)) <= Cardinality(Descents(f))
  BY <1>1, FS_Subset
<1>3. Cardinality(Descents(g)) \in Nat /\ Cardinality(Descents(f)) \in Nat
  BY <1>1, <1>2, FS_CardinalityType
<1> QED  BY <1>2, <1>3 DEF FewDescents

LEMMA AddedFew ==
    ASSUME NEW f, NEW g, NEW r \in Nat, NEW p \in TopicPartitions, NEW l \in Nat,
           Added(f, g, p, l), FewDescents(f, r)
    PROVE  FewDescents(g, r + 1)
<1>1. Descents(g) \subseteq Descents(f) \cup {<<p, l>>} /\ IsFiniteSet(Descents(f))
  BY AddedDescents DEF FewDescents
<1>2. /\ IsFiniteSet(Descents(f) \cup {<<p, l>>})
      /\ \/ Cardinality(Descents(f) \cup {<<p, l>>}) = Cardinality(Descents(f))
         \/ Cardinality(Descents(f) \cup {<<p, l>>}) = Cardinality(Descents(f)) + 1
  BY <1>1, FS_AddElement
<1>3. /\ IsFiniteSet(Descents(g))
      /\ Cardinality(Descents(g)) <= Cardinality(Descents(f) \cup {<<p, l>>})
  BY <1>1, <1>2, FS_Subset
<1>4. /\ Cardinality(Descents(g)) \in Nat /\ Cardinality(Descents(f)) \in Nat
      /\ Cardinality(Descents(f) \cup {<<p, l>>}) \in Nat
  BY <1>1, <1>2, <1>3, FS_CardinalityType
<1>5. PICK a \in Nat, b \in Nat, c \in Nat :
         /\ a = Cardinality(Descents(f)) /\ b = Cardinality(Descents(f) \cup {<<p, l>>})
         /\ c = Cardinality(Descents(g))
  BY <1>4
<1>6. a <= r /\ b <= a + 1 /\ c <= b
  BY <1>2, <1>3, <1>5 DEF FewDescents
<1> QED  BY <1>3, <1>5, <1>6 DEF FewDescents

LEMMA RemovedFew ==
    ASSUME NEW f, NEW g, NEW r \in Nat, NEW p \in TopicPartitions, NEW l \in Nat, NEW c \in Nat,
           Ranks(f), Removed(f, g, p, l, c), FewDescents(f, r)
    PROVE  FewDescents(g, r)
<1>1. IsFiniteSet(Descents(f))
  BY DEF FewDescents
<1>2. IsFiniteSet(Descents(g)) /\ Cardinality(Descents(g)) <= Cardinality(Descents(f))
  BY <1>1, RemovedDescents
<1>3. Cardinality(Descents(g)) \in Nat /\ Cardinality(Descents(f)) \in Nat
  BY <1>1, <1>2, FS_CardinalityType
<1> QED  BY <1>2, <1>3 DEF FewDescents

LogsType == [TopicPartitions -> Seq(Nat)]

(* w is s, of n entries, and then r, of m entries.                         *)
Concat(w, s, r, n, m) ==
    /\ Len(w) = n + m
    /\ \A i \in 1..n : w[i] = s[i]
    /\ \A i \in 1..m : w[n + i] = r[i]

LEMMA JoinedEntries ==
    ASSUME NEW t \in LogsType, NEW u \in LogsType, NEW p \in TopicPartitions,
           NEW n \in Nat, NEW m \in Nat, Len(t[p]) = n, Len(u[p]) = m
    PROVE  Joined(t, u)[p] \in Seq(Nat) /\ Concat(Joined(t, u)[p], t[p], u[p], n, m)
<1>1. t[p] \in Seq(Nat) /\ u[p] \in Seq(Nat)
  BY DEF LogsType
<1>2. Joined(t, u)[p] = t[p] \o u[p]
  BY DEF Joined
<1>3. /\ t[p] \o u[p] \in Seq(Nat)
      /\ Len(t[p] \o u[p]) = n + m
      /\ \A i \in 1..(n + m) : (t[p] \o u[p])[i] = IF i <= n THEN t[p][i] ELSE u[p][i - n]
  BY <1>1, ConcatProperties
<1>4. \A i \in 1..n : i \in 1..(n + m) /\ i <= n
  OBVIOUS
<1>5. ASSUME NEW i \in 1..m PROVE (t[p] \o u[p])[n + i] = u[p][i]
  <2>1. PICK k \in 1..(n + m) : k = n + i /\ ~(k <= n) /\ k - n = i
    OBVIOUS
  <2>2. (t[p] \o u[p])[k] = u[p][k - n]
    BY <1>3, <2>1
  <2> QED  BY <2>1, <2>2
<1>6. \A i \in 1..n : (t[p] \o u[p])[i] = t[p][i]
  BY <1>3, <1>4
<1> QED  BY <1>2, <1>3, <1>5, <1>6 DEF Concat

LEMMA JoinedRanks ==
    ASSUME NEW t \in LogsType, NEW u \in LogsType
    PROVE  Ranks(Joined(t, u)) /\ Ranks(t)
<1>1. \A s \in Seq(Nat) : Len(s) \in Nat /\ \A i \in 1..Len(s) : s[i] \in Nat
  BY LenProperties, ElementOfSeq
<1>2. \A p \in TopicPartitions : t[p] \in Seq(Nat) /\ u[p] \in Seq(Nat)
  BY DEF LogsType
<1>3. \A p \in TopicPartitions : Joined(t, u)[p] \in Seq(Nat)
  BY <1>1, <1>2, JoinedEntries
<1> QED  BY <1>1, <1>2, <1>3 DEF Ranks

(* An entry of the joined log is one of the log, or one of the queue.      *)
LEMMA Halves ==
    ASSUME NEW n \in Nat, NEW m \in Nat, NEW i \in 1..(n + m), i \notin 1..n
    PROVE  \E j \in 1..m : i = n + j
<1>1. i - n \in 1..m /\ i = n + (i - n)
  OBVIOUS
<1> QED  BY <1>1

LEMMA QueueGrows ==
    ASSUME NEW t \in LogsType, NEW u \in LogsType, NEW v \in LogsType, NEW p \in TopicPartitions,
           NEW n \in Nat, NEW m \in Nat, Len(t[p]) = n, Added(u, v, p, m)
    PROVE  Added(Joined(t, u), Joined(t, v), p, n + m)
<1>1. /\ Len(u[p]) = m /\ Len(v[p]) = m + 1
      /\ \A i \in 1..m : v[p][i] = u[p][i]
      /\ \A q \in TopicPartitions : q # p => v[q] = u[q]
  BY DEF Added
<1>2. /\ Len(Joined(t, u)[p]) = n + m
      /\ \A i \in 1..n : Joined(t, u)[p][i] = t[p][i]
      /\ \A i \in 1..m : Joined(t, u)[p][n + i] = u[p][i]
  <2>1. Concat(Joined(t, u)[p], t[p], u[p], n, m)
    BY <1>1, JoinedEntries
  <2> QED  BY <2>1 DEF Concat
<1>3. /\ Len(Joined(t, v)[p]) = n + (m + 1)
      /\ \A i \in 1..n : Joined(t, v)[p][i] = t[p][i]
      /\ \A i \in 1..(m + 1) : Joined(t, v)[p][n + i] = v[p][i]
  <2>1. PICK k \in Nat : k = m + 1
    OBVIOUS
  <2>2. Concat(Joined(t, v)[p], t[p], v[p], n, k)
    BY <1>1, <2>1, JoinedEntries
  <2> QED  BY <2>1, <2>2 DEF Concat
<1>4. n + (m + 1) = (n + m) + 1
  OBVIOUS
<1>5. ASSUME NEW i \in 1..(n + m) PROVE Joined(t, v)[p][i] = Joined(t, u)[p][i]
  <2>1. CASE i \in 1..n
    BY <1>2, <1>3, <2>1
  <2>2. CASE i \notin 1..n
    <3>1. PICK j \in 1..m : i = n + j
      BY <2>2, Halves
    <3>2. j \in 1..(m + 1)
      OBVIOUS
    <3> QED  BY <1>1, <1>2, <1>3, <3>1, <3>2
  <2> QED  BY <2>1, <2>2
<1>6. \A q \in TopicPartitions : q # p => Joined(t, v)[q] = Joined(t, u)[q]
  BY <1>1 DEF Joined
<1> QED  BY <1>2, <1>3, <1>4, <1>5, <1>6 DEF Added

(* Its first entry has left v[p].                                          *)
Dequeued(u, v, p, m) ==
    /\ Len(u[p]) = m + 1 /\ Len(v[p]) = m
    /\ \A i \in 1..m : v[p][i] = u[p][i + 1]
    /\ \A q \in TopicPartitions : q # p => v[q] = u[q]

LEMMA QueueShrinks ==
    ASSUME NEW t \in LogsType, NEW u \in LogsType, NEW v \in LogsType, NEW p \in TopicPartitions,
           NEW n \in Nat, NEW m \in Nat, Len(t[p]) = n, Dequeued(u, v, p, m)
    PROVE  Removed(Joined(t, u), Joined(t, v), p, n + m, n + 1)
<1>1. /\ Len(u[p]) = m + 1 /\ Len(v[p]) = m
      /\ \A i \in 1..m : v[p][i] = u[p][i + 1]
      /\ \A q \in TopicPartitions : q # p => v[q] = u[q]
  BY DEF Dequeued
<1>2. /\ Len(Joined(t, u)[p]) = n + (m + 1)
      /\ \A i \in 1..n : Joined(t, u)[p][i] = t[p][i]
      /\ \A i \in 1..(m + 1) : Joined(t, u)[p][n + i] = u[p][i]
  <2>1. PICK k \in Nat : k = m + 1
    OBVIOUS
  <2>2. Concat(Joined(t, u)[p], t[p], u[p], n, k)
    BY <1>1, <2>1, JoinedEntries
  <2> QED  BY <2>1, <2>2 DEF Concat
<1>3. /\ Len(Joined(t, v)[p]) = n + m
      /\ \A i \in 1..n : Joined(t, v)[p][i] = t[p][i]
      /\ \A i \in 1..m : Joined(t, v)[p][n + i] = v[p][i]
  <2>1. Concat(Joined(t, v)[p], t[p], v[p], n, m)
    BY <1>1, JoinedEntries
  <2> QED  BY <2>1 DEF Concat
<1>4. n + (m + 1) = (n + m) + 1 /\ n + 1 \in 1..((n + m) + 1)
  OBVIOUS
<1>5. ASSUME NEW i \in 1..(n + m), i < n + 1
      PROVE  Joined(t, v)[p][i] = Joined(t, u)[p][i]
  <2>1. i \in 1..n
    BY <1>5
  <2> QED  BY <1>2, <1>3, <2>1
<1>6. ASSUME NEW i \in 1..(n + m), i >= n + 1
      PROVE  Joined(t, v)[p][i] = Joined(t, u)[p][i + 1]
  <2>1. i \notin 1..n
    BY <1>6
  <2>2. PICK j \in 1..m : i = n + j
    BY <2>1, Halves
  <2>3. PICK k \in 1..(m + 1) : k = j + 1 /\ i + 1 = n + k
    BY <2>2
  <2>4. Joined(t, u)[p][n + k] = u[p][k]
    BY <1>2
  <2>5. Joined(t, v)[p][i] = u[p][j + 1]
    BY <1>1, <1>3, <2>2
  <2> QED  BY <2>3, <2>4, <2>5
<1>7. \A q \in TopicPartitions : q # p => Joined(t, v)[q] = Joined(t, u)[q]
  BY <1>1 DEF Joined
<1> QED  BY <1>2, <1>3, <1>4, <1>5, <1>6, <1>7 DEF Removed

(* The oldest message has come from the queue to the end of the log.       *)
LEMMA HandedOver ==
    ASSUME NEW t \in LogsType, NEW s \in LogsType, NEW u \in LogsType, NEW v \in LogsType,
           NEW p \in TopicPartitions, NEW n \in Nat, NEW m \in Nat,
           Added(t, s, p, n), s[p][n + 1] = u[p][1], Dequeued(u, v, p, m)
    PROVE  Begins(Joined(s, v), Joined(t, u))
<1>1. /\ Len(u[p]) = m + 1 /\ Len(v[p]) = m
      /\ \A i \in 1..m : v[p][i] = u[p][i + 1]
      /\ \A q \in TopicPartitions : q # p => v[q] = u[q]
  BY DEF Dequeued
<1>2. /\ Len(t[p]) = n /\ Len(s[p]) = n + 1
      /\ \A i \in 1..n : s[p][i] = t[p][i]
      /\ \A q \in TopicPartitions : q # p => s[q] = t[q]
  BY DEF Added
<1>3. PICK n1 \in Nat, m1 \in Nat : n1 = n + 1 /\ m1 = m + 1
  OBVIOUS
<1>4. /\ Len(Joined(t, u)[p]) = n + (m + 1)
      /\ \A i \in 1..n : Joined(t, u)[p][i] = t[p][i]
      /\ \A i \in 1..(m + 1) : Joined(t, u)[p][n + i] = u[p][i]
  <2>1. Concat(Joined(t, u)[p], t[p], u[p], n, m1)
    BY <1>1, <1>2, <1>3, JoinedEntries
  <2> QED  BY <1>3, <2>1 DEF Concat
<1>5. /\ Len(Joined(s, v)[p]) = (n + 1) + m
      /\ \A i \in 1..(n + 1) : Joined(s, v)[p][i] = s[p][i]
      /\ \A i \in 1..m : Joined(s, v)[p][(n + 1) + i] = v[p][i]
  <2>1. Concat(Joined(s, v)[p], s[p], v[p], n1, m)
    BY <1>1, <1>2, <1>3, JoinedEntries
  <2> QED  BY <1>3, <2>1 DEF Concat
<1>6. (n + 1) + m = n + (m + 1)
  OBVIOUS
<1>7. ASSUME NEW i \in 1..((n + 1) + m) PROVE Joined(s, v)[p][i] = Joined(t, u)[p][i]
  <2>1. CASE i \in 1..n
    <3>1. i \in 1..(n + 1)
      BY <2>1
    <3> QED  BY <1>2, <1>4, <1>5, <2>1, <3>1
  <2>2. CASE i = n + 1
    <3>1. n + 1 \in 1..(n + 1) /\ 1 \in 1..(m + 1)
      OBVIOUS
    <3> QED  BY <1>4, <1>5, <2>2, <3>1
  <2>3. CASE i \notin 1..(n + 1)
    <3>1. PICK j \in 1..m : i = (n + 1) + j
      BY <1>3, <2>3, Halves
    <3>2. PICK k \in 1..(m + 1) : k = j + 1 /\ i = n + k
      BY <3>1
    <3>3. Joined(t, u)[p][n + k] = u[p][k]
      BY <1>4
    <3>4. Joined(s, v)[p][(n + 1) + j] = v[p][j] /\ v[p][j] = u[p][j + 1]
      BY <1>1, <1>5
    <3> QED  BY <3>1, <3>2, <3>3, <3>4
  <2>4. i \in 1..(n + 1) => i \in 1..n \/ i = n + 1
    OBVIOUS
  <2> QED  BY <2>1, <2>2, <2>3, <2>4
<1>8. \A q \in TopicPartitions : q # p => Joined(s, v)[q] = Joined(t, u)[q]
  BY <1>1, <1>2 DEF Joined
<1>9. \A q \in TopicPartitions : Len(Joined(t, u)[q]) \in Nat
  BY JoinedRanks DEF Ranks
<1>10. Len(Joined(s, v)[p]) = Len(Joined(t, u)[p]) /\ Len(Joined(s, v)[p]) = (n + 1) + m
  BY <1>4, <1>5, <1>6
<1>11. ASSUME NEW q \in TopicPartitions
       PROVE  /\ Len(Joined(s, v)[q]) <= Len(Joined(t, u)[q])
              /\ \A i \in 1..Len(Joined(s, v)[q]) : Joined(s, v)[q][i] = Joined(t, u)[q][i]
  <2>1. Len(Joined(s, v)[q]) = Len(Joined(t, u)[q])
    BY <1>8, <1>10
  <2>2. Len(Joined(s, v)[q]) <= Len(Joined(t, u)[q])
    BY <1>9, <2>1
  <2>3. CASE q = p
    BY <1>7, <1>10, <2>2, <2>3
  <2>4. CASE q # p
    BY <1>8, <2>2, <2>4
  <2> QED  BY <2>3, <2>4
<1> QED  BY <1>11 DEF Begins

LEMMA LogsAreRanks ==
    ASSUME TypeOK
    PROVE  queue \in LogsType /\ topic \in LogsType
<1>1. PICK n \in Nat : DOMAIN generated = 1..n
  BY GeneratedDomain
<1>2. DOMAIN generated \subseteq Nat
  BY <1>1
<1>3. \A s \in Seq(DOMAIN generated) : s \in Seq(Nat)
  BY <1>2, SeqMonotonic
<1> QED  BY <1>3 DEF TypeOK, LogsType

LEMMA TransportDisorder ==
    ASSUME TypeOK, TypeOK', DisorderInv, Transport
    PROVE  DisorderInv'
<1>1. PICK p \in TopicPartitions : Deliver(p) \/ Retry(p) \/ Expire(p)
  BY DEF Transport
<1>2. PICK again \in Nat : again = retries
  BY ProducerAssumption DEF TypeOK
<1>3. /\ queue \in LogsType /\ topic \in LogsType
      /\ queue' \in LogsType /\ topic' \in LogsType
  <2>1. queue' \in LogsType /\ topic' \in LogsType
    <3>1. PICK n \in Nat : DOMAIN generated' = 1..n
      BY LenProperties DEF TypeOK
    <3>2. DOMAIN generated' \subseteq Nat
      BY <3>1
    <3>3. \A s \in Seq(DOMAIN generated') : s \in Seq(Nat)
      BY <3>2, SeqMonotonic
    <3> QED  BY <3>3 DEF TypeOK, LogsType
  <2> QED  BY <2>1, LogsAreRanks
<1>4. queue[p] # <<>>
  BY <1>1 DEF Deliver, Retry, Expire
<1>5. PICK v : v = [queue EXCEPT ![p] = Tail(@)]
  OBVIOUS
<1>6. /\ v \in LogsType
      /\ \A q \in TopicPartitions \ {p} : v[q] = queue[q]
      /\ Len(v[p]) = Len(queue[p]) - 1
      /\ \A i \in 1..Len(v[p]) : v[p][i] = queue[p][i + 1]
      /\ Head(queue[p]) = queue[p][1]
      /\ Head(queue[p]) \in Nat
      /\ Len(queue[p]) > 0
  BY <1>3, <1>4, <1>5, TailAt DEF LogsType
<1>7. PICK m \in Nat : Len(v[p]) = m /\ Len(queue[p]) = m + 1
  <2>1. v[p] \in Seq(Nat) /\ queue[p] \in Seq(Nat)
    BY <1>3, <1>6 DEF LogsType
  <2>2. PICK a \in Nat, b \in Nat : a = Len(v[p]) /\ b = Len(queue[p])
    BY <2>1, LenProperties
  <2>3. a = b - 1
    BY <1>6, <2>2
  <2> QED  BY <2>2, <2>3
<1>8. PICK n \in Nat : Len(topic[p]) = n
  <2>1. topic[p] \in Seq(Nat)
    BY <1>3 DEF LogsType
  <2> QED  BY <2>1, LenProperties
<1>9. Dequeued(queue, v, p, m)
  BY <1>6, <1>7 DEF Dequeued
<1>10. ASSUME topic' = [topic EXCEPT ![p] = Append(@, Head(queue[p]))]
       PROVE  Added(topic, topic', p, n) /\ topic'[p][n + 1] = queue[p][1]
  <2>1. /\ \A q \in TopicPartitions \ {p} : topic'[q] = topic[q]
        /\ Len(topic'[p]) = Len(topic[p]) + 1
        /\ \A i \in 1..Len(topic[p]) : topic'[p][i] = topic[p][i]
        /\ topic'[p][Len(topic[p]) + 1] = Head(queue[p])
    BY <1>3, <1>6, <1>10, AppendAt DEF LogsType
  <2> QED  BY <1>6, <1>8, <2>1 DEF Added
<1>11. /\ Ranks(Joined(topic, queue)) /\ Ranks(Joined(topic', v)) /\ Ranks(Joined(topic', queue'))
  BY <1>3, <1>6, JoinedRanks
<1>12. FewDescents(Joined(topic, queue), again)
  BY <1>2 DEF DisorderInv
<1>13. CASE Deliver(p)
  <2>1. /\ queue' = v /\ topic' = [topic EXCEPT ![p] = Append(@, Head(queue[p]))]
        /\ retries' = again
    BY <1>2, <1>5, <1>13 DEF Deliver
  <2>2. Begins(Joined(topic', v), Joined(topic, queue))
    BY <1>3, <1>6, <1>9, <1>10, <2>1, HandedOver
  <2>3. FewDescents(Joined(topic', v), again)
    BY <1>11, <1>12, <2>2, BeginsFew
  <2> QED  BY <2>1, <2>3 DEF DisorderInv
<1>14. CASE Expire(p)
  <2>1. queue' = v /\ topic' = topic /\ retries' = again
    BY <1>2, <1>5, <1>14 DEF Expire
  <2>2. Removed(Joined(topic, queue), Joined(topic, v), p, n + m, n + 1)
    BY <1>3, <1>6, <1>8, <1>9, QueueShrinks
  <2>3. FewDescents(Joined(topic, v), again)
    <3>1. PICK l \in Nat, c \in Nat : l = n + m /\ c = n + 1
      OBVIOUS
    <3> QED  BY <1>11, <1>12, <2>2, <3>1, RemovedFew
  <2> QED  BY <2>1, <2>3 DEF DisorderInv
<1>15. CASE Retry(p)
  <2>1. /\ queue' = [queue EXCEPT ![p] = Append(Tail(@), Head(@))]
        /\ topic' = [topic EXCEPT ![p] = Append(@, Head(queue[p]))] \/ topic' = topic
        /\ retries' = again + 1
    BY <1>2, <1>15 DEF Retry
  <2>2. Added(v, queue', p, m)
    <3>1. queue' = [v EXCEPT ![p] = Append(@, Head(queue[p]))]
      BY <1>3, <1>5, <2>1 DEF LogsType
    <3>2. /\ \A q \in TopicPartitions \ {p} : queue'[q] = v[q]
          /\ Len(queue'[p]) = Len(v[p]) + 1
          /\ \A i \in 1..Len(v[p]) : queue'[p][i] = v[p][i]
      BY <1>6, <3>1, AppendAt DEF LogsType
    <3> QED  BY <1>7, <3>2 DEF Added
  <2>3. FewDescents(Joined(topic', v), again)
    <3>1. CASE topic' = topic
      <4>1. Removed(Joined(topic, queue), Joined(topic, v), p, n + m, n + 1)
        BY <1>3, <1>6, <1>8, <1>9, QueueShrinks
      <4>2. PICK l \in Nat, c \in Nat : l = n + m /\ c = n + 1
        OBVIOUS
      <4> QED  BY <1>11, <1>12, <3>1, <4>1, <4>2, RemovedFew
    <3>2. CASE topic' = [topic EXCEPT ![p] = Append(@, Head(queue[p]))]
      <4>1. Begins(Joined(topic', v), Joined(topic, queue))
        BY <1>3, <1>6, <1>9, <1>10, <3>2, HandedOver
      <4> QED  BY <1>11, <1>12, <4>1, BeginsFew
    <3> QED  BY <2>1, <3>1, <3>2
  <2>4. PICK k \in Nat : Len(topic'[p]) = k
    <3>1. topic'[p] \in Seq(Nat)
      BY <1>3 DEF LogsType
    <3> QED  BY <3>1, LenProperties
  <2>5. Added(Joined(topic', v), Joined(topic', queue'), p, k + m)
    BY <1>3, <1>6, <2>2, <2>4, QueueGrows
  <2>6. FewDescents(Joined(topic', queue'), again + 1)
    <3>1. PICK l \in Nat : l = k + m
      OBVIOUS
    <3> QED  BY <2>3, <2>5, <3>1, AddedFew
  <2> QED  BY <2>1, <2>6 DEF DisorderInv
<1> QED  BY <1>1, <1>13, <1>14, <1>15

(* The newest event comes after everything sent before it.                 *)
LEMMA ProduceDisorder ==
    ASSUME TypeOK, TypeOK', TickInv, DisorderInv, ProduceEvent
    PROVE  DisorderInv'
<1>1. PICK n \in Nat : n = Len(generated)
  BY GeneratedDomain
<1>2. DOMAIN generated = 1..n /\ topic' = topic /\ retries' = retries
  BY <1>1, ProduceEntries
<1>3. PICK p \in TopicPartitions : \E m \in Nat : Entered(p, m, n)
  BY <1>1, ProduceEntries
<1>4. PICK m \in Nat : Entered(p, m, n)
  BY <1>3
<1>5. queue \in LogsType /\ topic \in LogsType
  BY LogsAreRanks
<1>6. queue' \in LogsType
  <2>1. PICK k \in Nat : DOMAIN generated' = 1..k
    BY LenProperties DEF TypeOK
  <2>2. DOMAIN generated' \subseteq Nat
    BY <2>1
  <2>3. \A s \in Seq(DOMAIN generated') : s \in Seq(Nat)
    BY <2>2, SeqMonotonic
  <2> QED  BY <2>3 DEF TypeOK, LogsType
<1>7. /\ Len(queue[p]) = m /\ Len(queue'[p]) = m + 1
      /\ \A i \in 1..m : queue'[p][i] = queue[p][i]
      /\ queue'[p][m + 1] = n + 1
      /\ \A q \in TopicPartitions : q # p => queue'[q] = queue[q]
  <2>1. DOMAIN queue[p] = 1..m /\ DOMAIN queue'[p] = 1..(m + 1)
    BY <1>4 DEF Entered
  <2>2. queue[p] \in Seq(Nat) /\ queue'[p] \in Seq(Nat)
    BY <1>5, <1>6 DEF LogsType
  <2>3. PICK a \in Nat, b \in Nat : a = Len(queue[p]) /\ b = Len(queue'[p])
    BY <2>2, LenProperties
  <2>4. 1..a = 1..m /\ 1..b = 1..(m + 1)
    BY <2>1, <2>2, <2>3, LenProperties
  <2>5. a = m /\ b = m + 1
    BY <2>4
  <2> QED  BY <1>4, <2>3, <2>5 DEF Entered
<1>8. PICK k \in Nat : Len(topic[p]) = k
  BY EntriesAreEvents
<1>9. Added(Joined(topic, queue), Joined(topic, queue'), p, k + m)
  <2>1. Added(queue, queue', p, m)
    BY <1>7 DEF Added
  <2> QED  BY <1>5, <1>6, <1>8, <2>1, QueueGrows
<1> DEFINE f == Joined(topic, queue)
           g == Joined(topic, queue')
<1>10. ASSUME k + m > 0 PROVE ~(g[p][k + m] >= g[p][(k + m) + 1])
  <2>1. g[p][k + (m + 1)] = n + 1
    <3>1. PICK j \in Nat : j = m + 1
      OBVIOUS
    <3>2. Concat(g[p], topic[p], queue'[p], k, j) /\ j \in 1..j
      BY <1>5, <1>6, <1>7, <1>8, <3>1, JoinedEntries
    <3> HIDE DEF g
    <3> QED  BY <1>7, <3>1, <3>2 DEF Concat
  <2>2. f[p][k + m] \in 1..n
    <3>1. Concat(f[p], topic[p], queue[p], k, m)
      BY <1>5, <1>7, <1>8, JoinedEntries
    <3> HIDE DEF f
    <3>2. CASE m = 0
      <4>1. k + m = k /\ k \in 1..k
        BY <1>10, <3>2
      <4>2. topic[p][k] \in 1..n
        <5>1. k \in DOMAIN topic[p]
          BY <1>8, <4>1, EntriesAreEvents
        <5> QED  BY <1>2, <5>1, EntriesAreEvents
      <4> QED  BY <3>1, <4>1, <4>2 DEF Concat
    <3>3. CASE m # 0
      <4>1. m \in 1..m
        BY <3>3
      <4>2. queue[p][m] \in 1..n
        <5>1. m \in DOMAIN queue[p]
          BY <1>7, <4>1, EntriesAreEvents
        <5> QED  BY <1>2, <5>1, EntriesAreEvents
      <4> QED  BY <3>1, <4>1, <4>2 DEF Concat
    <3> QED  BY <3>2, <3>3
  <2> HIDE DEF f, g
  <2>3. g[p][k + m] = f[p][k + m]
    <3>1. k + m \in 1..(k + m)
      BY <1>10
    <3> QED  BY <1>9, <3>1 DEF Added, f, g
  <2>4. k + (m + 1) = (k + m) + 1
    OBVIOUS
  <2>5. PICK x \in 1..n : x = g[p][k + m]
    BY <2>2, <2>3
  <2>6. ~(x >= n + 1)
    OBVIOUS
  <2> QED  BY <2>1, <2>4, <2>5, <2>6
<1>11. Descents(g) \subseteq Descents(f)
  <2> HIDE DEF f, g
  <2>1. PICK l \in Nat : l = k + m
    OBVIOUS
  <2>2. Added(f, g, p, l)
    BY <1>9, <2>1 DEF f, g
  <2> QED  BY <1>10, <2>1, <2>2, AddedDescents
<1>12. FewDescents(g, retries)
  <2> HIDE DEF f, g
  <2>1. IsFiniteSet(Descents(f)) /\ Cardinality(Descents(f)) <= retries
    BY DEF DisorderInv, FewDescents, f
  <2>2. IsFiniteSet(Descents(g)) /\ Cardinality(Descents(g)) <= Cardinality(Descents(f))
    BY <1>11, <2>1, FS_Subset
  <2>3. Cardinality(Descents(f)) \in Nat /\ Cardinality(Descents(g)) \in Nat /\ retries \in Nat
    BY <2>1, <2>2, FS_CardinalityType, ProducerAssumption DEF TypeOK
  <2> QED  BY <2>1, <2>2, <2>3 DEF FewDescents
<1> QED  BY <1>2, <1>12 DEF DisorderInv

LEMMA RestartDisorder ==
    ASSUME TypeOK, TickInv, DisorderInv, Restart
    PROVE  DisorderInv'
<1>1. TypeOK' /\ topic' = topic /\ retries' = retries
      /\ queue' = [p \in TopicPartitions |-> <<>>]
  BY RestartType
<1>2. queue \in LogsType /\ topic \in LogsType /\ queue' \in LogsType
  BY <1>1, LogsAreRanks, EmptySeq DEF LogsType
<1>3. Begins(Joined(topic, queue'), Joined(topic, queue))
  <2> SUFFICES ASSUME NEW p \in TopicPartitions
               PROVE  /\ Len(Joined(topic, queue')[p]) <= Len(Joined(topic, queue)[p])
                      /\ \A i \in 1..Len(Joined(topic, queue')[p]) :
                            Joined(topic, queue')[p][i] = Joined(topic, queue)[p][i]
    BY DEF Begins
  <2>1. PICK n \in Nat, m \in Nat : n = Len(topic[p]) /\ m = Len(queue[p])
    BY EntriesAreEvents
  <2>2. queue'[p] = <<>> /\ Len(queue'[p]) = 0
    BY <1>1, EmptySeq
  <2>3. Concat(Joined(topic, queue)[p], topic[p], queue[p], n, m)
    BY <1>2, <2>1, JoinedEntries
  <2>4. Concat(Joined(topic, queue')[p], topic[p], queue'[p], n, 0)
    BY <1>2, <2>1, <2>2, JoinedEntries
  <2>5. /\ Len(Joined(topic, queue)[p]) = n + m /\ n <= n + m
        /\ Len(Joined(topic, queue')[p]) = n
    BY <2>3, <2>4 DEF Concat
  <2>6. \A i \in 1..n : Joined(topic, queue)[p][i] = topic[p][i]
    BY <2>3 DEF Concat
  <2>7. \A i \in 1..n : Joined(topic, queue')[p][i] = topic[p][i]
    BY <2>4 DEF Concat
  <2> QED  BY <2>5, <2>6, <2>7
<1>4. retries \in Nat
  BY ProducerAssumption DEF TypeOK
<1>5. FewDescents(Joined(topic, queue'), retries)
  BY <1>2, <1>3, <1>4, BeginsFew, JoinedRanks DEF DisorderInv
<1> QED  BY <1>1, <1>5 DEF DisorderInv

LEMMA DisorderInit == Init => DisorderInv
<1> SUFFICES ASSUME Init PROVE DisorderInv
  OBVIOUS
<1>1. \A p \in TopicPartitions : queue[p] = <<>> /\ topic[p] = <<>>
  BY DEF Init, ProducerInit
<1>2. \A p \in TopicPartitions : Len(Joined(topic, queue)[p]) = 0
  <2>1. \A p \in TopicPartitions : Joined(topic, queue)[p] = <<>> \o <<>>
    BY <1>1 DEF Joined
  <2>2. <<>> \in Seq(Nat) /\ Len(<<>>) = 0
    BY EmptySeq
  <2>3. Len(<<>> \o <<>>) = 0
    BY <2>2, ConcatProperties
  <2> QED  BY <2>1, <2>3
<1>3. 1..(0 - 1) = {}
  OBVIOUS
<1>4. Descents(Joined(topic, queue)) = {}
  <2> SUFFICES ASSUME NEW x \in Descents(Joined(topic, queue)) PROVE FALSE
    OBVIOUS
  <2>1. PICK p \in TopicPartitions : \E i : x = <<p, i>>
    BY InDescents
  <2>2. PICK i : x = <<p, i>>
    BY <2>1
  <2>3. i \in 1..(Len(Joined(topic, queue)[p]) - 1)
    BY <2>2, InDescents
  <2> QED  BY <1>2, <1>3, <2>3
<1>5. retries = 0
  BY DEF Init, ProducerInit
<1> QED  BY <1>4, <1>5, FS_EmptySet DEF DisorderInv, FewDescents

LEMMA DisorderStep ==
    ASSUME TypeOK, TickInv, DisorderInv, [Next]_vars
    PROVE  DisorderInv'
<1>1. TypeOK'
  BY TypeStep
<1>2. CASE UNCHANGED producer_vars
  BY <1>2 DEF DisorderInv, producer_vars
<1>3. CASE EndTick \/ Flush \/ UNCHANGED vars
  BY <1>2, <1>3 DEF EndTick, Flush, vars
<1> QED
  BY <1>1, <1>3, ProduceDisorder, RestartDisorder, TransportDisorder DEF Next, Crash, Overflow

(* Each host's events are in its partition, in the order in which they were*)
(* generated; every request sent again disturbs the order of the topic in  *)
(* one place at most, whatever is given up or lost with a process          *)
(* (kafka_utils.py:19-42, main.py:73-80).                                  *)
THEOREM DisorderIsBounded == Spec => []DisorderBound
<1> DEFINE IInv == TypeOK /\ TickInv /\ Placed /\ DisorderInv
<1>1. Init => IInv
  BY TypeInit, LossInit, DisorderInit
<1>2. IInv /\ [Next]_vars => IInv'
  BY TypeStep, PlacedStep, DisorderStep
<1>3. IInv => DisorderBound
  <2> SUFFICES ASSUME IInv PROVE DisorderBound
    OBVIOUS
  <2>1. Cardinality(Descents(topic)) <= retries
    <3>1. queue \in LogsType /\ topic \in LogsType /\ retries \in Nat
      BY LogsAreRanks, ProducerAssumption DEF TypeOK
    <3>2. Begins(topic, Joined(topic, queue))
      <4> SUFFICES ASSUME NEW p \in TopicPartitions
                   PROVE  /\ Len(topic[p]) <= Len(Joined(topic, queue)[p])
                          /\ \A i \in 1..Len(topic[p]) :
                                topic[p][i] = Joined(topic, queue)[p][i]
        BY DEF Begins
      <4>1. PICK n \in Nat, m \in Nat : n = Len(topic[p]) /\ m = Len(queue[p])
        BY EntriesAreEvents
      <4>2. Concat(Joined(topic, queue)[p], topic[p], queue[p], n, m)
        BY <3>1, <4>1, JoinedEntries
      <4>3. Len(Joined(topic, queue)[p]) = n + m /\ n <= n + m
        BY <4>2 DEF Concat
      <4>4. \A i \in 1..n : Joined(topic, queue)[p][i] = topic[p][i]
        BY <4>2 DEF Concat
      <4> QED  BY <4>1, <4>3, <4>4
    <3>3. FewDescents(topic, retries)
      BY <3>1, <3>2, BeginsFew, JoinedRanks DEF DisorderInv
    <3> QED  BY <3>3 DEF FewDescents
  <2> QED  BY <2>1 DEF DisorderBound, Placed
<1> HIDE DEF IInv
<1> QED  BY <1>1, <1>2, <1>3, PTL DEF Spec
-----------------------------------------------------------------------------
(* The injectors                                                           *)

(* A tick takes the injector i to j with sample s: a perturbation goes on, *)
(* the cooldown runs, nothing happens, or a perturbation begins.           *)
GoesOn(i, s, j) ==
    /\ i.type # "none"
    /\ s = [type |-> i.type, duration |-> i.duration, tick |-> i.tick_index + 1]
    /\ i.tick_index + 1 < i.duration =>
          j = [type |-> i.type, duration |-> i.duration, tick_index |-> i.tick_index + 1,
               cooldown_remaining |-> i.cooldown_remaining]
    /\ i.tick_index + 1 >= i.duration =>
          j.type = "none" /\ j.cooldown_remaining = CooldownTicks

Cools(i, s, j) ==
    /\ i.type = "none" /\ i.cooldown_remaining > 0
    /\ s.type = "none" /\ s.tick = 0
    /\ j.type = "none" /\ j.cooldown_remaining = i.cooldown_remaining - 1

Rests(i, s, j) ==
    /\ i.type = "none" /\ i.cooldown_remaining = 0
    /\ s.type = "none" /\ s.tick = 0
    /\ j.type = "none"

Starts(i, s, j) ==
    /\ i.type = "none" /\ i.cooldown_remaining = 0
    /\ s.type # "none" /\ s.tick = 1 /\ s.duration \in Nat \ {0}
    /\ 1 < s.duration =>
          j = [type |-> s.type, duration |-> s.duration, tick_index |-> 1,
               cooldown_remaining |-> 0]
    /\ 1 >= s.duration => j.type = "none" /\ j.cooldown_remaining = CooldownTicks

Injects(i, s, j) == GoesOn(i, s, j) \/ Cools(i, s, j) \/ Rests(i, s, j) \/ Starts(i, s, j)

LEMMA ApplySteps ==
    ASSUME NEW active \in Injector, active.type # "none", NEW step, step = Apply(active)
    PROVE  GoesOn(active, step.sample, step.injector)
<1>1. step.sample = Sample(active, active.tick_index + 1)
  BY DEF Apply
<1>2. step.sample = [type |-> active.type, duration |-> active.duration,
                     tick |-> active.tick_index + 1]
  BY <1>1 DEF Sample
<1>3. CASE active.tick_index + 1 >= active.duration
  <2>1. step.injector = AfterFinish
    BY <1>3 DEF Apply
  <2>2. AfterFinish.type = "none" /\ AfterFinish.cooldown_remaining = CooldownTicks
    BY DEF AfterFinish, FreshInjector
  <2>3. ~(active.tick_index + 1 < active.duration)
    BY <1>3 DEF Injector
  <2> QED  BY <1>2, <2>1, <2>2, <2>3 DEF GoesOn
<1>4. CASE ~(active.tick_index + 1 >= active.duration)
  <2>1. step.injector = [active EXCEPT !.tick_index = active.tick_index + 1]
    BY <1>4 DEF Apply
  <2>2. step.injector = [type |-> active.type, duration |-> active.duration,
                         tick_index |-> active.tick_index + 1,
                         cooldown_remaining |-> active.cooldown_remaining]
    BY <2>1 DEF Injector
  <2> QED  BY <1>2, <1>4, <2>2 DEF GoesOn
<1> QED  BY <1>3, <1>4

LEMMA PerturbationsType ==
    ASSUME NEW active \in Perturbations
    PROVE  /\ active \in Injector /\ active.type # "none" /\ active.duration \in Nat \ {0}
           /\ active.tick_index = 0 /\ active.cooldown_remaining = 0
<1>1. \E d \in Nat \ {0} : \E type \in {"spike", "ramp"} :
         active = [FreshInjector EXCEPT !.type = type, !.duration = d]
  <2>1. CASE active = [FreshInjector EXCEPT !.type = "spike", !.duration = 2]
    <3>1. 2 \in Nat \ {0}
      OBVIOUS
    <3> QED  BY <2>1, <3>1
  <2>2. CASE \E d \in RampDurations :
                active = [FreshInjector EXCEPT !.type = "ramp", !.duration = d]
    BY <2>2, InjectorAssumption
  <2> QED  BY <2>1, <2>2 DEF Perturbations
<1>2. PICK d \in Nat \ {0} : \E type \in {"spike", "ramp"} :
         active = [FreshInjector EXCEPT !.type = type, !.duration = d]
  BY <1>1
<1>3. PICK type \in {"spike", "ramp"} :
         active = [FreshInjector EXCEPT !.type = type, !.duration = d]
  BY <1>2
<1>4. active = [type |-> type, duration |-> d, tick_index |-> 0, cooldown_remaining |-> 0]
  BY <1>3 DEF FreshInjector
<1>5. 0 \in 0..CooldownTicks /\ type \in Types /\ type # "none"
  BY InjectorAssumption DEF Types
<1> QED  BY <1>4, <1>5 DEF Injector

LEMMA InjectSteps ==
    ASSUME NEW i \in Injector, NEW step \in MaybeInject(i)
    PROVE  Injects(i, step.sample, step.injector)
<1>1. CASE i.type # "none"
  <2>1. step = Apply(i)
    BY <1>1 DEF MaybeInject
  <2> QED  BY <1>1, <2>1, ApplySteps DEF Injects
<1>2. CASE i.type = "none" /\ i.cooldown_remaining > 0
  <2>1. PICK cooler : cooler = [i EXCEPT !.cooldown_remaining = @ - 1]
    OBVIOUS
  <2>2. step = Pass(cooler)
    BY <1>2, <2>1 DEF MaybeInject
  <2>3. step.injector = cooler /\ step.sample.type = "none" /\ step.sample.tick = 0
    BY <2>2 DEF Pass, Sample, FreshInjector
  <2>4. cooler.type = "none" /\ cooler.cooldown_remaining = i.cooldown_remaining - 1
    BY <1>2, <2>1 DEF Injector
  <2> QED  BY <1>2, <2>3, <2>4 DEF Injects, Cools
<1>3. CASE i.type = "none" /\ ~(i.cooldown_remaining > 0)
  <2>1. i.cooldown_remaining = 0
    BY <1>3, InjectorAssumption DEF Injector
  <2>2. step = Pass(i) \/ \E active \in Perturbations : step = Apply(active)
    BY <1>3 DEF MaybeInject
  <2>3. CASE step = Pass(i)
    <3>1. step.injector = i /\ step.sample.type = "none" /\ step.sample.tick = 0
      BY <2>3 DEF Pass, Sample, FreshInjector
    <3> QED  BY <1>3, <2>1, <3>1 DEF Injects, Rests
  <2>4. CASE \E active \in Perturbations : step = Apply(active)
    <3>1. PICK active \in Perturbations : step = Apply(active)
      BY <2>4
    <3>2. /\ active \in Injector /\ active.type # "none" /\ active.duration \in Nat \ {0}
          /\ active.tick_index = 0 /\ active.cooldown_remaining = 0
      BY PerturbationsType
    <3>3. GoesOn(active, step.sample, step.injector)
      BY <3>1, <3>2, ApplySteps
    <3>4. PICK s, j : s = step.sample /\ j = step.injector
      OBVIOUS
    <3>5. 0 + 1 = 1
      OBVIOUS
    <3>6. /\ s = [type |-> active.type, duration |-> active.duration, tick |-> 1]
          /\ 1 < active.duration =>
                j = [type |-> active.type, duration |-> active.duration, tick_index |-> 1,
                     cooldown_remaining |-> 0]
          /\ 1 >= active.duration => j.type = "none" /\ j.cooldown_remaining = CooldownTicks
      BY <3>2, <3>3, <3>4, <3>5 DEF GoesOn
    <3>7. s.type = active.type /\ s.duration = active.duration /\ s.tick = 1
      BY <3>6
    <3>8. Starts(i, s, j)
      BY <1>3, <2>1, <3>2, <3>6, <3>7 DEF Starts
    <3> QED  BY <3>4, <3>8 DEF Injects
  <2> QED  BY <2>2, <2>3, <2>4
<1> QED  BY <1>1, <1>2, <1>3

(* An event of host h and of this life of the process.                     *)
IsOf(k, h) == k \in DOMAIN generated /\ generated[k].host = h /\ generated[k].life = life

(* When host h is sampled next.                                            *)
Due(h) == IF \E i \in 1..(next_host - 1) : HostProfiles[i] = h THEN clock + 1 ELSE clock

(* The injector i, some ticks after its perturbation began with sample     *)
(* `first': on its way, or in the cooldown.                                *)
Since(i, first, ticks) ==
    /\ ticks < first.duration =>
          i = [type |-> first.type, duration |-> first.duration,
               tick_index |-> ticks, cooldown_remaining |-> 0]
    /\ \A d \in 0..(CooldownTicks - 1) : ticks = first.duration + d =>
          i.type = "none" /\ i.cooldown_remaining = CooldownTicks - d

(* The events of host h that began a perturbation tell the state of its    *)
(* injector until the cooldown is over, and the event of the last tick how *)
(* far the perturbation has come.                                          *)
Told(h) ==
    /\ \A k : IsOf(k, h) => generated[k].ts < Due(h)
    /\ \A k : IsOf(k, h) /\ generated[k].sample.tick = 1 =>
          Since(injectors[h], generated[k].sample, Due(h) - generated[k].ts)
    /\ (injectors[h].type # "none" \/ \E k : IsOf(k, h)) =>
          \E j : /\ IsOf(j, h) /\ generated[j].ts + 1 = Due(h)
                 /\ injectors[h].type # "none" =>
                       /\ injectors[h].tick_index = generated[j].sample.tick
                       /\ injectors[h].tick_index > 0

InjectorInv ==
    /\ pc = "flush" => next_host = Len(HostProfiles) + 1
    /\ \A k \in DOMAIN generated :
          generated[k].sample.tick = 1 => generated[k].sample.type # "none"
    /\ \A h \in Hosts : Told(h)

(* A perturbation that is some ticks old, and what the next tick makes of  *)
(* it and of its injector.                                                 *)
LEMMA SinceStep ==
    ASSUME NEW i, NEW s, NEW j, Injects(i, s, j), NEW first \in Samples, first.type # "none",
           NEW ticks \in Nat, ticks > 0, Since(i, first, ticks)
    PROVE  /\ Since(j, first, ticks + 1)
           /\ ticks < first.duration => s = [first EXCEPT !.tick = ticks + 1]
           /\ ticks \in first.duration..(first.duration + CooldownTicks - 1) => s.type = "none"
<1>1. PICK cool \in Nat, dur \in Nat : cool = CooldownTicks /\ dur = first.duration
  BY InjectorAssumption DEF Samples
<1>2. CASE ticks < dur
  <2>1. PICK type : type = first.type /\ type # "none"
    OBVIOUS
  <2>2. i = [type |-> type, duration |-> dur, tick_index |-> ticks, cooldown_remaining |-> 0]
    BY <1>1, <1>2, <2>1 DEF Since
  <2>3. GoesOn(i, s, j)
    <3>1. i.type = type
      BY <2>2
    <3> QED  BY <2>1, <3>1 DEF Injects, Cools, Rests, Starts
  <2>4. /\ s = [type |-> type, duration |-> dur, tick |-> ticks + 1]
        /\ ticks + 1 < dur =>
              j = [type |-> type, duration |-> dur, tick_index |-> ticks + 1,
                   cooldown_remaining |-> 0]
        /\ ticks + 1 >= dur => j.type = "none" /\ j.cooldown_remaining = cool
    BY <1>1, <2>2, <2>3 DEF GoesOn
  <2>5. s = [first EXCEPT !.tick = ticks + 1]
    BY <1>1, <2>1, <2>4 DEF Samples
  <2>6. ASSUME NEW d \in 0..(cool - 1), ticks + 1 = dur + d
        PROVE  j.type = "none" /\ j.cooldown_remaining = cool - d
    <3>1. d = 0 /\ ticks + 1 >= dur /\ cool - d = cool
      BY <1>2, <2>6
    <3> QED  BY <2>4, <3>1
  <2>7. Since(j, first, ticks + 1)
    BY <1>1, <2>1, <2>4, <2>6 DEF Since
  <2>8. ~(ticks \in dur..(dur + cool - 1))
    BY <1>2
  <2> QED  BY <1>1, <2>5, <2>7, <2>8
<1>3. CASE ~(ticks < dur)
  <2>1. PICK d \in Nat : ticks = dur + d
    <3>1. ticks - dur \in Nat /\ ticks = dur + (ticks - dur)
      BY <1>3
    <3> QED  BY <3>1
  <2>2. ~(ticks + 1 < dur)
    BY <1>3
  <2>3. CASE d < cool
    <3>1. d \in 0..(cool - 1)
      BY <2>3
    <3>2. i.type = "none" /\ i.cooldown_remaining = cool - d
      BY <1>1, <2>1, <3>1 DEF Since
    <3>3. i.cooldown_remaining > 0 /\ i.cooldown_remaining # 0
      BY <2>3, <3>2
    <3>4. Cools(i, s, j)
      BY <3>2, <3>3 DEF Injects, GoesOn, Rests, Starts
    <3>5. s.type = "none" /\ j.type = "none" /\ j.cooldown_remaining = (cool - d) - 1
      BY <3>2, <3>4 DEF Cools
    <3>6. ASSUME NEW e \in 0..(cool - 1), ticks + 1 = dur + e
          PROVE  j.type = "none" /\ j.cooldown_remaining = cool - e
      <4>1. e = d + 1 /\ cool - e = (cool - d) - 1
        BY <2>1, <3>6
      <4> QED  BY <3>5, <4>1
    <3>7. Since(j, first, ticks + 1)
      BY <1>1, <2>2, <3>6 DEF Since
    <3> QED  BY <1>1, <1>3, <3>5, <3>7
  <2>4. CASE ~(d < cool)
    <3>1. ~(ticks \in dur..(dur + cool - 1))
      BY <2>1, <2>4
    <3>2. \A e \in 0..(cool - 1) : ticks + 1 # dur + e
      BY <2>1, <2>4
    <3>3. Since(j, first, ticks + 1)
      BY <1>1, <2>2, <3>2 DEF Since
    <3> QED  BY <1>1, <1>3, <3>1, <3>3
  <2> QED  BY <2>3, <2>4
<1> QED  BY <1>2, <1>3

(* The injector after a sample that begins a perturbation.                 *)
LEMMA SinceStart ==
    ASSUME NEW i, NEW s \in Samples, NEW j, Injects(i, s, j), s.tick = 1,
           i.type # "none" => i.tick_index \in Nat /\ i.tick_index > 0
    PROVE  Since(j, s, 1)
<1>1. Starts(i, s, j)
  <2>1. ~GoesOn(i, s, j)
    <3> SUFFICES ASSUME GoesOn(i, s, j) PROVE FALSE
      OBVIOUS
    <3>1. s.tick = i.tick_index + 1 /\ i.type # "none"
      BY DEF GoesOn
    <3> QED  BY <3>1
  <2> QED  BY <2>1 DEF Injects, Cools, Rests
<1>2. PICK cool \in Nat, dur \in Nat \ {0} : cool = CooldownTicks /\ dur = s.duration
  BY <1>1, InjectorAssumption DEF Starts
<1>3. ASSUME NEW d \in 0..(cool - 1), 1 = dur + d
      PROVE  j.type = "none" /\ j.cooldown_remaining = cool - d
  <2>1. d = 0 /\ 1 >= dur /\ cool - d = cool
    BY <1>3
  <2> QED  BY <1>1, <1>2, <2>1 DEF Starts
<1> QED  BY <1>1, <1>2, <1>3 DEF Starts, Since

(* What one more event does to its host's injector.                        *)
LEMMA ProduceInjects ==
    ASSUME TypeOK, TickInv, ProduceEvent, NEW n \in Nat, n = Len(generated)
    PROVE  \E host \in Hosts : \E s \in Samples :
              /\ host = HostProfiles[next_host]
              /\ generated'[n + 1] = [host |-> host, ts |-> clock, sample |-> s, life |-> life]
              /\ Injects(injectors[host], s, injectors'[host])
              /\ \A h \in Hosts : h # host => injectors'[h] = injectors[h]
<1>1. HostProfiles[next_host] \in Hosts
  BY ProduceEffect
<1>2. PICK host \in Hosts : host = HostProfiles[next_host]
  BY <1>1
<1>3. PICK step \in MaybeInject(injectors[host]) :
         /\ injectors' = [injectors EXCEPT ![host] = step.injector]
         /\ generated' = Append(generated,
               [host |-> host, ts |-> clock, sample |-> step.sample, life |-> life])
  BY <1>2 DEF ProduceEvent
<1>4. /\ injectors \in [Hosts -> Injector]
      /\ injectors[host].type # "none" => injectors[host].tick_index < injectors[host].duration
  BY DEF TypeOK
<1>5. injectors[host] \in Injector
  BY <1>4
<1>6. step.sample \in Samples /\ Injects(injectors[host], step.sample, step.injector)
  BY <1>4, <1>5, InjectorType, InjectSteps
<1>7. injectors'[host] = step.injector /\ \A h \in Hosts : h # host => injectors'[h] = injectors[h]
  BY <1>3, <1>4
<1> DEFINE event == [host |-> host, ts |-> clock, sample |-> step.sample, life |-> life]
<1>8. event \in Event
  BY <1>6 DEF TypeOK, Event
<1>9. generated' = Append(generated, event)
  BY <1>3
<1>10. generated'[n + 1] = event
  <2> HIDE DEF event
  <2>1. generated \in Seq(Event)
    BY DEF TypeOK
  <2> QED  BY <1>8, <1>9, <2>1, AppendProperties
<1>11. PICK s \in Samples : s = step.sample
  BY <1>6
<1>12. generated'[n + 1] = [host |-> host, ts |-> clock, sample |-> s, life |-> life]
  BY <1>10, <1>11
<1> QED  BY <1>2, <1>6, <1>7, <1>11, <1>12

(* The hosts of the profiles differ, so a tick samples each of them once.  *)
LEMMA DueStep ==
    ASSUME TypeOK, NEW now \in Nat, now = clock, NEW first \in 1..Len(HostProfiles),
           first = next_host, clock' = now, next_host' = first + 1
    PROVE  /\ Due(HostProfiles[first]) = now /\ Due(HostProfiles[first])' = now + 1
           /\ \A h \in Hosts : h # HostProfiles[first] => Due(h)' = Due(h)
<1>1. PICK N \in Nat : N = Len(HostProfiles) /\ DOMAIN HostProfiles = 1..N
  BY ProfilesType
<1>2. first \in 1..N
  BY <1>1
<1>3. \A i \in 1..(first - 1) : HostProfiles[i] # HostProfiles[first]
  <2> SUFFICES ASSUME NEW i \in 1..(first - 1) PROVE HostProfiles[i] # HostProfiles[first]
    OBVIOUS
  <2>1. i \in 1..N /\ i # first
    BY <1>2
  <2> QED  BY <1>1, <1>2, <2>1, GeneratorAssumption DEF IsInjective
<1>4. Due(HostProfiles[first]) = now
  BY <1>3 DEF Due
<1>5. next_host' - 1 = first
  BY <1>2
<1>6. first \in 1..first /\ \A i \in 1..first : i = first \/ i \in 1..(first - 1)
  BY <1>2
<1>7. Due(HostProfiles[first])' = now + 1
  BY <1>5, <1>6 DEF Due
<1>8. ASSUME NEW h \in Hosts, h # HostProfiles[first]
      PROVE  Due(h)' = Due(h)
  <2>1. (\E i \in 1..first : HostProfiles[i] = h) <=> (\E i \in 1..(first - 1) : HostProfiles[i] = h)
    <3>1. \A i \in 1..(first - 1) : i \in 1..first
      OBVIOUS
    <3> QED  BY <1>6, <1>8, <3>1
  <2> QED  BY <1>5, <2>1 DEF Due
<1> QED  BY <1>4, <1>7, <1>8

LEMMA ProduceInjectorInv ==
    ASSUME TypeOK, TickInv, InjectorInv, PerturbationsAreSpaced, ProduceEvent
    PROVE  InjectorInv' /\ PerturbationsAreSpaced'
<1>1. PICK n \in Nat : n = Len(generated)
  BY GeneratedDomain
<1>2. PICK now \in Nat : now = clock
  BY GeneratorAssumption DEF TypeOK
<1>3. PICK first \in 1..Len(HostProfiles) : first = next_host
  BY ProduceEffect
<1>4. /\ DOMAIN generated = 1..n /\ DOMAIN generated' = 1..(n + 1)
      /\ \A k \in 1..n : generated'[k] = generated[k]
  BY <1>1, ProduceEntries
<1>5. pc = "tick" /\ pc' = "tick" /\ clock' = now /\ next_host' = first + 1 /\ life' = life
  BY <1>2, <1>3 DEF ProduceEvent
<1>6. PICK host \in Hosts : \E s \in Samples :
         /\ host = HostProfiles[first]
         /\ generated'[n + 1] = [host |-> host, ts |-> now, sample |-> s, life |-> life]
         /\ Injects(injectors[host], s, injectors'[host])
         /\ \A h \in Hosts : h # host => injectors'[h] = injectors[h]
  BY <1>1, <1>2, <1>3, ProduceInjects
<1>7. PICK s \in Samples :
         /\ host = HostProfiles[first]
         /\ generated'[n + 1] = [host |-> host, ts |-> now, sample |-> s, life |-> life]
         /\ Injects(injectors[host], s, injectors'[host])
         /\ \A h \in Hosts : h # host => injectors'[h] = injectors[h]
  BY <1>6
<1>8. /\ generated'[n + 1].host = host /\ generated'[n + 1].ts = now
      /\ generated'[n + 1].sample = s /\ generated'[n + 1].life = life
  BY <1>7
<1>9. /\ Due(host) = now /\ Due(host)' = now + 1
      /\ \A h \in Hosts : h # host => Due(h)' = Due(h)
  BY <1>2, <1>3, <1>5, <1>7, DueStep
<1>10. \A k : k \in 1..(n + 1) <=> k \in 1..n \/ k = n + 1
  OBVIOUS
<1>11. n + 1 \notin 1..n /\ n + 1 \in 1..(n + 1)
  OBVIOUS
<1>12. PICK i, j : i = injectors[host] /\ j = injectors'[host] /\ i \in Injector
  BY DEF TypeOK
<1>13. /\ i.type # "none" \/ (\E k : IsOf(k, host)) =>
             \E m : /\ IsOf(m, host) /\ generated[m].ts + 1 = now
                    /\ i.type # "none" => /\ i.tick_index = generated[m].sample.tick
                                          /\ i.tick_index > 0
       /\ \A k : IsOf(k, host) => generated[k].ts < now
       /\ \A k : IsOf(k, host) /\ generated[k].sample.tick = 1 =>
             Since(i, generated[k].sample, now - generated[k].ts)
  <2>1. Told(host)
    BY DEF InjectorInv
  <2> QED  BY <1>9, <1>12, <2>1 DEF Told
<1>14. Injects(i, s, j)
  BY <1>7, <1>12
<1>15. s.tick = 1 => s.type # "none"
  <2>1. CASE GoesOn(i, s, j)
    <3>1. s.type = i.type /\ i.type # "none"
      BY <2>1 DEF GoesOn
    <3> QED  BY <3>1
  <2> QED  BY <1>14, <2>1 DEF Injects, Cools, Rests, Starts
<1>16. ASSUME NEW k, IsOf(k, host), generated[k].sample.tick = 1
       PROVE  /\ Since(j, generated[k].sample, (now + 1) - generated[k].ts)
              /\ now - generated[k].ts < generated[k].sample.duration =>
                    s = [generated[k].sample EXCEPT !.tick = (now - generated[k].ts) + 1]
              /\ now - generated[k].ts \in generated[k].sample.duration
                                            ..(generated[k].sample.duration + CooldownTicks - 1) =>
                    s.type = "none"
  <2>1. generated[k].sample \in Samples /\ generated[k].ts \in Nat
    <3>1. generated \in Seq(Event) /\ k \in 1..Len(generated)
      BY <1>16, GeneratedDomain DEF TypeOK, IsOf
    <3>2. generated[k] \in Event
      BY <3>1, ElementOfSeq
    <3> QED  BY <3>2, GeneratorAssumption DEF Event
  <2>2. PICK begun \in Samples, t \in Nat : begun = generated[k].sample /\ t = generated[k].ts
    BY <2>1
  <2>3. begun.type # "none" /\ t < now /\ Since(i, begun, now - t)
    BY <1>13, <1>16, <2>2 DEF InjectorInv, IsOf
  <2>4. PICK ticks \in Nat : ticks = now - t /\ ticks > 0 /\ (now + 1) - t = ticks + 1
    BY <2>3
  <2>5. /\ Since(j, begun, ticks + 1)
        /\ ticks < begun.duration => s = [begun EXCEPT !.tick = ticks + 1]
        /\ ticks \in begun.duration..(begun.duration + CooldownTicks - 1) => s.type = "none"
    BY <1>14, <2>3, <2>4, SinceStep
  <2> QED  BY <2>2, <2>4, <2>5
<1>17. \A h \in Hosts : \A k : h # host => (IsOf(k, h)' <=> IsOf(k, h))
  BY <1>4, <1>5, <1>8, <1>10 DEF IsOf
<1>18. \A k : IsOf(k, host)' <=> IsOf(k, host) \/ k = n + 1
  BY <1>4, <1>5, <1>8, <1>10 DEF IsOf
<1>19. \A k : IsOf(k, host) => k \in 1..n
  BY <1>4 DEF IsOf
<1>20. ASSUME NEW h \in Hosts, h # host
       PROVE  Told(h)'
  <2>1. \A k : IsOf(k, h) => generated'[k] = generated[k]
    BY <1>4 DEF IsOf
  <2>2. injectors'[h] = injectors[h] /\ Due(h)' = Due(h)
    BY <1>7, <1>9, <1>20
  <2>3. Told(h)
    BY DEF InjectorInv
  <2>4. \A k : IsOf(k, h)' <=> IsOf(k, h)
    BY <1>17, <1>20
  <2> QED  BY <2>1, <2>2, <2>3, <2>4 DEF Told
<1>21. i.type # "none" => i.tick_index \in Nat /\ i.tick_index > 0
  BY <1>12, <1>13 DEF Injector
<1>22. Told(host)'
  <2>1. ASSUME NEW k, IsOf(k, host)'
        PROVE  generated'[k].ts < now + 1
    <3>1. CASE k = n + 1
      BY <1>8, <3>1
    <3>2. CASE IsOf(k, host)
      <4>1. generated'[k].ts = generated[k].ts /\ generated[k].ts < now
        BY <1>4, <1>13, <1>19, <3>2
      <4>2. generated[k].ts \in Nat
        BY <1>4, <1>19, <3>2, EventType
      <4> QED  BY <4>1, <4>2
    <3> QED  BY <1>18, <2>1, <3>1, <3>2
  <2>2. ASSUME NEW k, IsOf(k, host)', generated'[k].sample.tick = 1
        PROVE  Since(j, generated'[k].sample, (now + 1) - generated'[k].ts)
    <3>1. CASE k = n + 1
      <4>1. (now + 1) - now = 1
        OBVIOUS
      <4>2. Since(j, s, 1)
        BY <1>8, <1>14, <1>21, <2>2, <3>1, SinceStart
      <4> QED  BY <1>8, <3>1, <4>1, <4>2
    <3>2. CASE IsOf(k, host)
      <4>1. generated'[k] = generated[k]
        BY <1>4, <1>19, <3>2
      <4> QED  BY <1>16, <2>2, <3>2, <4>1
    <3> QED  BY <1>18, <2>2, <3>1, <3>2
  <2>3. /\ IsOf(n + 1, host)' /\ generated'[n + 1].ts + 1 = now + 1
        /\ j.type # "none" => j.tick_index = s.tick /\ j.tick_index > 0
    <3>1. CASE GoesOn(i, s, j)
      <4>1. s.tick = i.tick_index + 1 /\ i.duration \in Nat /\ i.tick_index \in Nat
        BY <1>12, <3>1 DEF GoesOn, Injector
      <4>2. CASE i.tick_index + 1 < i.duration
        <5>1. j.tick_index = i.tick_index + 1
          BY <3>1, <4>2 DEF GoesOn
        <5> QED  BY <1>8, <1>18, <4>1, <5>1
      <4>3. CASE i.tick_index + 1 >= i.duration
        BY <1>8, <1>18, <3>1, <4>3 DEF GoesOn
      <4> QED  BY <4>1, <4>2, <4>3
    <3>2. CASE Starts(i, s, j)
      <4>1. s.tick = 1 /\ s.duration \in Nat
        BY <3>2 DEF Starts
      <4>2. CASE 1 < s.duration
        <5>1. j.tick_index = 1
          BY <3>2, <4>2 DEF Starts
        <5> QED  BY <1>8, <1>18, <4>1, <5>1
      <4>3. CASE 1 >= s.duration
        BY <1>8, <1>18, <3>2, <4>3 DEF Starts
      <4> QED  BY <4>1, <4>2, <4>3
    <3>3. CASE Cools(i, s, j) \/ Rests(i, s, j)
      BY <1>8, <1>18, <3>3 DEF Cools, Rests
    <3> QED  BY <1>14, <3>1, <3>2, <3>3 DEF Injects
  <2> QED  BY <1>8, <1>9, <1>12, <2>1, <2>2, <2>3 DEF Told
<1>23. InjectorInv'
  <2>1. ASSUME NEW k \in DOMAIN generated', generated'[k].sample.tick = 1
        PROVE  generated'[k].sample.type # "none"
    <3>1. CASE k = n + 1
      BY <1>8, <1>15, <2>1, <3>1
    <3>2. CASE k \in 1..n
      BY <1>4, <2>1, <3>2 DEF InjectorInv
    <3> QED  BY <1>4, <1>10, <3>1, <3>2
  <2> QED  BY <1>5, <1>20, <1>22, <2>1 DEF InjectorInv
<1>24. ASSUME NEW m \in 1..n
       PROVE  /\ \A k \in 1..(m - 1) : OfOneInjector(k, m)' <=> OfOneInjector(k, m)
              /\ \A k \in 1..(m - 1) : Follows(m, k)' <=> Follows(m, k)
              /\ \A k \in 1..(m - 1) : IsNextAfter(m, k)' <=> IsNextAfter(m, k)
              /\ \A k \in 1..(m - 1) : generated'[k] = generated[k]
              /\ generated'[m] = generated[m]
  <2>1. \A k \in 1..(m - 1) : k \in 1..n
    OBVIOUS
  <2> QED  BY <1>4, <2>1 DEF OfOneInjector, Follows, IsNextAfter
<1>25. ASSUME NEW m \in 1..n
       PROVE  /\ \A k \in 1..(m - 1) : OfOneInjector(k, m)' /\ generated'[k].sample.tick = 1 =>
                    Follows(m, k)'
              /\ (\E k \in 1..(m - 1) : OfOneInjector(k, m)') \/ generated'[m].sample.tick > 1 =>
                    \E k \in 1..(m - 1) : OfOneInjector(k, m)' /\ IsNextAfter(m, k)'
  <2>1. /\ \A k \in 1..(m - 1) : OfOneInjector(k, m) /\ generated[k].sample.tick = 1 =>
              Follows(m, k)
        /\ (\E k \in 1..(m - 1) : OfOneInjector(k, m)) \/ generated[m].sample.tick > 1 =>
              \E k \in 1..(m - 1) : OfOneInjector(k, m) /\ IsNextAfter(m, k)
    BY <1>4 DEF PerturbationsAreSpaced
  <2> QED  BY <1>24, <2>1
<1>26. \A k \in 1..n : OfOneInjector(k, n + 1)' <=> IsOf(k, host)
  BY <1>4, <1>8 DEF OfOneInjector, IsOf
<1>27. /\ \A k \in 1..n : OfOneInjector(k, n + 1)' /\ generated'[k].sample.tick = 1 =>
             Follows(n + 1, k)'
       /\ (\E k \in 1..n : OfOneInjector(k, n + 1)') \/ generated'[n + 1].sample.tick > 1 =>
             \E k \in 1..n : OfOneInjector(k, n + 1)' /\ IsNextAfter(n + 1, k)'
  <2>1. ASSUME NEW k \in 1..n, OfOneInjector(k, n + 1)', generated'[k].sample.tick = 1
        PROVE  Follows(n + 1, k)'
    <3>1. IsOf(k, host) /\ generated'[k] = generated[k]
      BY <1>4, <1>26, <2>1
    <3> QED  BY <1>8, <1>16, <2>1, <3>1 DEF Follows
  <2>2. ASSUME (\E k \in 1..n : OfOneInjector(k, n + 1)') \/ s.tick > 1
        PROVE  \E k \in 1..n : OfOneInjector(k, n + 1)' /\ IsNextAfter(n + 1, k)'
    <3>1. s.tick > 1 => GoesOn(i, s, j)
      BY <1>14 DEF Injects, Cools, Rests, Starts
    <3>2. i.type # "none" \/ \E k : IsOf(k, host)
      BY <1>26, <2>2, <3>1 DEF GoesOn
    <3>3. PICK m : /\ IsOf(m, host) /\ generated[m].ts + 1 = now
                   /\ i.type # "none" => i.tick_index = generated[m].sample.tick
      BY <1>13, <3>2
    <3>4. m \in 1..n /\ generated'[m] = generated[m] /\ OfOneInjector(m, n + 1)'
      BY <1>4, <1>19, <1>26, <3>3
    <3>5. s.tick > 1 => s.tick = generated[m].sample.tick + 1
      <4>1. CASE GoesOn(i, s, j)
        <5>1. i.type # "none" /\ s.tick = i.tick_index + 1
          BY <4>1 DEF GoesOn
        <5> QED  BY <3>3, <5>1
      <4> QED  BY <3>1, <4>1
    <3>6. IsNextAfter(n + 1, m)'
      BY <1>8, <3>3, <3>4, <3>5 DEF IsNextAfter
    <3> QED  BY <3>4, <3>6
  <2> QED  BY <1>8, <2>1, <2>2
<1>28. PerturbationsAreSpaced'
  <2>1. (n + 1) - 1 = n
    OBVIOUS
  <2>2. ASSUME NEW m \in DOMAIN generated'
        PROVE  /\ \A k \in 1..(m - 1) : OfOneInjector(k, m)' /\ generated'[k].sample.tick = 1 =>
                     Follows(m, k)'
               /\ (\E k \in 1..(m - 1) : OfOneInjector(k, m)') \/ generated'[m].sample.tick > 1 =>
                     \E k \in 1..(m - 1) : OfOneInjector(k, m)' /\ IsNextAfter(m, k)'
    <3>1. CASE m \in 1..n
      BY <1>25, <3>1
    <3>2. CASE m = n + 1
      BY <1>27, <2>1, <3>2
    <3> QED  BY <1>4, <1>10, <3>1, <3>2
  <2> QED  BY <2>2 DEF PerturbationsAreSpaced
<1> QED  BY <1>23, <1>28

(* Where no host's turn moves and no event is added, all stays told.       *)
LEMMA StillTold ==
    ASSUME InjectorInv, UNCHANGED <<injectors, generated, life>>,
           \A h \in Hosts : Due(h)' = Due(h),
           pc' = "flush" => next_host' = Len(HostProfiles) + 1
    PROVE  InjectorInv'
<1>1. \A h \in Hosts : Told(h)'
  <2> SUFFICES ASSUME NEW h \in Hosts PROVE Told(h)'
    OBVIOUS
  <2>1. Told(h) /\ Due(h)' = Due(h)
    BY DEF InjectorInv
  <2>2. \A k : IsOf(k, h)' <=> IsOf(k, h)
    BY DEF IsOf
  <2> QED  BY <2>1, <2>2 DEF Told
<1> QED  BY <1>1 DEF InjectorInv

(* Between two ticks every host is due at the next one.                    *)
LEMMA SleepKeepsDue ==
    ASSUME TypeOK, next_host = Len(HostProfiles) + 1, Sleep, NEW h \in Hosts
    PROVE  Due(h)' = Due(h)
<1>1. PICK now \in Nat, N \in Nat : now = clock /\ N = Len(HostProfiles)
  <2>1. clock \in Nat
    BY GeneratorAssumption DEF TypeOK
  <2> QED  BY <2>1, ProfilesType
<1>2. clock' = now + 1 /\ next_host' = 1
  BY <1>1 DEF Sleep
<1>3. \E i \in 1..N : HostProfiles[i] = h
  BY <1>1, ProfilesType DEF Hosts, Range
<1>4. (N + 1) - 1 = N /\ 1 - 1 = 0 /\ \A i \in 1..0 : FALSE
  BY <1>1
<1>5. Due(h) = now + 1
  BY <1>1, <1>3, <1>4 DEF Due
<1>6. Due(h)' = now + 1
  BY <1>2, <1>4 DEF Due
<1> QED  BY <1>5, <1>6

(* A new process has made no event, and its injectors are idle.            *)
LEMMA RestartTells ==
    ASSUME TypeOK, InjectorInv, LivesInv, Restart
    PROVE  InjectorInv'
<1>1. PICK before \in 1..MaxLives : before = life
  BY DEF TypeOK
<1>2. life' = before + 1 /\ generated' = generated /\ pc' = "tick" /\ injectors' = FreshInjectors
  BY <1>1 DEF Restart
<1>3. \A k \in DOMAIN generated : generated[k].life \in 1..MaxLives /\ generated[k].life <= before
  BY <1>1, EventType DEF LivesInv
<1>4. \A k \in DOMAIN generated : generated[k].life # before + 1
  BY <1>3
<1>5. \A h \in Hosts : \A k : ~IsOf(k, h)'
  BY <1>2, <1>4 DEF IsOf
<1>6. \A h \in Hosts : injectors'[h].type = "none"
  BY <1>2 DEF FreshInjectors, FreshInjector
<1>7. \A h \in Hosts : Told(h)'
  BY <1>5, <1>6 DEF Told
<1> QED  BY <1>2, <1>7 DEF InjectorInv

LEMMA InjectorInit == Init => InjectorInv /\ PerturbationsAreSpaced
<1> SUFFICES ASSUME Init PROVE InjectorInv /\ PerturbationsAreSpaced
  OBVIOUS
<1>1. generated = <<>> /\ pc = "tick" /\ injectors = FreshInjectors
  BY DEF Init
<1>2. DOMAIN generated = {}
  BY <1>1
<1>3. \A h \in Hosts : \A k : ~IsOf(k, h)
  BY <1>2 DEF IsOf
<1>4. \A h \in Hosts : injectors[h].type = "none"
  BY <1>1 DEF FreshInjectors, FreshInjector
<1>5. \A h \in Hosts : Told(h)
  BY <1>3, <1>4 DEF Told
<1>6. PerturbationsAreSpaced
  BY <1>2 DEF PerturbationsAreSpaced
<1> QED  BY <1>1, <1>2, <1>5, <1>6 DEF InjectorInv

LEMMA InjectorStep ==
    ASSUME TypeOK, TickInv, LivesInv, InjectorInv, PerturbationsAreSpaced, [Next]_vars
    PROVE  InjectorInv' /\ PerturbationsAreSpaced'
<1>1. CASE ProduceEvent
  BY <1>1, ProduceInjectorInv
<1>2. generated' = generated => PerturbationsAreSpaced'
  BY DEF PerturbationsAreSpaced, OfOneInjector, Follows, IsNextAfter
<1>3. PICK N \in Nat : N = Len(HostProfiles) /\ next_host \in 1..(N + 1)
  BY ProfilesType DEF TypeOK
<1>4. UNCHANGED <<clock, next_host>> => \A h \in Hosts : Due(h)' = Due(h)
  BY DEF Due
<1>5. CASE EndTick
  <2>1. generated' = generated /\ UNCHANGED <<injectors, generated, life>>
    BY <1>5 DEF EndTick
  <2>2. next_host = N + 1
    BY <1>3, <1>5 DEF EndTick
  <2>3. CASE pc' = "flush" /\ UNCHANGED <<clock, next_host>>
    BY <1>2, <1>3, <1>4, <2>1, <2>2, <2>3, StillTold
  <2>4. CASE Sleep
    <3>1. \A h \in Hosts : Due(h)' = Due(h)
      BY <1>3, <2>2, <2>4, SleepKeepsDue
    <3>2. pc' # "flush"
      BY <2>4 DEF Sleep
    <3> QED  BY <1>2, <2>1, <3>1, <3>2, StillTold
  <2> QED  BY <1>5, <2>3, <2>4 DEF EndTick
<1>6. CASE Flush
  <2>1. generated' = generated /\ UNCHANGED <<injectors, generated, life>> /\ Sleep /\ pc' # "flush"
    BY <1>6 DEF Flush, Sleep
  <2>2. next_host = Len(HostProfiles) + 1
    BY <1>6 DEF Flush, InjectorInv
  <2>3. \A h \in Hosts : Due(h)' = Due(h)
    BY <2>1, <2>2, SleepKeepsDue
  <2> QED  BY <1>2, <2>1, <2>3, StillTold
<1>7. CASE Crash \/ Overflow
  <2>1. Restart
    BY <1>7 DEF Crash, Overflow
  <2>2. generated' = generated
    BY <2>1 DEF Restart
  <2> QED  BY <1>2, <2>1, <2>2, RestartTells
<1>8. CASE UNCHANGED <<pc, local_vars, clock, generated, life>>
  <2>1. UNCHANGED <<pc, next_host, clock, injectors, generated, life>> /\ generated' = generated
    BY <1>8 DEF local_vars
  <2>2. pc' = "flush" => next_host' = Len(HostProfiles) + 1
    BY <2>1 DEF InjectorInv
  <2> QED  BY <1>2, <1>4, <2>1, <2>2, StillTold
<1>9. CASE Transport \/ UNCHANGED vars
  BY <1>8, <1>9 DEF Transport, vars
<1> QED  BY <1>1, <1>5, <1>6, <1>7, <1>9 DEF Next

(* Whatever is rolled and however often the process is restarted, a host   *)
(* is sampled every tick of a life, its perturbations run through all      *)
(* their ticks, and a cooldown separates each from the next                *)
(* (anomaly_injector.py:14-18).                                            *)
THEOREM PerturbationsStayApart == Spec => []PerturbationsAreSpaced
<1> DEFINE IInv == TypeOK /\ TickInv /\ LivesInv /\ InjectorInv /\ PerturbationsAreSpaced
<1>1. Init => IInv
  BY TypeInit, LossInit, InjectorInit DEF LossInv
<1>2. IInv /\ [Next]_vars => IInv'
  BY TypeStep, LivesStep, InjectorStep
<1>3. IInv => PerturbationsAreSpaced
  OBVIOUS
<1> HIDE DEF IInv
<1> QED  BY <1>1, <1>2, <1>3, PTL DEF Spec
=============================================================================
