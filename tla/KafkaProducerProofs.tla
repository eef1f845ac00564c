------------------------- MODULE KafkaProducerProofs -------------------------
(***************************************************************************)
(* Lemmas about the producer and the topic behind it: what each operation  *)
(* does to one partition's queue or log, and to the number of messages the *)
(* client holds.  The proofs of the alert pipeline and of the generator    *)
(* rest on them.                                                           *)
(***************************************************************************)
EXTENDS KafkaProducer, SequenceTheorems, FiniteSetTheorems, TLAPS

(* Appending to one of the sequences of a function of sequences.           *)
LEMMA AppendAt ==
    ASSUME NEW P, NEW S, NEW f \in [P -> Seq(S)], NEW p \in P, NEW x \in S,
           NEW g, g = [f EXCEPT ![p] = Append(@, x)]
    PROVE  /\ g \in [P -> Seq(S)]
           /\ \A q \in P \ {p} : g[q] = f[q]
           /\ Len(g[p]) = Len(f[p]) + 1
           /\ \A i \in 1..Len(f[p]) : g[p][i] = f[p][i]
           /\ g[p][Len(f[p]) + 1] = x
<1>1. f[p] \in Seq(S)
  OBVIOUS
<1>2. Append(f[p], x) \in Seq(S)
  BY <1>1, AppendProperties
<1>3. g = [f EXCEPT ![p] = Append(f[p], x)]
  OBVIOUS
<1>4. g[p] = Append(f[p], x) /\ \A q \in P \ {p} : g[q] = f[q]
  BY <1>3
<1>5. g \in [P -> Seq(S)]
  BY <1>2, <1>3
<1>6. /\ Len(g[p]) = Len(f[p]) + 1
      /\ \A i \in 1..Len(f[p]) : g[p][i] = f[p][i]
      /\ g[p][Len(f[p]) + 1] = x
  BY <1>1, <1>4, AppendProperties
<1> QED  BY <1>4, <1>5, <1>6

(* Taking the oldest element off one of them.                              *)
LEMMA TailAt ==
    ASSUME NEW P, NEW S, NEW f \in [P -> Seq(S)], NEW p \in P, f[p] # <<>>,
           NEW g, g = [f EXCEPT ![p] = Tail(@)]
    PROVE  /\ g \in [P -> Seq(S)]
           /\ \A q \in P \ {p} : g[q] = f[q]
           /\ Len(g[p]) = Len(f[p]) - 1
           /\ \A i \in 1..Len(g[p]) : g[p][i] = f[p][i + 1]
           /\ Head(f[p]) = f[p][1]
           /\ Head(f[p]) \in S
           /\ Len(f[p]) > 0
<1>1. f[p] \in Seq(S)
  OBVIOUS
<1>2. /\ Head(f[p]) \in S
      /\ Tail(f[p]) \in Seq(S)
      /\ Len(Tail(f[p])) = Len(f[p]) - 1
      /\ \A i \in 1..Len(Tail(f[p])) : Tail(f[p])[i] = f[p][i + 1]
  BY <1>1, HeadTailProperties
<1>3. g = [f EXCEPT ![p] = Tail(f[p])]
  OBVIOUS
<1>4. g[p] = Tail(f[p]) /\ \A q \in P \ {p} : g[q] = f[q]
  BY <1>3
<1>5. g \in [P -> Seq(S)]
  BY <1>2, <1>3
<1>6. Len(f[p]) > 0
  BY <1>1, EmptySeq
<1>7. Head(f[p]) = f[p][1]
  OBVIOUS
<1> QED  BY <1>2, <1>4, <1>5, <1>6, <1>7

(* Moving the oldest element of one of them to its end.                    *)
LEMMA RotateAt ==
    ASSUME NEW P, NEW S, NEW f \in [P -> Seq(S)], NEW p \in P, f[p] # <<>>,
           NEW g, g = [f EXCEPT ![p] = Append(Tail(@), Head(@))]
    PROVE  /\ g \in [P -> Seq(S)]
           /\ \A q \in P \ {p} : g[q] = f[q]
           /\ Len(g[p]) = Len(f[p]) /\ Len(f[p]) > 0
           /\ \A i \in 1..(Len(f[p]) - 1) : g[p][i] = f[p][i + 1]
           /\ g[p][Len(f[p])] = f[p][1]
           /\ \A i \in 1..Len(g[p]) : \E j \in 1..Len(f[p]) : g[p][i] = f[p][j]
<1> DEFINE h == [f EXCEPT ![p] = Tail(@)]
<1>1. /\ h \in [P -> Seq(S)]
      /\ \A q \in P \ {p} : h[q] = f[q]
      /\ Len(h[p]) = Len(f[p]) - 1
      /\ \A i \in 1..Len(h[p]) : h[p][i] = f[p][i + 1]
      /\ Head(f[p]) = f[p][1]
      /\ Head(f[p]) \in S
      /\ Len(f[p]) > 0
  <2> HIDE DEF h
  <2>1. h = [f EXCEPT ![p] = Tail(@)]
    BY DEF h
  <2> QED  BY <2>1, TailAt
<1>2. g = [h EXCEPT ![p] = Append(@, Head(f[p]))]
  OBVIOUS
<1> HIDE DEF h
<1>3. /\ g \in [P -> Seq(S)]
      /\ \A q \in P \ {p} : g[q] = h[q]
      /\ Len(g[p]) = Len(h[p]) + 1
      /\ \A i \in 1..Len(h[p]) : g[p][i] = h[p][i]
      /\ g[p][Len(h[p]) + 1] = Head(f[p])
  BY <1>1, <1>2, AppendAt
<1>4. Len(f[p]) \in Nat
  BY LenProperties
<1>5. ASSUME NEW i \in 1..Len(g[p])
      PROVE  \E j \in 1..Len(f[p]) : g[p][i] = f[p][j]
  <2>1. CASE i = Len(f[p])
    BY <1>1, <1>3, <1>4, <2>1
  <2>2. CASE i # Len(f[p])
    <3>1. i \in 1..Len(h[p])
      BY <1>1, <1>3, <1>4, <2>2
    <3>2. g[p][i] = f[p][i + 1] /\ i + 1 \in 1..Len(f[p])
      BY <1>1, <1>3, <1>4, <3>1
    <3> QED  BY <3>2
  <2> QED  BY <2>1, <2>2
<1>6. /\ Len(g[p]) = Len(f[p])
      /\ \A i \in 1..(Len(f[p]) - 1) : g[p][i] = f[p][i + 1]
      /\ g[p][Len(f[p])] = f[p][1]
  BY <1>1, <1>3, <1>4
<1> QED  BY <1>1, <1>3, <1>5, <1>6
-----------------------------------------------------------------------------
(* The messages held                                                       *)

Places(f) == UNION {{p} \X DOMAIN f[p] : p \in TopicPartitions}

LEMMA InPlaces ==
    ASSUME NEW f
    PROVE  \A p, i : <<p, i>> \in Places(f) <=> p \in TopicPartitions /\ i \in DOMAIN f[p]
BY DEF Places

LEMMA OnlyPairs ==
    ASSUME NEW f, NEW x \in Places(f)
    PROVE  \E p \in TopicPartitions : \E i \in DOMAIN f[p] : x = <<p, i>>
BY DEF Places

(* Two functions of sequences with the same lengths have the same places.  *)
LEMMA SamePlaces ==
    ASSUME NEW f, NEW g, \A p \in TopicPartitions : DOMAIN f[p] = DOMAIN g[p]
    PROVE  Places(f) = Places(g)
<1>1. \A x \in Places(f) : x \in Places(g)
  BY OnlyPairs, InPlaces
<1>2. \A x \in Places(g) : x \in Places(f)
  BY OnlyPairs, InPlaces
<1> QED  BY <1>1, <1>2

(* One place more.                                                         *)
LEMMA MorePlaces ==
    ASSUME NEW f, NEW g, NEW p \in TopicPartitions, NEW n \in Nat,
           DOMAIN f[p] = 1..n, DOMAIN g[p] = 1..(n + 1),
           \A q \in TopicPartitions \ {p} : g[q] = f[q]
    PROVE  /\ Places(g) = Places(f) \cup {<<p, n + 1>>}
           /\ <<p, n + 1>> \notin Places(f)
<1>1. 1..(n + 1) = (1..n) \cup {n + 1} /\ n + 1 \notin 1..n
  OBVIOUS
<1>2. ASSUME NEW x \in Places(g) PROVE x \in Places(f) \cup {<<p, n + 1>>}
  <2>1. PICK q \in TopicPartitions : \E i \in DOMAIN g[q] : x = <<q, i>>
    BY OnlyPairs
  <2>2. PICK i \in DOMAIN g[q] : x = <<q, i>>
    BY <2>1
  <2>3. CASE q = p
    BY <1>1, <2>2, <2>3, InPlaces
  <2>4. CASE q # p
    BY <2>2, <2>4, InPlaces
  <2> QED  BY <2>3, <2>4
<1>3. ASSUME NEW x \in Places(f) PROVE x \in Places(g)
  <2>1. PICK q \in TopicPartitions : \E i \in DOMAIN f[q] : x = <<q, i>>
    BY OnlyPairs
  <2>2. PICK i \in DOMAIN f[q] : x = <<q, i>>
    BY <2>1
  <2>3. CASE q = p
    BY <1>1, <2>2, <2>3, InPlaces
  <2>4. CASE q # p
    BY <2>2, <2>4, InPlaces
  <2> QED  BY <2>3, <2>4
<1>4. <<p, n + 1>> \in Places(g) /\ <<p, n + 1>> \notin Places(f)
  BY <1>1, InPlaces
<1> QED  BY <1>2, <1>3, <1>4

(* What is put into the queue, taken from it, moved in it or lost with it. *)
LEMMA OneMoreHeld ==
    ASSUME NEW p \in TopicPartitions, NEW n \in Nat, IsFiniteSet(Held),
           DOMAIN queue[p] = 1..n, DOMAIN queue'[p] = 1..(n + 1),
           \A q \in TopicPartitions \ {p} : queue'[q] = queue[q]
    PROVE  IsFiniteSet(Held') /\ Queued' = Queued + 1
<1>1. Held = Places(queue) /\ Held' = Places(queue')
  BY DEF Held, Places
<1>2. Held' = Held \cup {<<p, n + 1>>} /\ <<p, n + 1>> \notin Held
  <2>1. /\ Places(queue') = Places(queue) \cup {<<p, n + 1>>}
        /\ <<p, n + 1>> \notin Places(queue)
    BY MorePlaces
  <2> QED  BY <1>1, <2>1
<1> QED  BY <1>2, FS_AddElement DEF Queued

LEMMA OneLessHeld ==
    ASSUME NEW p \in TopicPartitions, NEW n \in Nat, IsFiniteSet(Held),
           DOMAIN queue[p] = 1..(n + 1), DOMAIN queue'[p] = 1..n,
           \A q \in TopicPartitions \ {p} : queue'[q] = queue[q]
    PROVE  IsFiniteSet(Held') /\ Queued = Queued' + 1
<1>1. Held = Places(queue) /\ Held' = Places(queue')
  BY DEF Held, Places
<1>2. Held = Held' \cup {<<p, n + 1>>} /\ <<p, n + 1>> \notin Held'
  BY <1>1, MorePlaces
<1>3. IsFiniteSet(Held')
  BY <1>2, FS_Subset
<1> QED  BY <1>2, <1>3, FS_AddElement DEF Queued

LEMMA AsManyHeld ==
    ASSUME \A p \in TopicPartitions : DOMAIN queue'[p] = DOMAIN queue[p]
    PROVE  Held' = Held /\ Queued' = Queued
<1>1. Held = Places(queue) /\ Held' = Places(queue')
  BY DEF Held, Places
<1>2. Held' = Held
  BY <1>1, SamePlaces
<1> QED  BY <1>2 DEF Queued

LEMMA NoneHeld ==
    ASSUME NEW f, f = [p \in TopicPartitions |-> <<>>]
    PROVE  Places(f) = {}
<1>1. \A p \in TopicPartitions : DOMAIN f[p] = {}
  <2>1. \A p \in TopicPartitions : f[p] = <<>>
    OBVIOUS
  <2>2. DOMAIN <<>> = {}
    OBVIOUS
  <2> QED  BY <2>1, <2>2
<1> QED  BY <1>1, OnlyPairs
-----------------------------------------------------------------------------
(* The operations                                                          *)

LEMMA EnqueueKeeps ==
    ASSUME NEW S, queue \in [TopicPartitions -> Seq(S)], IsFiniteSet(Held),
           NEW p \in TopicPartitions, NEW x \in S, Enqueue(p, x)
    PROVE  /\ queue' \in [TopicPartitions -> Seq(S)]
           /\ IsFiniteSet(Held') /\ Queued' = Queued + 1 /\ Queued < QueueLimit
<1>1. queue' = [queue EXCEPT ![p] = Append(@, x)]
  BY DEF Enqueue
<1>2. /\ queue' \in [TopicPartitions -> Seq(S)]
      /\ \A q \in TopicPartitions \ {p} : queue'[q] = queue[q]
      /\ Len(queue'[p]) = Len(queue[p]) + 1
  BY <1>1, AppendAt
<1>3. PICK n \in Nat : n = Len(queue[p]) /\ DOMAIN queue[p] = 1..n
  BY LenProperties
<1>4. DOMAIN queue'[p] = 1..(n + 1)
  BY <1>2, <1>3, LenProperties
<1>5. IsFiniteSet(Held') /\ Queued' = Queued + 1
  BY <1>2, <1>3, <1>4, OneMoreHeld
<1>6. Queued \in Nat
  BY FS_CardinalityType DEF Queued
<1>7. Queued < QueueLimit
  BY <1>6, ProducerAssumption DEF Enqueue, QueueIsFull
<1> QED  BY <1>2, <1>5, <1>7

LEMMA TailKeeps ==
    ASSUME NEW S, queue \in [TopicPartitions -> Seq(S)], IsFiniteSet(Held),
           NEW p \in TopicPartitions, queue[p] # <<>>, queue' = [queue EXCEPT ![p] = Tail(@)]
    PROVE  /\ queue' \in [TopicPartitions -> Seq(S)]
           /\ IsFiniteSet(Held') /\ Queued = Queued' + 1
<1>2. /\ queue' \in [TopicPartitions -> Seq(S)]
      /\ \A q \in TopicPartitions \ {p} : queue'[q] = queue[q]
      /\ Len(queue'[p]) = Len(queue[p]) - 1
      /\ Len(queue[p]) > 0
  BY TailAt
<1>3. PICK n \in Nat : n = Len(queue'[p]) /\ DOMAIN queue'[p] = 1..n
  BY <1>2, LenProperties
<1>4. DOMAIN queue[p] = 1..(n + 1)
  <2>1. PICK k \in Nat : k = Len(queue[p]) /\ DOMAIN queue[p] = 1..k
    BY LenProperties
  <2> QED  BY <1>2, <1>3, <2>1
<1>5. IsFiniteSet(Held') /\ Queued = Queued' + 1
  BY <1>2, <1>3, <1>4, OneLessHeld
<1> QED  BY <1>2, <1>5

LEMMA RotateKeeps ==
    ASSUME NEW S, queue \in [TopicPartitions -> Seq(S)], NEW p \in TopicPartitions,
           queue[p] # <<>>, queue' = [queue EXCEPT ![p] = Append(Tail(@), Head(@))]
    PROVE  /\ queue' \in [TopicPartitions -> Seq(S)]
           /\ Held' = Held /\ Queued' = Queued
<1>1. /\ queue' \in [TopicPartitions -> Seq(S)]
      /\ \A q \in TopicPartitions \ {p} : queue'[q] = queue[q]
      /\ Len(queue'[p]) = Len(queue[p])
  BY RotateAt
<1>2. \A q \in TopicPartitions : DOMAIN queue'[q] = DOMAIN queue[q]
  <2>1. DOMAIN queue'[p] = 1..Len(queue'[p]) /\ DOMAIN queue[p] = 1..Len(queue[p])
    BY <1>1, LenProperties
  <2> QED  BY <1>1, <2>1
<1> QED  BY <1>1, <1>2, AsManyHeld

(* librdkafka's thread never holds more than before.                       *)
LEMMA TransportKeeps ==
    ASSUME NEW S, queue \in [TopicPartitions -> Seq(S)], topic \in [TopicPartitions -> Seq(S)],
           IsFiniteSet(Held), NEW p \in TopicPartitions, Deliver(p) \/ Retry(p) \/ Expire(p)
    PROVE  /\ queue' \in [TopicPartitions -> Seq(S)]
           /\ topic' \in [TopicPartitions -> Seq(S)]
           /\ IsFiniteSet(Held') /\ Queued' <= Queued
<1>1. queue[p] # <<>>
  BY DEF Deliver, Retry, Expire
<1>2. Head(queue[p]) \in S
  <2>1. queue[p] \in Seq(S)
    OBVIOUS
  <2> QED  BY <1>1, <2>1, HeadTailProperties
<1>3. Queued \in Nat /\ (IsFiniteSet(Held') => Queued' \in Nat)
  BY FS_CardinalityType DEF Queued
<1>4. topic' \in [TopicPartitions -> Seq(S)]
  <2>1. topic' = topic \/ topic' = [topic EXCEPT ![p] = Append(@, Head(queue[p]))]
    BY DEF Deliver, Retry, Expire
  <2>2. CASE topic' = [topic EXCEPT ![p] = Append(@, Head(queue[p]))]
    BY <1>2, <2>2, AppendAt
  <2> QED  BY <2>1, <2>2
<1>5. CASE queue' = [queue EXCEPT ![p] = Tail(@)]
  <2>1. /\ queue' \in [TopicPartitions -> Seq(S)]
        /\ IsFiniteSet(Held') /\ Queued = Queued' + 1
    BY <1>1, <1>5, TailKeeps
  <2> QED  BY <1>3, <1>4, <2>1
<1>6. CASE queue' = [queue EXCEPT ![p] = Append(Tail(@), Head(@))]
  <2>1. queue' \in [TopicPartitions -> Seq(S)] /\ Held' = Held /\ Queued' = Queued
    BY <1>1, <1>6, RotateKeeps
  <2> QED  BY <1>3, <1>4, <2>1
<1> QED  BY <1>5, <1>6 DEF Deliver, Retry, Expire
-----------------------------------------------------------------------------
(* What librdkafka's thread does to the entries                            *)

(* The oldest message has left the queue of p, or has gone to its end, or  *)
(* has come to the end of its log.                                         *)
Shifted(p, m) ==
    /\ DOMAIN queue'[p] = 1..m
    /\ \A i \in 1..m : i + 1 \in 1..(m + 1) /\ queue'[p][i] = queue[p][i + 1]

Rotated(p, m) ==
    /\ DOMAIN queue'[p] = 1..(m + 1)
    /\ \A i \in 1..m : i + 1 \in 1..(m + 1) /\ queue'[p][i] = queue[p][i + 1]
    /\ queue'[p][m + 1] = queue[p][1]

Appended(p, n) ==
    /\ DOMAIN topic'[p] = 1..(n + 1)
    /\ \A i \in 1..n : topic'[p][i] = topic[p][i]
    /\ topic'[p][n + 1] = queue[p][1]

Moved(p, m, n) ==
    /\ DOMAIN queue[p] = 1..(m + 1) /\ DOMAIN topic[p] = 1..n
    /\ \A q \in TopicPartitions : q # p => queue'[q] = queue[q] /\ topic'[q] = topic[q]
    /\ \/ /\ Shifted(p, m) /\ Appended(p, n)
          /\ UNCHANGED <<retries, expired>>
       \/ /\ Rotated(p, m) /\ (Appended(p, n) \/ topic'[p] = topic[p])
          /\ retries' = retries + 1 /\ UNCHANGED expired
       \/ /\ Shifted(p, m) /\ topic'[p] = topic[p]
          /\ expired' = expired + 1 /\ UNCHANGED retries

LEMMA ShiftedByTail ==
    ASSUME NEW S, queue \in [TopicPartitions -> Seq(S)], NEW p \in TopicPartitions,
           NEW m \in Nat, Len(queue[p]) = m + 1, queue' = [queue EXCEPT ![p] = Tail(@)]
    PROVE  Shifted(p, m) /\ \A q \in TopicPartitions : q # p => queue'[q] = queue[q]
<1>1. queue[p] # <<>>
  BY EmptySeq
<1>2. /\ queue' \in [TopicPartitions -> Seq(S)]
      /\ \A q \in TopicPartitions \ {p} : queue'[q] = queue[q]
      /\ Len(queue'[p]) = Len(queue[p]) - 1
      /\ \A i \in 1..Len(queue'[p]) : queue'[p][i] = queue[p][i + 1]
  BY <1>1, TailAt
<1>3. Len(queue'[p]) = m /\ DOMAIN queue'[p] = 1..m
  BY <1>2, LenProperties
<1>4. \A i \in 1..m : i + 1 \in 1..(m + 1)
  OBVIOUS
<1> QED  BY <1>2, <1>3, <1>4 DEF Shifted

LEMMA RotatedByRetry ==
    ASSUME NEW S, queue \in [TopicPartitions -> Seq(S)], NEW p \in TopicPartitions,
           NEW m \in Nat, Len(queue[p]) = m + 1,
           queue' = [queue EXCEPT ![p] = Append(Tail(@), Head(@))]
    PROVE  Rotated(p, m) /\ \A q \in TopicPartitions : q # p => queue'[q] = queue[q]
<1>1. queue[p] # <<>>
  BY EmptySeq
<1>2. /\ queue' \in [TopicPartitions -> Seq(S)]
      /\ \A q \in TopicPartitions \ {p} : queue'[q] = queue[q]
      /\ Len(queue'[p]) = Len(queue[p])
      /\ \A i \in 1..(Len(queue[p]) - 1) : queue'[p][i] = queue[p][i + 1]
      /\ queue'[p][Len(queue[p])] = queue[p][1]
  BY <1>1, RotateAt
<1>3. Len(queue'[p]) = m + 1 /\ DOMAIN queue'[p] = 1..(m + 1) /\ Len(queue[p]) - 1 = m
  BY <1>2, LenProperties
<1>4. \A i \in 1..m : i + 1 \in 1..(m + 1)
  OBVIOUS
<1> QED  BY <1>2, <1>3, <1>4 DEF Rotated

LEMMA AppendedByBroker ==
    ASSUME NEW S, queue \in [TopicPartitions -> Seq(S)], topic \in [TopicPartitions -> Seq(S)],
           NEW p \in TopicPartitions, queue[p] # <<>>, NEW n \in Nat, Len(topic[p]) = n,
           topic' = [topic EXCEPT ![p] = Append(@, Head(queue[p]))]
    PROVE  Appended(p, n) /\ \A q \in TopicPartitions : q # p => topic'[q] = topic[q]
<1>1. Head(queue[p]) \in S /\ Head(queue[p]) = queue[p][1]
  <2>1. queue[p] \in Seq(S)
    OBVIOUS
  <2> QED  BY <2>1, HeadTailProperties
<1>2. /\ topic' \in [TopicPartitions -> Seq(S)]
      /\ \A q \in TopicPartitions \ {p} : topic'[q] = topic[q]
      /\ Len(topic'[p]) = Len(topic[p]) + 1
      /\ \A i \in 1..Len(topic[p]) : topic'[p][i] = topic[p][i]
      /\ topic'[p][Len(topic[p]) + 1] = Head(queue[p])
  BY <1>1, AppendAt
<1>3. DOMAIN topic'[p] = 1..(n + 1)
  BY <1>2, LenProperties
<1> QED  BY <1>1, <1>2, <1>3 DEF Appended

LEMMA TransportMoves ==
    ASSUME NEW S, queue \in [TopicPartitions -> Seq(S)], topic \in [TopicPartitions -> Seq(S)],
           NEW p \in TopicPartitions, Deliver(p) \/ Retry(p) \/ Expire(p)
    PROVE  \E m \in Nat : \E n \in Nat : Moved(p, m, n)
<1>1. queue[p] # <<>>
  BY DEF Deliver, Retry, Expire
<1>2. PICK m \in Nat : Len(queue[p]) = m + 1 /\ DOMAIN queue[p] = 1..(m + 1)
  <2>1. queue[p] \in Seq(S)
    OBVIOUS
  <2>2. Len(queue[p]) \in Nat \ {0} /\ DOMAIN queue[p] = 1..Len(queue[p])
    BY <1>1, <2>1, EmptySeq, LenProperties
  <2>3. PICK k \in Nat \ {0} : k = Len(queue[p])
    BY <2>2
  <2>4. k - 1 \in Nat /\ k = (k - 1) + 1
    OBVIOUS
  <2> QED  BY <2>2, <2>3, <2>4
<1>3. PICK n \in Nat : Len(topic[p]) = n /\ DOMAIN topic[p] = 1..n
  BY LenProperties
<1>4. CASE Deliver(p)
  <2>1. /\ queue' = [queue EXCEPT ![p] = Tail(@)]
        /\ topic' = [topic EXCEPT ![p] = Append(@, Head(queue[p]))]
        /\ UNCHANGED <<retries, expired>>
    BY <1>4 DEF Deliver
  <2>2. Shifted(p, m) /\ \A q \in TopicPartitions : q # p => queue'[q] = queue[q]
    BY <1>2, <2>1, ShiftedByTail
  <2>3. Appended(p, n) /\ \A q \in TopicPartitions : q # p => topic'[q] = topic[q]
    BY <1>1, <1>3, <2>1, AppendedByBroker
  <2>4. Moved(p, m, n)
    BY <1>2, <1>3, <2>1, <2>2, <2>3 DEF Moved
  <2> QED  BY <2>4
<1>5. CASE Retry(p)
  <2>1. /\ queue' = [queue EXCEPT ![p] = Append(Tail(@), Head(@))]
        /\ topic' = [topic EXCEPT ![p] = Append(@, Head(queue[p]))] \/ topic' = topic
        /\ retries' = retries + 1 /\ UNCHANGED expired
    BY <1>5 DEF Retry
  <2>2. Rotated(p, m) /\ \A q \in TopicPartitions : q # p => queue'[q] = queue[q]
    BY <1>2, <2>1, RotatedByRetry
  <2>3. /\ Appended(p, n) \/ topic'[p] = topic[p]
        /\ \A q \in TopicPartitions : q # p => topic'[q] = topic[q]
    <3>1. CASE topic' = topic
      BY <3>1
    <3>2. CASE topic' = [topic EXCEPT ![p] = Append(@, Head(queue[p]))]
      BY <1>1, <1>3, <3>2, AppendedByBroker
    <3> QED  BY <2>1, <3>1, <3>2
  <2>4. Moved(p, m, n)
    BY <1>2, <1>3, <2>1, <2>2, <2>3 DEF Moved
  <2> QED  BY <2>4
<1>6. CASE Expire(p)
  <2>1. /\ queue' = [queue EXCEPT ![p] = Tail(@)]
        /\ expired' = expired + 1 /\ UNCHANGED <<topic, retries>>
    BY <1>6 DEF Expire
  <2>2. Shifted(p, m) /\ \A q \in TopicPartitions : q # p => queue'[q] = queue[q]
    BY <1>2, <2>1, ShiftedByTail
  <2>3. Moved(p, m, n)
    BY <1>2, <1>3, <2>1, <2>2 DEF Moved
  <2> QED  BY <2>3
<1> QED  BY <1>4, <1>5, <1>6

(* Whatever the queue or the log of a partition holds came from there, and *)
(* only what is given up leaves both.                                      *)
LEMMA MovedEntries ==
    ASSUME NEW p \in TopicPartitions, NEW m \in Nat, NEW n \in Nat, Moved(p, m, n)
    PROVE  \A q \in TopicPartitions :
              /\ \A i \in DOMAIN queue'[q] : \E j \in DOMAIN queue[q] : queue'[q][i] = queue[q][j]
              /\ \A i \in DOMAIN topic'[q] :
                    \/ i \in DOMAIN topic[q] /\ topic'[q][i] = topic[q][i]
                    \/ \E j \in DOMAIN queue[q] : topic'[q][i] = queue[q][j]
              /\ \A i \in DOMAIN topic[q] : i \in DOMAIN topic'[q] /\ topic'[q][i] = topic[q][i]
              /\ \A i \in DOMAIN queue[q] :
                    \/ \E j \in DOMAIN queue'[q] : queue'[q][j] = queue[q][i]
                    \/ \E j \in DOMAIN topic'[q] : topic'[q][j] = queue[q][i]
                    \/ q = p /\ i = 1 /\ expired' = expired + 1
<1> SUFFICES ASSUME NEW q \in TopicPartitions
             PROVE  /\ \A i \in DOMAIN queue'[q] :
                          \E j \in DOMAIN queue[q] : queue'[q][i] = queue[q][j]
                    /\ \A i \in DOMAIN topic'[q] :
                          \/ i \in DOMAIN topic[q] /\ topic'[q][i] = topic[q][i]
                          \/ \E j \in DOMAIN queue[q] : topic'[q][i] = queue[q][j]
                    /\ \A i \in DOMAIN topic[q] :
                          i \in DOMAIN topic'[q] /\ topic'[q][i] = topic[q][i]
                    /\ \A i \in DOMAIN queue[q] :
                          \/ \E j \in DOMAIN queue'[q] : queue'[q][j] = queue[q][i]
                          \/ \E j \in DOMAIN topic'[q] : topic'[q][j] = queue[q][i]
                          \/ q = p /\ i = 1 /\ expired' = expired + 1
  OBVIOUS
<1>1. CASE q # p
  BY <1>1 DEF Moved
<1>2. CASE q = p
  <2>1. DOMAIN queue[p] = 1..(m + 1) /\ DOMAIN topic[p] = 1..n /\ 1 \in 1..(m + 1)
    BY DEF Moved
  <2>2. Shifted(p, m) \/ Rotated(p, m)
    BY DEF Moved
  <2>3. Appended(p, n) \/ topic'[p] = topic[p]
    BY DEF Moved
  <2>4. ASSUME NEW i \in DOMAIN queue'[p]
        PROVE  \E j \in DOMAIN queue[p] : queue'[p][i] = queue[p][j]
    <3>1. CASE i \in 1..m
      BY <2>1, <2>2, <3>1 DEF Shifted, Rotated
    <3>2. CASE i \notin 1..m
      <4>1. Rotated(p, m) /\ i = m + 1
        BY <2>2, <3>2 DEF Shifted, Rotated
      <4> QED  BY <2>1, <4>1 DEF Rotated
    <3> QED  BY <3>1, <3>2
  <2>5. ASSUME NEW i \in DOMAIN topic'[p]
        PROVE  \/ i \in DOMAIN topic[p] /\ topic'[p][i] = topic[p][i]
               \/ \E j \in DOMAIN queue[p] : topic'[p][i] = queue[p][j]
    <3>1. CASE topic'[p] = topic[p]
      BY <3>1
    <3>2. CASE Appended(p, n)
      <4>1. i \in 1..n \/ i = n + 1
        BY <3>2 DEF Appended
      <4> QED  BY <2>1, <3>2, <4>1 DEF Appended
    <3> QED  BY <2>3, <3>1, <3>2
  <2>6. ASSUME NEW i \in DOMAIN topic[p]
        PROVE  i \in DOMAIN topic'[p] /\ topic'[p][i] = topic[p][i]
    <3>1. i \in 1..n /\ i \in 1..(n + 1)
      BY <2>1
    <3> QED  BY <2>3, <3>1 DEF Appended
  <2>7. ASSUME NEW i \in DOMAIN queue[p]
        PROVE  \/ \E j \in DOMAIN queue'[p] : queue'[p][j] = queue[p][i]
               \/ \E j \in DOMAIN topic'[p] : topic'[p][j] = queue[p][i]
               \/ i = 1 /\ expired' = expired + 1
    <3>1. CASE i = 1
      <4>1. CASE Appended(p, n)
        <5>1. n + 1 \in DOMAIN topic'[p] /\ topic'[p][n + 1] = queue[p][1]
          BY <4>1 DEF Appended
        <5> QED  BY <3>1, <5>1
      <4>2. CASE Rotated(p, m)
        <5>1. m + 1 \in DOMAIN queue'[p] /\ queue'[p][m + 1] = queue[p][1]
          BY <4>2 DEF Rotated
        <5> QED  BY <3>1, <5>1
      <4>3. CASE expired' = expired + 1
        BY <3>1, <4>3
      <4> QED  BY <4>1, <4>2, <4>3 DEF Moved
    <3>2. CASE i # 1
      <4>1. PICK j \in 1..m : i = j + 1
        <5>1. i - 1 \in 1..m /\ i = (i - 1) + 1
          BY <2>1, <3>2
        <5> QED  BY <5>1
      <4>2. j \in DOMAIN queue'[p] /\ queue'[p][j] = queue[p][i]
        <5>1. j \in 1..(m + 1)
          OBVIOUS
        <5> QED  BY <2>2, <4>1, <5>1 DEF Shifted, Rotated
      <4> QED  BY <4>2
    <3> QED  BY <3>1, <3>2
  <2> QED  BY <1>2, <2>4, <2>5, <2>6, <2>7
<1> QED  BY <1>1, <1>2
-----------------------------------------------------------------------------
(* The order of a partition                                                *)

Increasing(s) == \A i, j \in DOMAIN s : i < j => s[i] < s[j]

(* As long as nothing was sent twice a log and then its queue ascend.      *)
LogInOrder ==
    retries = 0 =>
        \A p \in TopicPartitions :
            /\ Increasing(queue[p])
            /\ Increasing(topic[p])
            /\ \A i \in DOMAIN topic[p], j \in DOMAIN queue[p] : topic[p][i] < queue[p][j]

LEMMA MovedInOrder ==
    ASSUME retries \in Nat, LogInOrder,
           NEW p \in TopicPartitions, NEW m \in Nat, NEW n \in Nat, Moved(p, m, n)
    PROVE  LogInOrder'
<1>1. CASE retries' = retries + 1
  BY <1>1 DEF LogInOrder
<1>2. CASE UNCHANGED retries /\ Shifted(p, m) /\ (Appended(p, n) \/ topic'[p] = topic[p])
  <2> SUFFICES ASSUME retries = 0, NEW q \in TopicPartitions
               PROVE  /\ Increasing(queue'[q])
                      /\ Increasing(topic'[q])
                      /\ \A i \in DOMAIN topic'[q], j \in DOMAIN queue'[q] :
                            topic'[q][i] < queue'[q][j]
    BY <1>2 DEF LogInOrder, Increasing
  <2>1. /\ \A i, j \in DOMAIN queue[q] : i < j => queue[q][i] < queue[q][j]
        /\ \A i, j \in DOMAIN topic[q] : i < j => topic[q][i] < topic[q][j]
        /\ \A i \in DOMAIN topic[q], j \in DOMAIN queue[q] : topic[q][i] < queue[q][j]
    BY DEF LogInOrder, Increasing
  <2>2. CASE q # p
    <3>1. queue'[q] = queue[q] /\ topic'[q] = topic[q]
      BY <2>2 DEF Moved
    <3> QED  BY <2>1, <3>1 DEF Increasing
  <2>3. CASE q = p
    <3>1. DOMAIN queue[p] = 1..(m + 1) /\ DOMAIN topic[p] = 1..n /\ 1 \in 1..(m + 1)
      BY DEF Moved
    <3>2. /\ DOMAIN queue'[p] = 1..m
          /\ \A i \in 1..m : i + 1 \in 1..(m + 1) /\ queue'[p][i] = queue[p][i + 1]
      BY <1>2 DEF Shifted
    <3>3. \A i, j \in 1..m : i < j => queue'[p][i] < queue'[p][j]
      <4> SUFFICES ASSUME NEW i \in 1..m, NEW j \in 1..m, i < j
                   PROVE  queue'[p][i] < queue'[p][j]
        OBVIOUS
      <4>1. i + 1 < j + 1
        OBVIOUS
      <4> QED  BY <2>1, <2>3, <3>1, <3>2, <4>1
    <3>4. \A i \in 1..n, j \in 1..m : topic[p][i] < queue'[p][j]
      BY <2>1, <2>3, <3>1, <3>2
    <3>5. CASE topic'[p] = topic[p]
      BY <2>1, <2>3, <3>1, <3>2, <3>3, <3>4, <3>5 DEF Increasing
    <3>6. CASE Appended(p, n)
      <4>1. /\ DOMAIN topic'[p] = 1..(n + 1)
            /\ \A i \in 1..n : topic'[p][i] = topic[p][i]
            /\ topic'[p][n + 1] = queue[p][1]
        BY <3>6 DEF Appended
      <4>2. \A i \in 1..(n + 1) : i = n + 1 \/ i \in 1..n
        OBVIOUS
      <4>3. \A i, j \in 1..(n + 1) : i < j => topic'[p][i] < topic'[p][j]
        <5> SUFFICES ASSUME NEW i \in 1..(n + 1), NEW j \in 1..(n + 1), i < j
                     PROVE  topic'[p][i] < topic'[p][j]
          OBVIOUS
        <5>1. i \in 1..n
          OBVIOUS
        <5>2. CASE j = n + 1
          BY <2>1, <2>3, <3>1, <4>1, <5>1, <5>2
        <5>3. CASE j \in 1..n
          BY <2>1, <2>3, <3>1, <4>1, <5>1, <5>3
        <5> QED  BY <4>2, <5>2, <5>3
      <4>4. \A i \in 1..(n + 1), j \in 1..m : topic'[p][i] < queue'[p][j]
        <5> SUFFICES ASSUME NEW i \in 1..(n + 1), NEW j \in 1..m
                     PROVE  topic'[p][i] < queue'[p][j]
          OBVIOUS
        <5>1. CASE i = n + 1
          <6>1. 1 < j + 1 /\ j + 1 \in 1..(m + 1)
            OBVIOUS
          <6>2. queue[p][1] < queue[p][j + 1]
            BY <2>1, <2>3, <3>1, <6>1
          <6>3. topic'[p][i] = queue[p][1] /\ queue'[p][j] = queue[p][j + 1]
            BY <3>2, <4>1, <5>1
          <6> QED  BY <6>2, <6>3
        <5>2. CASE i \in 1..n
          BY <3>4, <4>1, <5>2
        <5> QED  BY <4>2, <5>1, <5>2
      <4> QED  BY <2>3, <3>2, <3>3, <4>1, <4>3, <4>4 DEF Increasing
    <3> QED  BY <1>2, <3>5, <3>6
  <2> QED  BY <2>2, <2>3
<1> QED  BY <1>1, <1>2 DEF Moved
=============================================================================
