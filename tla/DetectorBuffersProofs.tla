------------------------ MODULE DetectorBuffersProofs ------------------------
(***************************************************************************)
(* What the registry remembers of a host is a function of the part of the  *)
(* log this life has read: four deques, the number of the model and the    *)
(* counters that decide when it is fitted.                                 *)
(***************************************************************************)
EXTENDS DetectorProofs

Point == [ts : Nat, score : Nat]

(* Of all the events a host has sent, a deque holds the newest.  `scores'  *)
(* and `points' are what would have been appended to unbounded ones.       *)
DequesHold(state, seen, scores, points) ==
    /\ state.raw_buffer = LastN(seen, RollingWindow)
    /\ state.score_history = LastN(scores, HistorySize)
    /\ state.trend_window = LastN(points, TrendWindowSize)

(* A score and a point for each event from the first scored one on.        *)
OnePerScored(seen, scores, points, log) ==
    LET scored == SubSeq(seen, WarmupEvents + 1, Len(seen))
    IN  /\ Len(scores) = Len(scored)
        /\ Len(points) = Len(scored)
        /\ \A i \in 1..Len(points) :
              /\ points[i].ts = log[scored[i]].ts
              /\ points[i].score = scores[i]

(* Warming up, after n events.                                             *)
WarmingUp(state, n) ==
    /\ n < WarmupEvents
    /\ ~state.is_warmed_up
    /\ state.warmup_features = n
    /\ state.events_since_fit = n
    /\ state.model_version = 0

(* With a model, after k scored events: how many vectors are kept, when the*)
(* model was fitted last, and how often.                                   *)
Fitted(state, k) ==
    /\ state.is_warmed_up
    /\ state.train_window = Min({Min({WarmupEvents, TrainWindowSize}) + k, TrainWindowSize})
    /\ IF MinTrainWindow > TrainWindowSize \/ k < FirstRefit
       THEN state.model_version = 1 /\ state.events_since_fit = k
       ELSE /\ state.model_version = 2 + (k - FirstRefit) \div RetrainInterval
            /\ state.events_since_fit = (k - FirstRefit) % RetrainInterval

OnSchedule(state, n) ==
    \/ WarmingUp(state, n)
    \/ n >= WarmupEvents /\ Fitted(state, n - WarmupEvents)

(* s lists S in increasing order.                                          *)
Lists(s, S) ==
    /\ \A i, j \in 1..Len(s) : i < j => s[i] < s[j]
    /\ S = {s[i] : i \in 1..Len(s)}

Remembers(state, seen, scores, points, log) ==
    /\ OnePerScored(seen, scores, points, log)
    /\ DequesHold(state, seen, scores, points)
    /\ OnSchedule(state, Len(seen))

RemembersLog(h) ==
    \E seen \in Seq(Nat), scores \in Seq(Nat), points \in Seq(Point) :
        /\ Lists(seen, SeenOffsets(h))
        /\ Remembers(states[h], seen, scores, points, telemetry[PartitionOf[h]])

LogIsRemembered ==
    rejoins = 0 =>
        /\ \A p \in Partitions : resumed[p] <= position[p]
        /\ \A h \in Hosts : RemembersLog(h)
-----------------------------------------------------------------------------
(* Increasing lists                                                        *)

(* The k-th entry of an increasing list has rank k.                        *)
LEMMA RankInList ==
    ASSUME NEW s \in Seq(Nat), NEW S, Lists(s, S), NEW k \in 1..Len(s)
    PROVE  Rank(s[k], S) = k
<1> DEFINE Q == {q \in S : q <= s[k]}
           f == [i \in 1..k |-> s[i]]
<1>1. \A i \in 1..Len(s) : s[i] \in Nat
  BY ElementOfSeq
<1>2. \A i, j \in 1..Len(s) : i < j => s[i] < s[j]
  BY DEF Lists
<1>3. \A i \in 1..Len(s) : s[i] <= s[k] <=> i <= k
  BY <1>1, <1>2
<1>4. f \in Bijection(1..k, Q)
  <2>1. f \in [1..k -> Q]
    BY <1>1, <1>3 DEF Lists
  <2>2. \A i, j \in 1..k : i # j => f[i] # f[j]
    <3> SUFFICES ASSUME NEW i \in 1..k, NEW j \in 1..k, i # j PROVE s[i] # s[j]
      OBVIOUS
    <3>1. i < j \/ j < i
      OBVIOUS
    <3>2. i \in 1..Len(s) /\ j \in 1..Len(s)
      OBVIOUS
    <3> QED  BY <1>1, <1>2, <3>1, <3>2
  <2>3. \A q \in Q : \E i \in 1..k : f[i] = q
    BY <1>3 DEF Lists
  <2> HIDE DEF f, Q
  <2> QED  BY <2>1, <2>2, <2>3 DEF Bijection, Injection, Surjection, IsInjective
<1>5. IsFiniteSet(1..k) /\ Cardinality(1..k) = k
  BY FS_Interval
<1>6. ExistsBijection(1..k, Q)
  BY <1>4 DEF ExistsBijection
<1>7. Cardinality(Q) = k
  BY <1>5, <1>6, FS_Bijection
<1> QED  BY <1>7 DEF Rank

(* It is as long as the set is large.                                      *)
LEMMA ListLength ==
    ASSUME NEW s \in Seq(Nat), NEW S, Lists(s, S)
    PROVE  Cardinality(S) = Len(s)
<1>1. PICK n \in Nat : n = Len(s)
  OBVIOUS
<1>2. \A i \in 1..n : s[i] \in Nat /\ s[i] \in S
  BY <1>1, ElementOfSeq DEF Lists
<1> DEFINE f == [i \in 1..n |-> s[i]]
<1>3. f \in [1..n -> S]
  BY <1>2
<1>4. \A i, j \in 1..n : i # j => f[i] # f[j]
  <2> SUFFICES ASSUME NEW i \in 1..n, NEW j \in 1..n, i # j PROVE s[i] # s[j]
    OBVIOUS
  <2>1. i < j \/ j < i
    OBVIOUS
  <2>2. \A a, b \in 1..n : a < b => s[a] < s[b]
    BY <1>1 DEF Lists
  <2> QED  BY <1>2, <2>1, <2>2
<1>5. \A q \in S : \E i \in 1..n : f[i] = q
  BY <1>1 DEF Lists
<1>6. f \in Bijection(1..n, S)
  <2> HIDE DEF f
  <2> QED  BY <1>3, <1>4, <1>5 DEF Bijection, Injection, Surjection, IsInjective
<1>7. ExistsBijection(1..n, S)
  BY <1>6 DEF ExistsBijection
<1>8. IsFiniteSet(1..n) /\ Cardinality(1..n) = n
  BY FS_Interval
<1> QED  BY <1>1, <1>7, <1>8, FS_Bijection

(* So the list is the only one, and that of the property.                  *)
LEMMA ListIsSeen ==
    ASSUME NEW h, NEW s \in Seq(Nat), Lists(s, SeenOffsets(h))
    PROVE  Seen(h) = s
<1> DEFINE S == SeenOffsets(h)
<1>1. PICK n \in Nat : n = Len(s)
  OBVIOUS
<1>2. \A i \in 1..n : s[i] \in Nat /\ s[i] \in S
  BY <1>1, ElementOfSeq DEF Lists
<1>3. \A i \in 1..n : Rank(s[i], S) = i
  BY <1>1, RankInList
<1>4. Cardinality(S) = n
  BY <1>1, ListLength
<1>5. ASSUME NEW k \in 1..n PROVE (CHOOSE o \in S : Rank(o, S) = k) = s[k]
  <2> DEFINE c == CHOOSE o \in S : Rank(o, S) = k
  <2>1. \E o \in S : Rank(o, S) = k
    BY <1>2, <1>3
  <2>2. c \in S /\ Rank(c, S) = k
    BY <2>1
  <2>3. PICK i \in 1..n : c = s[i]
    BY <1>1, <2>2 DEF Lists
  <2>4. i = k
    BY <1>3, <2>2, <2>3
  <2> QED  BY <2>3, <2>4
<1>6. Seen(h) = [k \in 1..n |-> CHOOSE o \in S : Rank(o, S) = k]
  BY <1>4 DEF Seen
<1>7. s = [k \in 1..n |-> s[k]]
  BY <1>1
<1> QED  BY <1>5, <1>6, <1>7

(* A newer offset goes to the end of the list.                             *)
LEMMA ListsMore ==
    ASSUME NEW s \in Seq(Nat), NEW S, Lists(s, S), NEW o \in Nat, \A q \in S : q < o
    PROVE  Append(s, o) \in Seq(Nat) /\ Lists(Append(s, o), S \cup {o})
<1>1. PICK n \in Nat : n = Len(s)
  OBVIOUS
<1>2. /\ Append(s, o) \in Seq(Nat)
      /\ Len(Append(s, o)) = n + 1
      /\ Append(s, o)[n + 1] = o
      /\ \A i \in 1..n : Append(s, o)[i] = s[i] /\ s[i] \in S
  BY <1>1 DEF Lists
<1> DEFINE t == Append(s, o)
<1> HIDE DEF t
<1>3. ASSUME NEW i \in 1..(n + 1), NEW j \in 1..(n + 1), i < j PROVE t[i] < t[j]
  <2>1. i \in 1..n /\ t[i] = s[i] /\ s[i] \in S /\ s[i] < o
    BY <1>2, <1>3 DEF t
  <2>2. CASE j = n + 1
    BY <1>2, <2>1, <2>2 DEF t
  <2>3. CASE j # n + 1
    <3>1. j \in 1..n /\ t[j] = s[j]
      BY <1>2, <2>3 DEF t
    <3> QED  BY <1>1, <1>3, <2>1, <3>1 DEF Lists
  <2> QED  BY <2>2, <2>3
<1>4. S \cup {o} = {t[i] : i \in 1..(n + 1)}
  <2>1. S = {s[i] : i \in 1..n}
    BY <1>1 DEF Lists
  <2>2. \A i \in 1..n : t[i] = s[i]
    BY <1>2 DEF t
  <2>3. t[n + 1] = o /\ 1..(n + 1) = (1..n) \cup {n + 1}
    BY <1>1, <1>2 DEF t
  <2>4. \A q \in S : \E i \in 1..(n + 1) : q = t[i]
    BY <2>1, <2>2, <2>3
  <2>5. \A i \in 1..(n + 1) : t[i] \in S \cup {o}
    BY <2>1, <2>2, <2>3
  <2>6. n + 1 \in 1..(n + 1)
    BY <2>3
  <2> QED  BY <2>3, <2>4, <2>5, <2>6
<1> QED  BY <1>2, <1>3, <1>4 DEF Lists, t
-----------------------------------------------------------------------------
(* Deques                                                                  *)

(* The smaller of two numbers.                                             *)
LEMMA MinIs ==
    ASSUME NEW a \in Nat, NEW b \in Nat
    PROVE  Min({a, b}) = IF a <= b THEN a ELSE b
<1>1. \E x \in {a, b} : \A y \in {a, b} : x <= y
  OBVIOUS
<1>2. Min({a, b}) \in {a, b} /\ \A y \in {a, b} : Min({a, b}) <= y
  BY <1>1 DEF Min
<1> QED  BY <1>2

(* d is the last k entries of s.                                           *)
NewestOf(d, s, k) ==
    /\ Len(d) = k
    /\ \A i \in 1..k : d[i] = s[Len(s) - k + i]

(* The last n entries of a sequence.                                       *)
LEMMA LastNIs ==
    ASSUME NEW T, NEW s \in Seq(T), NEW n \in Nat,
           NEW k \in Nat, k <= n, k <= Len(s), k = n \/ k = Len(s)
    PROVE  LastN(s, n) \in Seq(T) /\ NewestOf(LastN(s, n), s, k)
<1>1. PICK m \in Nat : m = Len(s)
  OBVIOUS
<1>2. LastN(s, n) = SubSeq(s, m - k + 1, m)
  <2>1. Min({n, m}) = IF n <= m THEN n ELSE m
    BY MinIs
  <2>2. Min({n, Len(s)}) = k
    BY <1>1, <2>1
  <2> QED  BY <1>1, <2>2 DEF LastN
<1>3. PICK l \in Int : l = m - k + 1
  OBVIOUS
<1>4. \A i \in l..m : s[i] \in T
  <2>1. \A i \in l..m : i \in 1..Len(s)
    BY <1>1, <1>3
  <2> QED  BY <2>1, ElementOfSeq
<1> DEFINE d == SubSeq(s, l, m)
<1>5. /\ d \in Seq(T)
      /\ Len(d) = IF l <= m THEN m - l + 1 ELSE 0
      /\ \A i \in 1..(m - l + 1) : d[i] = s[l + i - 1]
  BY <1>1, <1>4, SubSeqProperties
<1>6. LastN(s, n) = d
  BY <1>2, <1>3
<1> HIDE DEF d
<1>7. Len(d) = k /\ \A i \in 1..k : d[i] = s[l + i - 1]
  BY <1>1, <1>3, <1>5
<1>8. \A i \in 1..k : l + i - 1 = m - k + i
  BY <1>1, <1>3
<1> QED  BY <1>1, <1>5, <1>6, <1>7, <1>8 DEF NewestOf

(* Of a sequence that is not longer, all of it.                            *)
LEMMA LastNAll ==
    ASSUME NEW T, NEW s \in Seq(T), NEW n \in Nat, Len(s) <= n
    PROVE  LastN(s, n) = s
<1>1. PICK m \in Nat : m = Len(s)
  OBVIOUS
<1>2. Min({n, m}) = m
  BY <1>1, MinIs
<1>3. LastN(s, n) = SubSeq(s, m - m + 1, m)
  BY <1>1, <1>2 DEF LastN
<1>4. m - m + 1 = 1
  OBVIOUS
<1> QED  BY <1>1, <1>3, <1>4, SubSeqFull

(* A deque that holds the newest entries of a sequence holds those of the  *)
(* longer one after an append.                                             *)
LEMMA PushLast ==
    ASSUME NEW T, NEW s \in Seq(T), NEW x \in T, NEW n \in Nat \ {0}
    PROVE  Push(LastN(s, n), x, n) = LastN(Append(s, x), n)
<1>1. PICK m \in Nat : m = Len(s)
  OBVIOUS
<1>2. /\ Append(s, x) \in Seq(T) /\ Len(Append(s, x)) = m + 1
      /\ Append(s, x)[m + 1] = x
      /\ \A i \in 1..m : Append(s, x)[i] = s[i]
  BY <1>1
<1> DEFINE t == Append(s, x)
           d == LastN(s, n)
           e == LastN(t, n)
           a == Append(d, x)
<1> HIDE DEF t
<1>3. CASE m < n
  <2>1. d = s
    BY <1>1, <1>3, LastNAll
  <2>2. e = t
    <3>1. t \in Seq(T) /\ n \in Nat /\ Len(t) <= n
      BY <1>2, <1>3 DEF t
    <3> QED  BY <3>1, LastNAll
  <2>3. Push(s, x, n) = t
    BY <1>1, <1>3 DEF Push, t
  <2> HIDE DEF d, e
  <2> QED  BY <2>1, <2>2, <2>3 DEF d, e, t
<1>4. CASE ~(m < n)
  <2>1. d \in Seq(T) /\ Len(d) = n /\ \A i \in 1..n : d[i] = s[m - n + i]
    <3>1. n \in Nat /\ n <= n /\ n <= Len(s)
      BY <1>1, <1>4
    <3>2. LastN(s, n) \in Seq(T) /\ NewestOf(LastN(s, n), s, n)
      BY <3>1, LastNIs
    <3> QED  BY <1>1, <3>2 DEF NewestOf
  <2>2. e \in Seq(T) /\ Len(e) = n /\ \A i \in 1..n : e[i] = t[(m + 1) - n + i]
    <3>1. n \in Nat /\ n <= n /\ n <= Len(t)
      BY <1>2, <1>4 DEF t
    <3>2. t \in Seq(T) /\ Len(t) = m + 1
      BY <1>2 DEF t
    <3>3. LastN(t, n) \in Seq(T) /\ NewestOf(LastN(t, n), t, n)
      BY <3>1, <3>2, LastNIs
    <3> QED  BY <3>2, <3>3 DEF NewestOf
  <2> HIDE DEF d, e
  <2>3. /\ a \in Seq(T) /\ Len(a) = n + 1 /\ a[n + 1] = x
        /\ \A i \in 1..n : a[i] = d[i]
    BY <2>1
  <2> HIDE DEF a
  <2>4. Push(d, x, n) = Tail(a)
    BY <2>1, <1>4 DEF Push, a
  <2>5. Tail(a) \in Seq(T) /\ Len(Tail(a)) = n /\ \A i \in 1..n : Tail(a)[i] = a[i + 1]
    BY <2>3, HeadTailProperties
  <2>6. \A i \in 1..n : a[i + 1] = e[i]
    <3> SUFFICES ASSUME NEW i \in 1..n PROVE a[i + 1] = e[i]
      OBVIOUS
    <3>1. CASE i = n
      <4>1. e[i] = t[m + 1]
        <5>1. (m + 1) - n + n = m + 1
          OBVIOUS
        <5> QED  BY <2>2, <3>1, <5>1
      <4> QED  BY <1>2, <2>3, <3>1, <4>1 DEF t
    <3>2. CASE i # n
      <4>1. i + 1 \in 1..n /\ (m + 1) - n + i \in 1..m /\ m - n + (i + 1) = (m + 1) - n + i
        BY <1>4, <3>2
      <4>2. a[i + 1] = s[m - n + (i + 1)] /\ t[(m + 1) - n + i] = s[(m + 1) - n + i]
        BY <1>2, <2>1, <2>3, <4>1 DEF t
      <4> QED  BY <2>2, <4>1, <4>2
    <3> QED  BY <3>1, <3>2
  <2> QED  BY <2>2, <2>4, <2>5, <2>6, SeqEqual DEF d, e, t
<1> QED  BY <1>3, <1>4
-----------------------------------------------------------------------------
(* The schedule of the model                                               *)

(* One step further, the remainder is one more, or 0 with the quotient one *)
(* more.                                                                   *)
LEMMA NextQuotient ==
    ASSUME NEW R \in Nat \ {0}, NEW t \in Nat
    PROVE  /\ t % R \in 0..(R - 1) /\ t \div R \in Nat
           /\ IF (t % R) + 1 = R
              THEN (t + 1) % R = 0 /\ (t + 1) \div R = t \div R + 1
              ELSE (t + 1) % R = (t % R) + 1 /\ (t + 1) \div R = t \div R
<1>1. PICK q \in Nat, r \in 0..(R - 1) : t = R * q + r /\ r = t % R /\ q = t \div R
  OBVIOUS
<1>2. PICK u \in Nat : u = R * q
  OBVIOUS
<1>3. \A a \in Nat, b \in 0..(R - 1) : (R * a + b) % R = b /\ (R * a + b) \div R = a
  OBVIOUS
<1>4. CASE r + 1 = R
  <2>1. R * (q + 1) + 0 = u + R
    BY <1>2
  <2>2. t + 1 = u + R
    <3>1. t = u + r
      BY <1>1, <1>2
    <3> QED  BY <1>4, <3>1
  <2>3. q + 1 \in Nat /\ 0 \in 0..(R - 1)
    OBVIOUS
  <2>4. (R * (q + 1) + 0) % R = 0 /\ (R * (q + 1) + 0) \div R = q + 1
    BY <1>3, <2>3
  <2>5. (t + 1) % R = 0 /\ (t + 1) \div R = q + 1
    BY <2>1, <2>2, <2>4
  <2> QED  BY <1>1, <1>4, <2>5
<1>5. CASE r + 1 # R
  <2>1. t + 1 = R * q + (r + 1) /\ r + 1 \in 0..(R - 1)
    BY <1>1, <1>5
  <2>2. (t + 1) % R = r + 1 /\ (t + 1) \div R = q
    BY <1>3, <2>1
  <2> QED  BY <1>1, <1>5, <2>2
<1> QED  BY <1>4, <1>5

(* The sizes of the schedule.                                              *)
LEMMA ScheduleSizes ==
    /\ WarmupEvents \in Nat \ {0} /\ RetrainInterval \in Nat \ {0}
    /\ TrainWindowSize \in Nat /\ MinTrainWindow \in Nat
    /\ Min({WarmupEvents, TrainWindowSize})
         = IF WarmupEvents <= TrainWindowSize THEN WarmupEvents ELSE TrainWindowSize
    /\ FirstRefit \in Nat \ {0}
    /\ FirstRefit >= RetrainInterval
    /\ FirstRefit >= MinTrainWindow - Min({WarmupEvents, TrainWindowSize})
    /\ \/ FirstRefit = RetrainInterval
       \/ FirstRefit = MinTrainWindow - Min({WarmupEvents, TrainWindowSize})
<1>1. /\ WarmupEvents \in Nat \ {0} /\ RetrainInterval \in Nat \ {0}
      /\ TrainWindowSize \in Nat /\ MinTrainWindow \in Nat
  BY SizesAssumption
<1>2. Min({WarmupEvents, TrainWindowSize})
        = IF WarmupEvents <= TrainWindowSize THEN WarmupEvents ELSE TrainWindowSize
  BY <1>1, MinIs
<1>3. PICK m \in Int : m = MinTrainWindow - Min({WarmupEvents, TrainWindowSize})
  BY <1>1, <1>2
<1>4. PICK r \in Nat \ {0} : r = RetrainInterval
  BY <1>1
<1>5. \E x \in {r, m} : \A y \in {r, m} : x >= y
  BY <1>3, <1>4
<1>6. FirstRefit \in {r, m} /\ \A y \in {r, m} : FirstRefit >= y
  BY <1>3, <1>4, <1>5 DEF FirstRefit, Max
<1> QED  BY <1>1, <1>2, <1>3, <1>4, <1>6

(* Warming up takes WarmupEvents events, and ends with the first model.    *)
LEMMA WarmUpKeepsSchedule ==
    ASSUME NEW state \in HostModelState, NEW n \in Nat, WarmingUp(state, n)
    PROVE  OnSchedule(WarmUp(state), n + 1)
<1>1. /\ n < WarmupEvents /\ ~state.is_warmed_up /\ state.warmup_features = n
      /\ state.events_since_fit = n /\ state.model_version = 0
  BY DEF WarmingUp
<1>2. /\ WarmupEvents \in Nat \ {0} /\ RetrainInterval \in Nat \ {0}
      /\ TrainWindowSize \in Nat /\ FirstRefit \in Nat \ {0}
  BY ScheduleSizes
<1> DEFINE next == WarmUp(state)
<1>3. CASE n + 1 >= WarmupEvents
  <2>1. n + 1 = WarmupEvents
    BY <1>1, <1>2, <1>3
  <2>2. /\ next.is_warmed_up
        /\ next.train_window = Min({WarmupEvents, TrainWindowSize})
        /\ next.model_version = 1 /\ next.events_since_fit = 0
    <3> DEFINE window == Min({state.warmup_features + 1, TrainWindowSize})
    <3>1. window = Min({WarmupEvents, TrainWindowSize})
      BY <1>1, <2>1
    <3> HIDE DEF window
    <3>2. next = [state EXCEPT !.model_version = @ + 1, !.train_window = window,
                               !.is_warmed_up = TRUE, !.warmup_features = 0,
                               !.events_since_fit = 0]
      BY <1>1, <1>3 DEF WarmUp, WarmupDone, window
    <3> HIDE DEF next
    <3>3. /\ next.is_warmed_up = TRUE /\ next.train_window = window
          /\ next.model_version = state.model_version + 1 /\ next.events_since_fit = 0
      BY <3>2 DEF HostModelState
    <3> QED  BY <1>1, <3>1, <3>3
  <2> HIDE DEF next
  <2>3. Min({Min({WarmupEvents, TrainWindowSize}) + 0, TrainWindowSize})
          = Min({WarmupEvents, TrainWindowSize})
    <3>1. PICK a \in Nat : a = Min({WarmupEvents, TrainWindowSize}) /\ a <= TrainWindowSize
      BY <1>2, ScheduleSizes
    <3>2. Min({a, TrainWindowSize}) = a
      BY <1>2, <3>1, MinIs
    <3> QED  BY <3>1, <3>2
  <2>4. Fitted(next, 0)
    BY <1>2, <2>2, <2>3 DEF Fitted
  <2>5. (n + 1) - WarmupEvents = 0 /\ n + 1 >= WarmupEvents
    BY <1>2, <2>1
  <2> QED  BY <2>4, <2>5 DEF OnSchedule, next
<1>4. CASE ~(n + 1 >= WarmupEvents)
  <2>1. /\ next.is_warmed_up = state.is_warmed_up
        /\ next.warmup_features = n + 1 /\ next.events_since_fit = n + 1
        /\ next.model_version = 0
    BY <1>1, <1>4 DEF WarmUp, WarmupDone, HostModelState
  <2> HIDE DEF next
  <2>2. n + 1 < WarmupEvents
    BY <1>2, <1>4
  <2>3. WarmingUp(next, n + 1)
    BY <1>1, <2>1, <2>2 DEF WarmingUp
  <2> QED  BY <2>3 DEF OnSchedule, next
<1> QED  BY <1>3, <1>4

(* A scored event: the window slides, and the model is fitted again when   *)
(* the interval has passed and the window is large enough.                 *)
LEMMA TrainKeepsSchedule ==
    ASSUME NEW state \in HostModelState, NEW k \in Nat, Fitted(state, k)
    PROVE  Fitted(Train(state), k + 1)
<1>1. PICK F \in Nat \ {0}, R \in Nat \ {0}, a \in Nat, M \in Nat, T \in Nat :
        /\ F = FirstRefit /\ R = RetrainInterval
        /\ a = Min({WarmupEvents, TrainWindowSize})
        /\ M = MinTrainWindow /\ T = TrainWindowSize
        /\ F >= R /\ F >= M - a /\ (F = R \/ F = M - a)
  BY ScheduleSizes
<1> DEFINE window == Min({state.train_window + 1, TrainWindowSize})
           refit  == RefitDue(state, window)
           next   == Train(state)
<1>2. state.is_warmed_up /\ state.train_window = Min({a + k, T})
  BY <1>1 DEF Fitted
<1>3. /\ IF M > T \/ k < F
         THEN state.model_version = 1 /\ state.events_since_fit = k
         ELSE /\ state.model_version = 2 + (k - F) \div R
              /\ state.events_since_fit = (k - F) % R
  BY <1>1 DEF Fitted
<1>4. window = IF a + k + 1 <= T THEN a + k + 1 ELSE T
  <2>1. state.train_window = IF a + k <= T THEN a + k ELSE T
    BY <1>2, MinIs
  <2>2. PICK w \in Nat : w = state.train_window + 1
    BY <2>1
  <2>3. window = IF w <= T THEN w ELSE T
    BY <1>1, <2>2, MinIs
  <2> HIDE DEF window
  <2> QED  BY <2>1, <2>2, <2>3
<1>5. window = Min({a + (k + 1), T})
  <2>1. PICK w \in Nat : w = a + (k + 1)
    OBVIOUS
  <2>2. Min({w, T}) = IF w <= T THEN w ELSE T
    BY MinIs
  <2> HIDE DEF window
  <2> QED  BY <1>4, <2>1, <2>2
<1>6. refit <=> state.events_since_fit + 1 >= R /\ window >= M
  BY <1>1 DEF RefitDue
<1> HIDE DEF window, refit
<1>7. next = [state EXCEPT !.train_window = window,
                           !.events_since_fit = IF refit THEN 0 ELSE @ + 1,
                           !.model_version = IF refit THEN @ + 1 ELSE @]
  BY DEF Train, window, refit
<1> HIDE DEF next
<1>8. /\ next.is_warmed_up /\ next.train_window = window
      /\ next.events_since_fit = IF refit THEN 0 ELSE state.events_since_fit + 1
      /\ next.model_version = IF refit THEN state.model_version + 1 ELSE state.model_version
  BY <1>2, <1>7 DEF HostModelState
<1>9. IF M > T \/ k + 1 < F
      THEN next.model_version = 1 /\ next.events_since_fit = k + 1
      ELSE /\ next.model_version = 2 + ((k + 1) - F) \div R
           /\ next.events_since_fit = ((k + 1) - F) % R
  <2>1. CASE M > T \/ k + 1 < F
    <3>1. state.model_version = 1 /\ state.events_since_fit = k
      BY <1>3, <2>1
    <3>2. ~refit
      BY <1>1, <1>4, <1>6, <2>1, <3>1
    <3> QED  BY <1>8, <2>1, <3>1, <3>2
  <2>2. CASE ~(M > T) /\ k + 1 = F
    <3>1. state.model_version = 1 /\ state.events_since_fit = k
      BY <1>3, <2>2
    <3>2. refit
      BY <1>1, <1>4, <1>6, <2>2, <3>1
    <3>3. (k + 1) - F = 0 /\ 0 % R = 0 /\ 0 \div R = 0
      BY <2>2
    <3>4. next.model_version = 2 /\ next.events_since_fit = 0
      BY <1>8, <3>1, <3>2
    <3> QED  BY <2>2, <3>3, <3>4
  <2>3. CASE ~(M > T) /\ k >= F
    <3>1. PICK t \in Nat : t = k - F /\ (k + 1) - F = t + 1
      BY <2>3
    <3>2. PICK q \in Nat, r \in 0..(R - 1) :
            /\ q = t \div R /\ r = t % R
            /\ IF r + 1 = R THEN (t + 1) % R = 0 /\ (t + 1) \div R = q + 1
                            ELSE (t + 1) % R = r + 1 /\ (t + 1) \div R = q
      <4>1. /\ t % R \in 0..(R - 1) /\ t \div R \in Nat
            /\ IF (t % R) + 1 = R
               THEN (t + 1) % R = 0 /\ (t + 1) \div R = t \div R + 1
               ELSE (t + 1) % R = (t % R) + 1 /\ (t + 1) \div R = t \div R
        BY NextQuotient
      <4> QED  BY <4>1, Zenon
    <3>3. state.model_version = 2 + q /\ state.events_since_fit = r
      <4>1. ~(M > T \/ k < F)
        BY <2>3
      <4> QED  BY <1>3, <3>1, <3>2, <4>1
    <3>4. refit <=> r + 1 = R
      BY <1>1, <1>4, <1>6, <2>3, <3>3
    <3>5. PICK q1 \in Nat, r1 \in Nat : q1 = (t + 1) \div R /\ r1 = (t + 1) % R
      BY <3>2
    <3>6. next.model_version = 2 + q1 /\ next.events_since_fit = r1
      BY <1>8, <3>2, <3>3, <3>4, <3>5
    <3>7. ~(M > T \/ k + 1 < F)
      BY <2>3
    <3> QED  BY <3>1, <3>5, <3>6, <3>7
  <2> QED  BY <2>1, <2>2, <2>3
<1> QED  BY <1>1, <1>5, <1>8, <1>9 DEF Fitted, next
-----------------------------------------------------------------------------
(* One event                                                               *)

(* The events scored are those after the warm-up.                          *)
LEMMA ScoredIs ==
    ASSUME NEW s \in Seq(Nat), NEW W \in Nat, NEW k \in Nat,
           (Len(s) >= W /\ k = Len(s) - W) \/ (Len(s) < W /\ k = 0)
    PROVE  /\ SubSeq(s, W + 1, Len(s)) \in Seq(Nat)
           /\ Len(SubSeq(s, W + 1, Len(s))) = k
           /\ \A i \in 1..k : SubSeq(s, W + 1, Len(s))[i] = s[W + i]
<1>1. PICK m \in Nat : m = Len(s)
  OBVIOUS
<1>2. PICK l \in Int : l = W + 1
  OBVIOUS
<1>3. \A i \in l..m : s[i] \in Nat
  BY <1>1, <1>2, ElementOfSeq
<1> DEFINE d == SubSeq(s, l, m)
<1>4. /\ d \in Seq(Nat)
      /\ Len(d) = IF l <= m THEN m - l + 1 ELSE 0
      /\ \A i \in 1..(m - l + 1) : d[i] = s[l + i - 1]
  BY <1>1, <1>3, SubSeqProperties
<1>5. SubSeq(s, W + 1, Len(s)) = d
  BY <1>1, <1>2
<1> HIDE DEF d
<1>6. Len(d) = k
  BY <1>1, <1>2, <1>4
<1>7. \A i \in 1..k : i \in 1..(m - l + 1) /\ l + i - 1 = W + i
  BY <1>1, <1>2
<1> QED  BY <1>4, <1>5, <1>6, <1>7

(* How many of n events have been scored.                                  *)
ScoredOf(n) == IF n >= WarmupEvents THEN n - WarmupEvents ELSE 0

(* The same, said of the pair of unbounded deques.                         *)
LEMMA OnePerScoredIs ==
    ASSUME NEW s \in Seq(Nat), NEW scores, NEW points, NEW log
    PROVE  OnePerScored(s, scores, points, log) <=>
              /\ Len(scores) = ScoredOf(Len(s))
              /\ Len(points) = ScoredOf(Len(s))
              /\ \A i \in 1..ScoredOf(Len(s)) :
                    /\ points[i].ts = log[s[WarmupEvents + i]].ts
                    /\ points[i].score = scores[i]
<1>1. WarmupEvents \in Nat
  BY SizesAssumption
<1> DEFINE k == ScoredOf(Len(s))
<1>4. /\ k \in Nat
      /\ (Len(s) >= WarmupEvents /\ k = Len(s) - WarmupEvents)
           \/ (Len(s) < WarmupEvents /\ k = 0)
  BY <1>1 DEF ScoredOf
<1> HIDE DEF k
<1> DEFINE scored == SubSeq(s, WarmupEvents + 1, Len(s))
<1>2. Len(scored) = k /\ \A i \in 1..k : scored[i] = s[WarmupEvents + i]
  BY <1>1, <1>4, ScoredIs
<1>3. OnePerScored(s, scores, points, log) <=>
         /\ Len(scores) = Len(scored)
         /\ Len(points) = Len(scored)
         /\ \A i \in 1..Len(points) :
               /\ points[i].ts = log[scored[i]].ts
               /\ points[i].score = scores[i]
  BY DEF OnePerScored
<1> HIDE DEF scored
<1> QED  BY <1>2, <1>3 DEF k

(* An event of the warm-up.                                                *)
LEMMA WarmUpRemembers ==
    ASSUME NEW state \in HostModelState, NEW log, NEW o \in Nat,
           NEW seen \in Seq(Nat), NEW scores \in Seq(Nat), NEW points \in Seq(Point),
           Remembers(state, seen, scores, points, log), ~state.is_warmed_up
    PROVE  Remembers(WarmUp(ComputeFeatureVector(state, o)), Append(seen, o),
                     scores, points, log)
<1>1. WarmupEvents \in Nat \ {0} /\ RollingWindow \in Nat \ {0}
  BY SizesAssumption
<1>2. PICK n \in Nat : n = Len(seen)
  OBVIOUS
<1> DEFINE more  == Append(seen, o)
           vector == ComputeFeatureVector(state, o)
           next  == WarmUp(vector)
<1>3. more \in Seq(Nat) /\ Len(more) = n + 1
  BY <1>2
<1>4. WarmingUp(state, n)
  BY <1>2 DEF Remembers, OnSchedule, Fitted
<1>5. n < WarmupEvents
  BY <1>4 DEF WarmingUp
<1>6. vector \in HostModelState
  BY ComputeFeatureVectorType
<1>7. /\ vector.raw_buffer = Push(state.raw_buffer, o, RollingWindow)
      /\ vector.score_history = state.score_history
      /\ vector.trend_window = state.trend_window
      /\ WarmingUp(vector, n)
  BY <1>4 DEF ComputeFeatureVector, HostModelState, WarmingUp
<1>8. OnePerScored(more, scores, points, log)
  <2>1. OnePerScored(seen, scores, points, log)
    BY DEF Remembers
  <2>2. ScoredOf(Len(seen)) = 0 /\ ScoredOf(Len(more)) = 0
    BY <1>1, <1>2, <1>3, <1>5 DEF ScoredOf
  <2> HIDE DEF more
  <2>3. Len(scores) = 0 /\ Len(points) = 0
    BY <2>1, <2>2, OnePerScoredIs
  <2>4. \A i \in 1..0 : points[i].ts = log[more[WarmupEvents + i]].ts /\ points[i].score = scores[i]
    OBVIOUS
  <2> QED  BY <1>3, <2>2, <2>3, <2>4, OnePerScoredIs
<1> HIDE DEF vector
<1>9. /\ next.raw_buffer = vector.raw_buffer
      /\ next.score_history = vector.score_history
      /\ next.trend_window = vector.trend_window
  BY <1>6 DEF WarmUp, HostModelState
<1>10. OnSchedule(next, n + 1)
  BY <1>6, <1>7, WarmUpKeepsSchedule
<1> HIDE DEF next
<1>11. DequesHold(next, more, scores, points)
  <2>1. DequesHold(state, seen, scores, points)
    BY DEF Remembers
  <2>2. Push(LastN(seen, RollingWindow), o, RollingWindow) = LastN(more, RollingWindow)
    BY <1>1, PushLast
  <2> QED  BY <1>7, <1>9, <2>1, <2>2 DEF DequesHold
<1> QED  BY <1>3, <1>8, <1>10, <1>11 DEF Remembers, next, vector

(* An event that is scored.                                                *)
LEMMA ScoreRemembers ==
    ASSUME NEW state \in HostModelState, NEW log, NEW o \in Nat,
           NEW seen \in Seq(Nat), NEW scores \in Seq(Nat), NEW points \in Seq(Point),
           Remembers(state, seen, scores, points, log), state.is_warmed_up,
           NEW raw_score \in Nat, NEW now \in Nat, log[o].ts = now
    PROVE  Remembers(RecordScore(Train(ComputeFeatureVector(state, o)), raw_score, now),
                     Append(seen, o), Append(scores, raw_score),
                     Append(points, [ts |-> now, score |-> raw_score]), log)
<1>1. /\ WarmupEvents \in Nat \ {0} /\ RollingWindow \in Nat \ {0}
      /\ HistorySize \in Nat \ {0} /\ TrendWindowSize \in Nat \ {0}
  BY SizesAssumption
<1>2. PICK n \in Nat : n = Len(seen)
  OBVIOUS
<1> DEFINE more   == Append(seen, o)
           point  == [ts |-> now, score |-> raw_score]
           allScores == Append(scores, raw_score)
           allPoints == Append(points, point)
           vector == ComputeFeatureVector(state, o)
           model  == Train(vector)
           next   == RecordScore(model, raw_score, now)
<1>3. /\ more \in Seq(Nat) /\ Len(more) = n + 1 /\ more[n + 1] = o
      /\ \A i \in 1..n : more[i] = seen[i]
  BY <1>2
<1>4. n >= WarmupEvents /\ Fitted(state, n - WarmupEvents)
  BY <1>2 DEF Remembers, OnSchedule, WarmingUp
<1>5. PICK k \in Nat : k = n - WarmupEvents /\ n + 1 = WarmupEvents + (k + 1)
  BY <1>1, <1>4
<1>6. point \in Point
  BY DEF Point
<1>7. vector \in HostModelState
  BY ComputeFeatureVectorType
<1>8. /\ vector.raw_buffer = Push(state.raw_buffer, o, RollingWindow)
      /\ vector.score_history = state.score_history
      /\ vector.trend_window = state.trend_window
      /\ Fitted(vector, k)
  BY <1>4, <1>5 DEF ComputeFeatureVector, HostModelState, Fitted
<1> HIDE DEF vector
<1>9. model \in HostModelState /\ Fitted(model, k + 1)
  BY <1>7, <1>8, TrainType, TrainKeepsSchedule
<1>10. /\ model.raw_buffer = vector.raw_buffer
       /\ model.score_history = vector.score_history
       /\ model.trend_window = vector.trend_window
  BY <1>7 DEF Train, HostModelState
<1> HIDE DEF model
<1>11. /\ next.raw_buffer = model.raw_buffer
       /\ next.score_history = Push(model.score_history, raw_score, HistorySize)
       /\ next.trend_window = Push(model.trend_window, point, TrendWindowSize)
       /\ Fitted(next, k + 1)
  BY <1>9 DEF RecordScore, HostModelState, Fitted
<1> HIDE DEF next
<1>12. DequesHold(next, more, allScores, allPoints)
  <2>1. DequesHold(state, seen, scores, points)
    BY DEF Remembers
  <2>2. Push(LastN(seen, RollingWindow), o, RollingWindow) = LastN(more, RollingWindow)
    BY <1>1, PushLast
  <2>3. Push(LastN(scores, HistorySize), raw_score, HistorySize) = LastN(allScores, HistorySize)
    BY <1>1, PushLast
  <2> HIDE DEF point
  <2>4. Push(LastN(points, TrendWindowSize), point, TrendWindowSize)
           = LastN(allPoints, TrendWindowSize)
    BY <1>1, <1>6, PushLast
  <2> QED  BY <1>8, <1>10, <1>11, <2>1, <2>2, <2>3, <2>4 DEF DequesHold
<1>13. OnePerScored(more, allScores, allPoints, log)
  <2>1. OnePerScored(seen, scores, points, log)
    BY DEF Remembers
  <2>2. ScoredOf(Len(seen)) = k /\ ScoredOf(Len(more)) = k + 1
    BY <1>1, <1>2, <1>3, <1>4, <1>5 DEF ScoredOf
  <2> HIDE DEF more, point
  <2>3. /\ Len(scores) = k /\ Len(points) = k
        /\ \A i \in 1..k :
              /\ points[i].ts = log[seen[WarmupEvents + i]].ts
              /\ points[i].score = scores[i]
    BY <2>1, <2>2, OnePerScoredIs
  <2>4. /\ Len(allScores) = k + 1 /\ allScores[k + 1] = raw_score
        /\ \A i \in 1..k : allScores[i] = scores[i]
    BY <2>3
  <2>5. /\ Len(allPoints) = k + 1 /\ allPoints[k + 1] = point
        /\ \A i \in 1..k : allPoints[i] = points[i]
    BY <1>6, <2>3
  <2>6. ASSUME NEW i \in 1..(k + 1)
        PROVE  /\ allPoints[i].ts = log[more[WarmupEvents + i]].ts
               /\ allPoints[i].score = allScores[i]
    <3> HIDE DEF allPoints, allScores
    <3>1. CASE i = k + 1
      <4>1. more[WarmupEvents + i] = o
        BY <1>3, <1>5, <3>1
      <4>2. point.ts = now /\ point.score = raw_score
        BY DEF point
      <4> QED  BY <2>4, <2>5, <3>1, <4>1, <4>2
    <3>2. CASE i # k + 1
      <4>1. i \in 1..k /\ WarmupEvents + i \in 1..n
        BY <1>1, <1>5, <3>2
      <4> QED  BY <1>3, <2>3, <2>4, <2>5, <4>1
    <3> QED  BY <3>1, <3>2
  <2> HIDE DEF allPoints, allScores
  <2>7. /\ Len(allScores) = ScoredOf(Len(more))
        /\ Len(allPoints) = ScoredOf(Len(more))
        /\ \A i \in 1..ScoredOf(Len(more)) :
              /\ allPoints[i].ts = log[more[WarmupEvents + i]].ts
              /\ allPoints[i].score = allScores[i]
    BY <2>2, <2>4, <2>5, <2>6, Zenon
  <2> QED  BY <1>3, <2>7, OnePerScoredIs
<1>14. OnSchedule(next, n + 1)
  <2>1. n + 1 >= WarmupEvents /\ (n + 1) - WarmupEvents = k + 1
    BY <1>1, <1>4, <1>5
  <2> QED  BY <1>11, <2>1 DEF OnSchedule
<1> QED  BY <1>3, <1>12, <1>13, <1>14 DEF Remembers, next, model, vector
-----------------------------------------------------------------------------
(* One step                                                                *)

(* A cooldown clock is no part of what is remembered.                      *)
LEMMA ClocksAside ==
    ASSUME NEW state, NEW next, NEW seen, NEW scores, NEW points, NEW log,
           Remembers(state, seen, scores, points, log),
           next.raw_buffer = state.raw_buffer, next.score_history = state.score_history,
           next.trend_window = state.trend_window, next.is_warmed_up = state.is_warmed_up,
           next.warmup_features = state.warmup_features,
           next.events_since_fit = state.events_since_fit,
           next.model_version = state.model_version, next.train_window = state.train_window
    PROVE  Remembers(next, seen, scores, points, log)
<1>1. DequesHold(next, seen, scores, points)
  BY DEF Remembers, DequesHold
<1>2. OnSchedule(next, Len(seen))
  <2>1. CASE WarmingUp(state, Len(seen))
    BY <2>1 DEF WarmingUp, OnSchedule
  <2>2. CASE Len(seen) >= WarmupEvents /\ Fitted(state, Len(seen) - WarmupEvents)
    <3> DEFINE k == Len(seen) - WarmupEvents
    <3> HIDE DEF k
    <3>1. Fitted(next, k)
      <4>1. Fitted(state, k)
        BY <2>2 DEF k
      <4> QED  BY <4>1 DEF Fitted
    <3> QED  BY <2>2, <3>1 DEF OnSchedule, k
  <2> QED  BY <2>1, <2>2 DEF Remembers, OnSchedule
<1> QED  BY <1>1, <1>2 DEF Remembers

(* A host that has not been heard of in this life.                         *)
LEMMA FreshRemembers ==
    ASSUME NEW log
    PROVE  Remembers(FreshState, <<>>, <<>>, <<>>, log)
<1>1. WarmupEvents \in Nat \ {0} /\ RollingWindow \in Nat /\ HistorySize \in Nat
      /\ TrendWindowSize \in Nat
  BY SizesAssumption
<1>2. <<>> \in Seq(Nat) /\ Len(<<>>) = 0
  OBVIOUS
<1>3. /\ LastN(<<>>, RollingWindow) = <<>> /\ LastN(<<>>, HistorySize) = <<>>
      /\ LastN(<<>>, TrendWindowSize) = <<>>
  <2>1. \A n \in Nat : Len(<<>>) <= n
    OBVIOUS
  <2> QED  BY <1>1, <1>2, <2>1, LastNAll
<1>4. DequesHold(FreshState, <<>>, <<>>, <<>>)
  BY <1>3 DEF DequesHold, FreshState
<1>5. OnSchedule(FreshState, 0)
  BY <1>1 DEF OnSchedule, WarmingUp, FreshState
<1>6. OnePerScored(<<>>, <<>>, <<>>, log)
  <2>1. ScoredOf(Len(<<>>)) = 0
    BY <1>1, <1>2 DEF ScoredOf
  <2>2. /\ Len(<<>>) = ScoredOf(Len(<<>>))
        /\ \A i \in 1..ScoredOf(Len(<<>>)) :
              /\ <<>>[i].ts = log[<<>>[WarmupEvents + i]].ts
              /\ <<>>[i].score = <<>>[i]
    BY <1>2, <2>1
  <2> QED  BY <1>2, <2>2, OnePerScoredIs, Zenon
<1> QED  BY <1>2, <1>4, <1>5, <1>6 DEF Remembers

(* A poll adds an offset to those of its host, the newest.                 *)
LEMMA SeenMore ==
    ASSUME TypeOK, NEW p \in Partitions, PollEvent(p), resumed[p] <= position[p],
           NEW o \in Nat, o = position[p] + 1
    PROVE  /\ telemetry[p][o].host \in Hosts /\ telemetry[p][o].ts \in Nat
           /\ PartitionOf[telemetry[p][o].host] = p
           /\ \A q \in SeenOffsets(telemetry[p][o].host) : q < o
           /\ \A h \in Hosts :
                 SeenOffsets(h)' = IF h = telemetry[p][o].host
                                   THEN SeenOffsets(h) \cup {o}
                                   ELSE SeenOffsets(h)
<1>1. /\ telemetry \in TelemetryLogs /\ telemetry[p] \in Seq(Event)
      /\ position \in [Partitions -> Nat] /\ resumed \in [Partitions -> Nat]
      /\ position[p] < Len(telemetry[p])
  BY TelemetryAssumption DEF TypeOK, PollEvent
<1>2. o \in DOMAIN telemetry[p]
  BY <1>1
<1>3. telemetry[p][o] \in Event
  BY <1>1, <1>2, ElementOfSeq
<1> DEFINE host == telemetry[p][o].host
<1>4. host \in Hosts /\ telemetry[p][o].ts \in Nat /\ PartitionOf[host] = p
  BY <1>1, <1>2, <1>3, TelemetryAssumption DEF Event
<1>5. /\ position' = [position EXCEPT ![p] = o]
      /\ UNCHANGED <<telemetry, resumed>>
  BY <1>1 DEF PollEvent, log_vars
<1>6. \A q \in SeenOffsets(host) : q < o
  BY <1>1, <1>4 DEF SeenOffsets
<1>7. ASSUME NEW h \in Hosts
      PROVE  SeenOffsets(h)' = IF h = host THEN SeenOffsets(h) \cup {o} ELSE SeenOffsets(h)
  <2>1. PICK g \in Partitions : g = PartitionOf[h]
    BY PartitionAssumption
  <2>2. /\ SeenOffsets(h) = {q \in (resumed[g] + 1)..position[g] : telemetry[g][q].host = h}
        /\ SeenOffsets(h)' = {q \in (resumed[g] + 1)..position'[g] : telemetry[g][q].host = h}
    BY <1>5, <2>1 DEF SeenOffsets
  <2>3. CASE g # p
    BY <1>1, <1>4, <1>5, <2>1, <2>2, <2>3
  <2>4. CASE g = p
    <3>1. (resumed[p] + 1)..position'[p] = ((resumed[p] + 1)..position[p]) \cup {o}
      BY <1>1, <1>5
    <3> HIDE DEF host
    <3>2. telemetry[p][o].host = host
      BY DEF host
    <3> QED  BY <2>2, <2>4, <3>1, <3>2
  <2> QED  BY <2>3, <2>4
<1> QED  BY <1>4, <1>6, <1>7

(* A step that leaves a host's deques and the log alone.                   *)
LEMMA OthersRemember ==
    ASSUME NEW h, RemembersLog(h), states'[h] = states[h], telemetry' = telemetry,
           SeenOffsets(h)' = SeenOffsets(h)
    PROVE  RemembersLog(h)'
BY DEF RemembersLog

(* The host whose event is polled remembers it.                            *)
LEMMA PollRemembers ==
    ASSUME TypeOK, LogIsRemembered, rejoins = 0, Consume
    PROVE  \A h \in Hosts : RemembersLog(h)'
<1>1. PICK p \in Partitions : ConsumeWarmup(p) \/ ConsumeScored(p)
  BY DEF Consume
<1>2. PollEvent(p)
  BY <1>1 DEF ConsumeWarmup, ConsumeScored
<1>3. PICK o \in Nat : o = position[p] + 1
  BY DEF TypeOK
<1> DEFINE log == telemetry[p]
<1>4. PICK host \in Hosts, now \in Nat :
        /\ host = telemetry[p][o].host /\ now = telemetry[p][o].ts
        /\ log = telemetry[PartitionOf[host]]
        /\ \A q \in SeenOffsets(host) : q < o
        /\ \A h \in Hosts : SeenOffsets(h)' = IF h = host THEN SeenOffsets(h) \cup {o}
                                                          ELSE SeenOffsets(h)
  <2>1. resumed[p] <= position[p]
    BY DEF LogIsRemembered
  <2> QED  BY <1>2, <1>3, <2>1, SeenMore
<1>5. telemetry' = telemetry
  BY <1>2 DEF PollEvent, log_vars
<1> DEFINE state  == states[host]
           vector == ComputeFeatureVector(state, o)
<1>6. /\ state \in HostModelState /\ vector \in HostModelState
      /\ vector.is_warmed_up = state.is_warmed_up
  <2>1. state \in HostModelState
    BY DEF TypeOK
  <2>2. vector \in HostModelState
    BY <2>1, ComputeFeatureVectorType
  <2> QED  BY <2>1, <2>2 DEF ComputeFeatureVector, HostModelState
<1>7. PICK seen \in Seq(Nat), scores \in Seq(Nat), points \in Seq(Point) :
        /\ Lists(seen, SeenOffsets(host))
        /\ Remembers(state, seen, scores, points, log)
  BY <1>4 DEF LogIsRemembered, RemembersLog
<1>8. Append(seen, o) \in Seq(Nat) /\ Lists(Append(seen, o), SeenOffsets(host)')
  <2>1. PICK S : S = SeenOffsets(host)
    OBVIOUS
  <2>2. SeenOffsets(host)' = S \cup {o} /\ \A q \in S : q < o
    BY <1>4, <2>1
  <2>3. Append(seen, o) \in Seq(Nat) /\ Lists(Append(seen, o), S \cup {o})
    BY <1>7, <2>1, <2>2, ListsMore
  <2> QED  BY <2>2, <2>3
<1>9. \E next :
        /\ states' = [states EXCEPT ![host] = next]
        /\ \E allScores \in Seq(Nat), allPoints \in Seq(Point) :
              Remembers(next, Append(seen, o), allScores, allPoints, log)
  <2>1. CASE ConsumeWarmup(p)
    <3>1. /\ ~vector.is_warmed_up
          /\ states' = [states EXCEPT ![host] = WarmUp(vector)]
      BY <1>3, <1>4, <2>1 DEF ConsumeWarmup
    <3> HIDE DEF vector
    <3>2. Remembers(WarmUp(vector), Append(seen, o), scores, points, log)
      <4>1. ~state.is_warmed_up
        BY <1>6, <3>1
      <4> QED  BY <1>6, <1>7, <4>1, WarmUpRemembers DEF vector
    <3> QED  BY <3>1, <3>2
  <2>2. CASE ConsumeScored(p)
    <3>1. PICK raw_score \in Scores :
             LET scored  == RecordScore(Train(vector), raw_score, now)
             IN  /\ vector.is_warmed_up
                 /\ states' = [states EXCEPT ![host] =
                       IF ShouldPublishAlert(scored, now)
                       THEN [scored EXCEPT !.last_alert_time = now] ELSE scored]
      BY <1>3, <1>4, <2>2, Zenon DEF ConsumeScored, AlertArmed
    <3> DEFINE scored == RecordScore(Train(vector), raw_score, now)
               next   == IF ShouldPublishAlert(scored, now)
                         THEN [scored EXCEPT !.last_alert_time = now] ELSE scored
               allScores == Append(scores, raw_score)
               allPoints == Append(points, [ts |-> now, score |-> raw_score])
    <3>2. raw_score \in Nat
      BY ScoresAssumption
    <3>3. scored \in HostModelState
      <4> HIDE DEF vector
      <4>1. Train(vector) \in HostModelState
        BY <1>6, TrainType
      <4> QED  BY <3>2, <4>1, RecordScoreType
    <3>4. Remembers(scored, Append(seen, o), allScores, allPoints, log)
      <4>1. state.is_warmed_up /\ log[o].ts = now
        BY <1>4, <1>6, <3>1
      <4> HIDE DEF state
      <4> QED  BY <1>6, <1>7, <3>2, <4>1, ScoreRemembers
    <3>5. allScores \in Seq(Nat) /\ allPoints \in Seq(Point)
      <4>1. [ts |-> now, score |-> raw_score] \in Point
        BY <3>2 DEF Point
      <4> QED  BY <3>2, <4>1
    <3>6. states' = [states EXCEPT ![host] = next]
      BY <3>1
    <3> HIDE DEF scored, allScores, allPoints
    <3>7. /\ next.raw_buffer = scored.raw_buffer /\ next.score_history = scored.score_history
          /\ next.trend_window = scored.trend_window /\ next.is_warmed_up = scored.is_warmed_up
          /\ next.warmup_features = scored.warmup_features
          /\ next.events_since_fit = scored.events_since_fit
          /\ next.model_version = scored.model_version
          /\ next.train_window = scored.train_window
      BY <3>3 DEF HostModelState
    <3> HIDE DEF next
    <3>8. Remembers(next, Append(seen, o), allScores, allPoints, log)
      BY <3>4, <3>7, ClocksAside
    <3> QED  BY <3>5, <3>6, <3>8
  <2> QED  BY <1>1, <2>1, <2>2
<1>10. PICK next :
        /\ states' = [states EXCEPT ![host] = next]
        /\ \E allScores \in Seq(Nat), allPoints \in Seq(Point) :
              Remembers(next, Append(seen, o), allScores, allPoints, log)
  BY <1>9
<1> HIDE DEF state, vector
<1>11. states'[host] = next /\ \A h \in Hosts \ {host} : states'[h] = states[h]
  BY <1>10 DEF TypeOK
<1>12. RemembersLog(host)'
  <2>1. log = telemetry[PartitionOf[host]]' /\ next = states[host]'
    BY <1>4, <1>5, <1>11
  <2>2. PICK allScores \in Seq(Nat), allPoints \in Seq(Point) :
           Remembers(next, Append(seen, o), allScores, allPoints, log)
    BY <1>10
  <2>3. /\ Lists(Append(seen, o), SeenOffsets(host)')
        /\ Remembers(states[host]', Append(seen, o), allScores, allPoints,
                     telemetry[PartitionOf[host]]')
    BY <1>8, <2>1, <2>2
  <2> QED  BY <1>8, <2>3 DEF RemembersLog
<1>13. ASSUME NEW h \in Hosts \ {host} PROVE RemembersLog(h)'
  BY <1>4, <1>5, <1>11, OthersRemember DEF LogIsRemembered
<1> QED  BY <1>12, <1>13

LEMMA RememberedInit == Init => LogIsRemembered
<1> SUFFICES ASSUME Init PROVE LogIsRemembered
  OBVIOUS
<1>1. \A p \in Partitions : resumed[p] = 0 /\ position[p] = 0
  BY DEF Init
<1>2. ASSUME NEW h \in Hosts PROVE RemembersLog(h)
  <2>1. SeenOffsets(h) = {}
    BY <1>1, PartitionAssumption DEF SeenOffsets
  <2>2. states[h] = FreshState
    BY DEF Init
  <2>3. Remembers(states[h], <<>>, <<>>, <<>>, telemetry[PartitionOf[h]])
    BY <2>2, FreshRemembers
  <2>4. Lists(<<>>, {})
    BY DEF Lists
  <2>5. <<>> \in Seq(Nat) /\ <<>> \in Seq(Point)
    OBVIOUS
  <2> QED  BY <2>1, <2>3, <2>4, <2>5, Zenon DEF RemembersLog
<1> QED  BY <1>1, <1>2 DEF LogIsRemembered

LEMMA RememberedStep ==
    ASSUME TypeOK, LogIsRemembered, [Next]_vars
    PROVE  LogIsRemembered'
<1> SUFFICES ASSUME rejoins' = 0
             PROVE  /\ \A p \in Partitions : resumed'[p] <= position'[p]
                    /\ \A h \in Hosts : RemembersLog(h)'
  BY DEF LogIsRemembered
<1>1. ~Rejoin /\ rejoins = 0
  <2>1. rejoins \in Nat
    BY BoundsAssumption DEF TypeOK
  <2>2. ~Rejoin
    BY <2>1 DEF Rejoin
  <2> QED  BY <2>2 DEF Next, Consume, ConsumeWarmup, ConsumeScored, PollEvent, Handle,
                       InsertMetric, InsertAlert, PublishAlert, EarlyWarning, HandlerFails,
                       CommitOffsets, Crash, vars, log_vars
<1>2. /\ \A p \in Partitions : resumed[p] <= position[p]
      /\ \A h \in Hosts : RemembersLog(h)
  BY <1>1 DEF LogIsRemembered
<1>3. CASE Consume
  <2>1. \A p \in Partitions : resumed'[p] <= position'[p]
    <3>1. PICK p \in Partitions : PollEvent(p)
      BY <1>3 DEF Consume, ConsumeWarmup, ConsumeScored
    <3>2. resumed' = resumed /\ position' = [position EXCEPT ![p] = @ + 1]
      BY <3>1 DEF PollEvent, log_vars
    <3> QED  BY <1>2, <3>2 DEF TypeOK
  <2> QED  BY <1>1, <1>3, <2>1, PollRemembers
<1>4. CASE EarlyWarning
  <2>1. UNCHANGED <<telemetry, position, resumed>>
    BY <1>4 DEF EarlyWarning, log_vars
  <2>2. \A h \in Hosts : SeenOffsets(h)' = SeenOffsets(h)
    BY <2>1 DEF SeenOffsets
  <2>3. ASSUME NEW h \in Hosts PROVE RemembersLog(h)'
    <3>1. CASE states'[h] = states[h]
      BY <1>2, <2>1, <2>2, <3>1, OthersRemember
    <3>2. CASE states'[h] # states[h]
      <4>1. states'[h] = EarlyWarningArmed(states[h])
        BY <1>4, <3>2 DEF EarlyWarning, TypeOK
      <4> DEFINE next == states'[h]
      <4>2. PICK state \in HostModelState : state = states[h]
        BY DEF TypeOK
      <4>3. next = [state EXCEPT !.last_early_warning_time = job.ts]
        BY <4>1, <4>2 DEF EarlyWarningArmed
      <4> HIDE DEF next
      <4>4. PICK seen \in Seq(Nat), scores \in Seq(Nat), points \in Seq(Point) :
              /\ Lists(seen, SeenOffsets(h))
              /\ Remembers(state, seen, scores, points, telemetry[PartitionOf[h]])
        BY <1>2, <4>2 DEF RemembersLog
      <4>5. /\ next.raw_buffer = state.raw_buffer /\ next.score_history = state.score_history
            /\ next.trend_window = state.trend_window
            /\ next.is_warmed_up = state.is_warmed_up
            /\ next.warmup_features = state.warmup_features
            /\ next.events_since_fit = state.events_since_fit
            /\ next.model_version = state.model_version
            /\ next.train_window = state.train_window
        BY <4>3 DEF HostModelState
      <4>6. Remembers(next, seen, scores, points, telemetry[PartitionOf[h]])
        BY <4>4, <4>5, ClocksAside
      <4>7. Remembers(states[h]', seen, scores, points, telemetry[PartitionOf[h]]')
        BY <2>1, <4>2, <4>6 DEF next
      <4>8. Lists(seen, SeenOffsets(h)')
        BY <2>2, <4>4
      <4> QED  BY <4>7, <4>8 DEF RemembersLog
    <3> QED  BY <3>1, <3>2
  <2> QED  BY <1>2, <2>1, <2>3
<1>5. CASE Crash
  <2>1. /\ position' = resumed' /\ telemetry' = telemetry
        /\ states' = [h \in Hosts |-> FreshState]
        /\ position' \in [Partitions -> Nat]
    BY <1>5 DEF Crash, ResumeOffsets, TypeOK
  <2>2. ASSUME NEW h \in Hosts PROVE RemembersLog(h)'
    <3>1. SeenOffsets(h)' = {}
      <4>1. PICK g \in Partitions : g = PartitionOf[h]
        BY PartitionAssumption
      <4>2. PICK r \in Nat : r = position'[g] /\ r = resumed'[g]
        BY <2>1
      <4>3. SeenOffsets(h)' = {q \in (r + 1)..r : telemetry[g][q].host = h}
        BY <2>1, <4>1, <4>2 DEF SeenOffsets
      <4> QED  BY <4>3
    <3>2. Remembers(states[h]', <<>>, <<>>, <<>>, telemetry[PartitionOf[h]]')
      BY <2>1, FreshRemembers
    <3>3. Lists(<<>>, {})
      BY DEF Lists
    <3>4. <<>> \in Seq(Nat) /\ <<>> \in Seq(Point)
      OBVIOUS
    <3> QED  BY <3>1, <3>2, <3>3, <3>4, Zenon DEF RemembersLog
  <2>3. \A p \in Partitions : resumed'[p] <= position'[p]
    BY <2>1
  <2> QED  BY <2>2, <2>3
<1>6. CASE InsertMetric \/ InsertAlert \/ PublishAlert \/ HandlerFails \/ CommitOffsets
           \/ UNCHANGED vars
  <2>1. UNCHANGED <<telemetry, position, resumed, states>>
    BY <1>6 DEF InsertMetric, InsertAlert, PublishAlert, HandlerFails, CommitOffsets, vars,
                log_vars
  <2>2. \A h \in Hosts : SeenOffsets(h)' = SeenOffsets(h)
    BY <2>1 DEF SeenOffsets
  <2>3. \A h \in Hosts : RemembersLog(h)'
    BY <1>2, <2>1, <2>2, OthersRemember
  <2> QED  BY <1>2, <2>1, <2>3
<1> QED  BY <1>1, <1>3, <1>4, <1>5, <1>6 DEF Next, Handle

LEMMA LogStaysRemembered == Spec => []LogIsRemembered
<1>1. TypeOK /\ LogIsRemembered /\ [Next]_vars => LogIsRemembered'
  BY RememberedStep
<1> QED  BY RememberedInit, <1>1, TypeCorrect, PTL DEF Spec
-----------------------------------------------------------------------------
(* What follows                                                            *)

(* The newest of the newest.                                               *)
LEMMA LastOfLast ==
    ASSUME NEW T, NEW s \in Seq(T), NEW n \in Nat, NEW l \in Nat, NEW m \in Nat,
           m <= n, m <= l, m <= Len(s), m = n \/ m = l \/ m = Len(s)
    PROVE  LastN(LastN(s, n), l) \in Seq(T) /\ NewestOf(LastN(LastN(s, n), l), s, m)
<1>1. PICK k \in Nat : k <= n /\ k <= Len(s) /\ (k = n \/ k = Len(s))
  <2>1. PICK z \in Nat : z = Len(s)
    OBVIOUS
  <2>2. z <= n \/ n <= z
    BY <2>1
  <2> QED  BY <2>1, <2>2
<1> DEFINE d == LastN(s, n)
           e == LastN(d, l)
<1>2. d \in Seq(T) /\ Len(d) = k /\ \A i \in 1..k : d[i] = s[Len(s) - k + i]
  <2>1. d \in Seq(T) /\ NewestOf(d, s, k)
    BY <1>1, LastNIs
  <2> QED  BY <2>1 DEF NewestOf
<1>3. m <= k /\ (m = l \/ m = k)
  BY <1>1
<1> HIDE DEF d
<1>4. m <= l /\ m <= Len(d) /\ (m = l \/ m = Len(d))
  BY <1>2, <1>3
<1>5. e \in Seq(T) /\ Len(e) = m /\ \A i \in 1..m : e[i] = d[Len(d) - m + i]
  <2>1. e \in Seq(T) /\ NewestOf(e, d, m)
    BY <1>2, <1>4, LastNIs
  <2> QED  BY <2>1 DEF NewestOf
<1> HIDE DEF e
<1>6. ASSUME NEW i \in 1..m PROVE e[i] = s[Len(s) - m + i]
  <2>1. PICK j \in 1..k : j = k - m + i
    BY <1>3
  <2>2. PICK z \in Nat : z = Len(s)
    OBVIOUS
  <2>3. z - k + j = z - m + i
    BY <2>1
  <2>4. e[i] = d[j] /\ d[j] = s[z - k + j]
    BY <1>2, <1>5, <2>1, <2>2
  <2> QED  BY <2>2, <2>3, <2>4
<1> QED  BY <1>5, <1>6 DEF d, e, NewestOf

(* A host's memory, in the terms of the properties.                        *)
LEMMA MemoryIs ==
    ASSUME TypeOK, NEW h, RemembersLog(h)
    PROVE  \E seen \in Seq(Nat), scores \in Seq(Nat), points \in Seq(Point), k \in Nat :
              /\ Seen(h) = seen
              /\ Remembers(states[h], seen, scores, points, telemetry[PartitionOf[h]])
              /\ k = ScoredOf(Len(seen))
              /\ Scored(h) \in Seq(Nat) /\ Len(Scored(h)) = k
              /\ Len(scores) = k /\ Len(points) = k
              /\ \A i \in 1..k :
                    /\ points[i].ts = telemetry[PartitionOf[h]][Scored(h)[i]].ts
                    /\ points[i].score = scores[i]
<1> DEFINE log == telemetry[PartitionOf[h]]
<1>1. PICK seen \in Seq(Nat), scores \in Seq(Nat), points \in Seq(Point) :
        /\ Lists(seen, SeenOffsets(h))
        /\ Remembers(states[h], seen, scores, points, log)
  BY DEF RemembersLog
<1>2. Seen(h) = seen
  BY <1>1, ListIsSeen
<1>3. WarmupEvents \in Nat
  BY SizesAssumption
<1>4. PICK k \in Nat : k = ScoredOf(Len(seen))
  <2>1. PICK n \in Nat : n = Len(seen)
    OBVIOUS
  <2>2. ScoredOf(n) \in Nat
    BY <1>3 DEF ScoredOf
  <2> QED  BY <2>1, <2>2
<1>5. Scored(h) = SubSeq(seen, WarmupEvents + 1, Len(seen))
  BY <1>2 DEF Scored
<1>6. Scored(h) \in Seq(Nat) /\ Len(Scored(h)) = k
  <2>1. (Len(seen) >= WarmupEvents /\ k = Len(seen) - WarmupEvents)
           \/ (Len(seen) < WarmupEvents /\ k = 0)
    BY <1>3, <1>4 DEF ScoredOf
  <2>2. /\ SubSeq(seen, WarmupEvents + 1, Len(seen)) \in Seq(Nat)
        /\ Len(SubSeq(seen, WarmupEvents + 1, Len(seen))) = k
    BY <1>3, <2>1, ScoredIs
  <2> QED  BY <1>5, <2>2
<1>7. OnePerScored(seen, scores, points, log)
  BY <1>1 DEF Remembers
<1>8. /\ Len(scores) = k /\ Len(points) = k
      /\ \A i \in 1..k :
            /\ points[i].ts = log[Scored(h)[i]].ts
            /\ points[i].score = scores[i]
  BY <1>5, <1>6, <1>7 DEF OnePerScored
<1> HIDE DEF log
<1> QED  BY <1>1, <1>2, <1>4, <1>6, <1>8 DEF log

InStep(a, b) == a = [i \in DOMAIN b |-> b[i].score]

TimesAre(b, d, m, log) ==
    [i \in DOMAIN b |-> b[i].ts] = [i \in 1..m |-> log[d[i]].ts]

(* Alignment of the deques, from their being the newest of sequences with  *)
(* one entry for each scored event.                                        *)
LEMMA DequesAligned ==
    ASSUME NEW scores \in Seq(Nat), NEW points \in Seq(Point), NEW k \in Nat,
           Len(scores) = k, Len(points) = k, \A i \in 1..k : points[i].score = scores[i],
           NEW H \in Nat, NEW T \in Nat, NEW a, NEW b,
           a = LastN(LastN(scores, H), T), b = LastN(LastN(points, T), H)
    PROVE  InStep(a, b)
<1>1. PICK m \in Nat : m <= H /\ m <= T /\ m <= k /\ (m = H \/ m = T \/ m = k)
  <2>1. \E m \in {H, T, k} : m <= H /\ m <= T /\ m <= k
    OBVIOUS
  <2> QED  BY <2>1
<1>2. a \in Seq(Nat) /\ Len(a) = m /\ \A i \in 1..m : a[i] = scores[k - m + i]
  <2>1. a \in Seq(Nat) /\ NewestOf(a, scores, m)
    BY <1>1, LastOfLast
  <2> QED  BY <2>1 DEF NewestOf
<1>3. b \in Seq(Point) /\ Len(b) = m /\ \A i \in 1..m : b[i] = points[k - m + i]
  <2>1. b \in Seq(Point) /\ NewestOf(b, points, m)
    BY <1>1, LastOfLast
  <2> QED  BY <2>1 DEF NewestOf
<1>4. \A i \in 1..m : k - m + i \in 1..k
  BY <1>1
<1>5. \A i \in 1..m : a[i] = b[i].score
  BY <1>2, <1>3, <1>4
<1>6. DOMAIN a = 1..m /\ DOMAIN b = 1..m /\ a = [i \in 1..m |-> a[i]]
  BY <1>2, <1>3
<1> QED  BY <1>5, <1>6 DEF InStep

(* The trend window holds the times of the newest scored events.           *)
LEMMA TimesOfPoints ==
    ASSUME NEW points \in Seq(Point), NEW scored \in Seq(Nat), NEW log, NEW k \in Nat,
           Len(points) = k, Len(scored) = k,
           \A i \in 1..k : points[i].ts = log[scored[i]].ts,
           NEW T \in Nat, NEW b, b = LastN(points, T), NEW d, d = LastN(scored, T)
    PROVE  TimesAre(b, d, Min({k, T}), log)
<1>1. PICK m \in Nat : m = Min({k, T}) /\ m <= k /\ m <= T /\ (m = T \/ m = k)
  <2>1. Min({k, T}) = IF k <= T THEN k ELSE T
    BY MinIs
  <2> QED  BY <2>1
<1>2. b \in Seq(Point) /\ Len(b) = m /\ \A i \in 1..m : b[i] = points[k - m + i]
  <2>1. b \in Seq(Point) /\ NewestOf(b, points, m)
    BY <1>1, LastNIs
  <2> QED  BY <2>1 DEF NewestOf
<1>3. d \in Seq(Nat) /\ Len(d) = m /\ \A i \in 1..m : d[i] = scored[k - m + i]
  <2>1. d \in Seq(Nat) /\ NewestOf(d, scored, m)
    BY <1>1, LastNIs
  <2> QED  BY <2>1 DEF NewestOf
<1>4. \A i \in 1..m : k - m + i \in 1..k
  BY <1>1
<1>5. \A i \in 1..m : b[i].ts = log[d[i]].ts
  BY <1>2, <1>3, <1>4
<1>6. DOMAIN b = 1..m
  BY <1>2
<1> QED  BY <1>1, <1>5, <1>6 DEF TimesAre

LEMMA BuffersFollow == TypeOK /\ LogIsRemembered => BuffersReplayLog
<1> SUFFICES ASSUME TypeOK, LogIsRemembered, rejoins = 0, NEW h \in Hosts
             PROVE  LET state == states[h]
                        log   == telemetry[PartitionOf[h]]
                    IN  /\ state.raw_buffer = LastN(Seen(h), RollingWindow)
                        /\ Len(state.score_history) = Min({Len(Scored(h)), HistorySize})
                        /\ [i \in DOMAIN state.trend_window |-> state.trend_window[i].ts]
                             = [i \in 1..Min({Len(Scored(h)), TrendWindowSize}) |->
                                   log[LastN(Scored(h), TrendWindowSize)[i]].ts]
                        /\ LET a == LastN(state.score_history, TrendWindowSize)
                               b == LastN(state.trend_window, HistorySize)
                           IN  a = [i \in DOMAIN b |-> b[i].score]
  BY DEF BuffersReplayLog
<1> DEFINE state == states[h]
           log   == telemetry[PartitionOf[h]]
<1>1. RollingWindow \in Nat /\ HistorySize \in Nat /\ TrendWindowSize \in Nat
  BY SizesAssumption
<1>2. PICK seen \in Seq(Nat), scores \in Seq(Nat), points \in Seq(Point), k \in Nat :
        /\ Seen(h) = seen
        /\ Remembers(states[h], seen, scores, points, telemetry[PartitionOf[h]])
        /\ k = ScoredOf(Len(seen))
        /\ Scored(h) \in Seq(Nat) /\ Len(Scored(h)) = k
        /\ Len(scores) = k /\ Len(points) = k
        /\ \A i \in 1..k :
              /\ points[i].ts = telemetry[PartitionOf[h]][Scored(h)[i]].ts
              /\ points[i].score = scores[i]
  BY MemoryIs DEF LogIsRemembered
<1>3. /\ state.raw_buffer = LastN(seen, RollingWindow)
      /\ state.score_history = LastN(scores, HistorySize)
      /\ state.trend_window = LastN(points, TrendWindowSize)
  BY <1>2 DEF Remembers, DequesHold
<1> HIDE DEF state, log
<1>4. Len(state.score_history) = Min({k, HistorySize})
  <2>1. Min({k, HistorySize}) = IF k <= HistorySize THEN k ELSE HistorySize
    BY <1>1, MinIs
  <2>2. PICK m \in Nat : m = Min({k, HistorySize}) /\ m <= k /\ m <= HistorySize
                            /\ (m = HistorySize \/ m = k)
    BY <1>1, <2>1
  <2>3. m <= Len(scores) /\ (m = HistorySize \/ m = Len(scores))
    BY <1>2, <2>2
  <2>4. NewestOf(LastN(scores, HistorySize), scores, m)
    BY <1>1, <2>2, <2>3, LastNIs
  <2> QED  BY <1>3, <2>2, <2>4 DEF NewestOf
<1>5. [i \in DOMAIN state.trend_window |-> state.trend_window[i].ts]
        = [i \in 1..Min({k, TrendWindowSize}) |->
              log[LastN(Scored(h), TrendWindowSize)[i]].ts]
  <2>1. PICK scored \in Seq(Nat) : scored = Scored(h)
    BY <1>2
  <2>2. Len(scored) = k /\ \A i \in 1..k : points[i].ts = log[scored[i]].ts
    BY <1>2, <2>1 DEF log
  <2>3. PICK b, d : b = LastN(points, TrendWindowSize) /\ d = LastN(scored, TrendWindowSize)
    OBVIOUS
  <2>4. TimesAre(b, d, Min({k, TrendWindowSize}), log)
    <3>1. /\ points \in Seq(Point) /\ k \in Nat /\ Len(points) = k
          /\ TrendWindowSize \in Nat
      BY <1>1, <1>2
    <3> QED  BY <2>2, <2>3, <3>1, TimesOfPoints, Zenon
  <2> QED  BY <1>3, <2>1, <2>3, <2>4 DEF TimesAre
<1>6. LET a == LastN(state.score_history, TrendWindowSize)
          b == LastN(state.trend_window, HistorySize)
      IN  a = [i \in DOMAIN b |-> b[i].score]
  <2>1. PICK a, b : /\ a = LastN(state.score_history, TrendWindowSize)
                    /\ b = LastN(state.trend_window, HistorySize)
    OBVIOUS
  <2>2. /\ a = LastN(LastN(scores, HistorySize), TrendWindowSize)
        /\ b = LastN(LastN(points, TrendWindowSize), HistorySize)
    BY <1>3, <2>1
  <2>3. InStep(a, b)
    <3>1. /\ scores \in Seq(Nat) /\ points \in Seq(Point) /\ k \in Nat
          /\ Len(scores) = k /\ Len(points) = k
          /\ \A i \in 1..k : points[i].score = scores[i]
          /\ HistorySize \in Nat /\ TrendWindowSize \in Nat
      BY <1>1, <1>2
    <3> QED  BY <2>2, <3>1, DequesAligned, Zenon
  <2> QED  BY <2>1, <2>3 DEF InStep
<1> QED  BY <1>2, <1>3, <1>4, <1>5, <1>6 DEF state, log

(* However many events of whatever hosts have come, the buffers of a host  *)
(* hold its newest events and those only, raw metrics, scores and points   *)
(* of the trend in step with one another.                                  *)
THEOREM BuffersReplay == Spec => []BuffersReplayLog
<1>1. TypeOK /\ LogIsRemembered => BuffersReplayLog
  BY BuffersFollow
<1> QED  BY <1>1, LogStaysRemembered, TypeCorrect, PTL

LEMMA ScheduleFollows == TypeOK /\ LogIsRemembered => ModelVersionSchedule
<1> SUFFICES ASSUME TypeOK, LogIsRemembered, rejoins = 0, NEW h \in Hosts
             PROVE  LET k == Len(Scored(h))
                    IN  states[h].model_version =
                          IF Len(Seen(h)) < WarmupEvents THEN 0
                          ELSE IF MinTrainWindow > TrainWindowSize \/ k < FirstRefit THEN 1
                          ELSE 2 + (k - FirstRefit) \div RetrainInterval
  BY DEF ModelVersionSchedule
<1>1. PICK seen \in Seq(Nat), k \in Nat :
        /\ Seen(h) = seen
        /\ k = ScoredOf(Len(seen)) /\ Len(Scored(h)) = k
        /\ OnSchedule(states[h], Len(seen))
  BY MemoryIs DEF LogIsRemembered, Remembers
<1>2. PICK n \in Nat : n = Len(seen)
  OBVIOUS
<1>3. WarmupEvents \in Nat
  BY SizesAssumption
<1>4. CASE WarmingUp(states[h], n)
  BY <1>1, <1>2, <1>4 DEF WarmingUp
<1>5. CASE n >= WarmupEvents /\ Fitted(states[h], n - WarmupEvents)
  <2>1. k = n - WarmupEvents /\ ~(n < WarmupEvents)
    BY <1>1, <1>2, <1>3, <1>5 DEF ScoredOf
  <2>2. Fitted(states[h], k)
    BY <1>5, <2>1
  <2>3. states[h].model_version =
           IF MinTrainWindow > TrainWindowSize \/ k < FirstRefit THEN 1
           ELSE 2 + (k - FirstRefit) \div RetrainInterval
    BY <2>2 DEF Fitted
  <2> QED  BY <1>1, <1>2, <2>1, <2>3
<1> QED  BY <1>1, <1>2, <1>4, <1>5 DEF OnSchedule

(* The version of a host's model is a function of how many of its events   *)
(* this life has read, for every choice of the sizes.                      *)
THEOREM ScheduleIsKept == Spec => []ModelVersionSchedule
<1>1. TypeOK /\ LogIsRemembered => ModelVersionSchedule
  BY ScheduleFollows
<1> QED  BY <1>1, LogStaysRemembered, TypeCorrect, PTL
-----------------------------------------------------------------------------
(* Alerts of different lives                                               *)

(* The events of the same host after `from', up to `to' and with it.       *)
Between(p, from, to) ==
    {q \in (from + 1)..to : telemetry[p][q].host = telemetry[p][to].host}

(* A new life alerts only after a warm-up and a minimum history, of which  *)
(* it has read again at most what was not committed: whatever comes that   *)
(* many events after another one comes the cooldown after it.              *)
WarmUpOutlastsCooldown ==
    \A p \in Partitions : \A from, to \in DOMAIN telemetry[p] :
        /\ telemetry[p][from].host = telemetry[p][to].host
        /\ Cardinality(Between(p, from, to)) >= WarmupEvents + MinHistory - MaxLag
        => telemetry[p][to].ts - telemetry[p][from].ts >= CooldownSeconds

(* What is read and not committed is no more than MaxLag.                  *)
LagIsBounded ==
    \A p \in Partitions :
        /\ resumed[p] <= committed[p]
        /\ committed[p] <= position[p]
        /\ position[p] <= committed[p] + MaxLag

IsEvent(p, o, host, ts) ==
    /\ PartitionOf[host] = p
    /\ o \in DOMAIN telemetry[p]
    /\ telemetry[p][o].host = host
    /\ telemetry[p][o].ts = ts

(* The event in hand is the one read last, and has been judged only if a   *)
(* model and a history were there.                                         *)
JobIsRead ==
    pc # "poll" =>
        /\ IsEvent(job.partition, job.offset, job.host, job.ts)
        /\ job.offset = position[job.partition]
        /\ resumed[job.partition] < job.offset
        /\ job.is_anomaly \/ job.predicted =>
             Cardinality(SeenOffsets(job.host)) >= WarmupEvents + MinHistory

(* How far the life that raised alert i can have read.                     *)
ReadBy(i) ==
    LET p == alerts[i].partition
    IN  IF alerts[i].life = life THEN position[p] ELSE resumed[p] + MaxLag

AlertsWereRead ==
    \A i \in DOMAIN alerts :
        /\ IsEvent(alerts[i].partition, alerts[i].offset, alerts[i].host,
                   alerts[i].triggered_at)
        /\ alerts[i].offset <= ReadBy(i)

Alerted == \E i \in DOMAIN alerts : alerts[i].life = life /\ SameEvent(alerts[i], job)

(* An event is alerted once in a life: as an anomaly or as a prediction.   *)
AlertedOnce ==
    /\ pc \in {"insert_metric", "insert_alert"} => ~Alerted
    /\ pc = "early_warning" /\ job.predicted => ~Alerted
    /\ pc = "publish_alert" /\ ~job.is_early_warning => ~job.predicted

AlertingInv == rejoins = 0 => LagIsBounded /\ JobIsRead /\ AlertsWereRead /\ AlertedOnce

(* The log of a behaviour stays the same.                                  *)
LEMMA LogIsKept ==
    ASSUME [Next]_vars
    PROVE  telemetry' = telemetry
<1>1. Consume => telemetry' = telemetry
  BY DEF Consume, ConsumeWarmup, ConsumeScored, PollEvent, log_vars
<1>2. ~Consume => telemetry' = telemetry
  BY DEF Next, Handle, InsertMetric, InsertAlert, PublishAlert, EarlyWarning, HandlerFails,
         CommitOffsets, Rejoin, Crash, log_vars, vars
<1> QED  BY <1>1, <1>2

(* Without a rejoin there was none before.                                 *)
LEMMA NoRejoin ==
    ASSUME TypeOK, [Next]_vars, rejoins' = 0
    PROVE  rejoins = 0 /\ ~Rejoin
<1>1. rejoins \in Nat
  BY BoundsAssumption DEF TypeOK
<1>2. ~Rejoin
  BY <1>1 DEF Rejoin
<1>3. Consume => rejoins' = rejoins
  BY DEF Consume, ConsumeWarmup, ConsumeScored, PollEvent, log_vars
<1>4. ~Consume => rejoins' = rejoins
  BY <1>2 DEF Next, Handle, InsertMetric, InsertAlert, PublishAlert, EarlyWarning,
              HandlerFails, CommitOffsets, Crash, log_vars, vars
<1> QED  BY <1>2, <1>3, <1>4

(* A crash and a rejoin go back to what is committed; a commit catches up. *)
LEMMA LagStep ==
    ASSUME TypeOK, LagIsBounded, [Next]_vars
    PROVE  LagIsBounded'
<1>1. /\ MaxLag \in Nat
      /\ \A p \in Partitions : position[p] \in Nat /\ committed[p] \in Nat /\ resumed[p] \in Nat
  BY BoundsAssumption DEF TypeOK
<1>2. CASE Consume
  <2>1. PICK p \in Partitions : PollEvent(p)
    BY <1>2 DEF Consume, ConsumeWarmup, ConsumeScored
  <2>2. /\ UNCHANGED <<committed, resumed>>
        /\ position' = [position EXCEPT ![p] = @ + 1]
        /\ position[p] - committed[p] < MaxLag
    BY <2>1 DEF PollEvent, log_vars
  <2>3. \A q \in Partitions : position'[q] = IF q = p THEN position[q] + 1 ELSE position[q]
    BY <2>2 DEF TypeOK
  <2> QED  BY <1>1, <2>2, <2>3 DEF LagIsBounded
<1>3. CASE Rejoin \/ Crash
  <2>1. /\ position' = committed /\ committed' = committed
        /\ resumed' \in {resumed, committed}
    BY <1>3 DEF Rejoin, Crash, ResumeOffsets
  <2> QED  BY <1>1, <2>1 DEF LagIsBounded
<1>4. CASE CommitOffsets
  <2>1. /\ committed' = position
        /\ UNCHANGED <<position, resumed>>
    BY <1>4 DEF CommitOffsets, StoredOffsets, log_vars
  <2> QED  BY <1>1, <2>1 DEF LagIsBounded
<1>5. CASE Handle \/ HandlerFails \/ UNCHANGED vars
  <2>1. UNCHANGED <<position, committed, resumed>>
    BY <1>5 DEF Handle, InsertMetric, InsertAlert, PublishAlert, EarlyWarning,
                HandlerFails, vars, log_vars
  <2> QED  BY <2>1 DEF LagIsBounded
<1> QED  BY <1>2, <1>3, <1>4, <1>5 DEF Next

(* What comes into the hands of the handler with one poll.                 *)
LEMMA PollReads ==
    ASSUME TypeOK, NEW p \in Partitions, ConsumeWarmup(p) \/ ConsumeScored(p)
    PROVE  /\ job'.partition = p
           /\ job'.offset = position[p] + 1
           /\ job'.host = telemetry[p][position[p] + 1].host
           /\ job'.ts = telemetry[p][position[p] + 1].ts
           /\ job'.is_anomaly \/ job'.predicted =>
                HasThreshold(states'[job'.host].score_history)
<1> DEFINE event == telemetry[p][position[p] + 1]
           h     == event.host
           state == ComputeFeatureVector(states[h], position[p] + 1)
<1>1. event \in Event /\ position[p] + 1 \in Nat
  BY NextEvent DEF ConsumeWarmup, ConsumeScored, PollEvent
<1>2. h \in Hosts /\ event.ts \in Nat
  BY <1>1 DEF Event
<1>3. CASE ConsumeWarmup(p)
  <2>1. job' = JobFor(p, FALSE, FALSE, "none", FALSE, FALSE)
    BY <1>3 DEF ConsumeWarmup
  <2> QED  BY <2>1 DEF JobFor
<1>4. CASE ConsumeScored(p)
  <2>1. PICK raw_score \in Scores :
          LET scored  == RecordScore(Train(state), raw_score, event.ts)
              publish == ShouldPublishAlert(scored, event.ts)
          IN  /\ states' = [states EXCEPT ![h] =
                              IF publish THEN [scored EXCEPT !.last_alert_time = event.ts]
                                         ELSE scored]
              /\ job' = JobFor(p, TRUE, IsAnomaly(scored.score_history),
                               Severity(scored.score_history), publish, Predicted(scored))
    BY <1>4, Zenon DEF ConsumeScored, AlertArmed
  <2> DEFINE scored  == RecordScore(Train(state), raw_score, event.ts)
             publish == ShouldPublishAlert(scored, event.ts)
             s == IF publish THEN [scored EXCEPT !.last_alert_time = event.ts] ELSE scored
  <2>2. /\ states' = [states EXCEPT ![h] = s]
        /\ job' = JobFor(p, TRUE, IsAnomaly(scored.score_history),
                         Severity(scored.score_history), publish, Predicted(scored))
    BY <2>1, Zenon
  <2>3. scored \in HostModelState
    <3>1. states[h] \in HostModelState
      BY <1>2 DEF TypeOK
    <3>2. state \in HostModelState
      BY <1>1, <3>1, ComputeFeatureVectorType
    <3>3. raw_score \in Nat
      BY ScoresAssumption
    <3> HIDE DEF state
    <3>4. Train(state) \in HostModelState
      BY <3>2, TrainType
    <3> HIDE DEF event
    <3> QED  BY <1>2, <3>3, <3>4, RecordScoreType
  <2> HIDE DEF scored
  <2>4. s.score_history = scored.score_history
    BY <2>3 DEF HostModelState
  <2>5. /\ job'.partition = p /\ job'.offset = position[p] + 1
        /\ job'.host = h /\ job'.ts = event.ts
        /\ job'.is_anomaly = IsAnomaly(scored.score_history)
        /\ job'.predicted = Predicted(scored)
    BY <2>2 DEF JobFor
  <2>6. states'[h] = s
    BY <1>2, <2>2 DEF TypeOK
  <2>7. IsAnomaly(scored.score_history) \/ Predicted(scored) =>
           HasThreshold(scored.score_history)
    BY Zenon DEF IsAnomaly, Predicted
  <2> HIDE DEF s, h
  <2> QED  BY <2>4, <2>5, <2>6, <2>7 DEF h
<1> QED  BY <1>3, <1>4

(* A threshold needs its minimum of scores, and these a warm-up.           *)
LEMMA HistoryIsRead ==
    ASSUME NEW state, NEW log, NEW S,
           NEW seen \in Seq(Nat), NEW scores \in Seq(Nat), NEW points \in Seq(Point),
           Lists(seen, S), Remembers(state, seen, scores, points, log),
           HasThreshold(state.score_history)
    PROVE  Cardinality(S) >= WarmupEvents + MinHistory
<1>1. /\ WarmupEvents \in Nat /\ HistorySize \in Nat
      /\ MinHistory \in Nat \ {0}
  BY SizesAssumption, MinHistoryAssumption
<1>2. PICK n \in Nat, m \in Nat : n = Len(seen) /\ m = Len(scores)
  OBVIOUS
<1>3. Cardinality(S) = n
  BY <1>2, ListLength
<1>4. m = ScoredOf(n)
  BY <1>2, OnePerScoredIs DEF Remembers
<1>5. state.score_history = LastN(scores, HistorySize)
  BY DEF Remembers, DequesHold
<1>6. PICK k \in Nat : k <= HistorySize /\ k <= m /\ (k = HistorySize \/ k = m)
  <2>1. CASE HistorySize <= m
    <3>1. HistorySize <= HistorySize /\ HistorySize <= m
            /\ (HistorySize = HistorySize \/ HistorySize = m)
      BY <1>1, <2>1
    <3> QED  BY <1>1, <3>1
  <2>2. CASE m <= HistorySize
    <3>1. m <= HistorySize /\ m <= m /\ (m = HistorySize \/ m = m)
      BY <2>2
    <3> QED  BY <3>1
  <2>3. HistorySize <= m \/ m <= HistorySize
    BY <1>1
  <2> QED  BY <2>1, <2>2, <2>3
<1>7. Len(LastN(scores, HistorySize)) = k
  BY <1>1, <1>2, <1>6, LastNIs DEF NewestOf
<1>8. k >= MinHistory
  BY <1>5, <1>7 DEF HasThreshold
<1> QED  BY <1>1, <1>3, <1>4, <1>6, <1>8 DEF ScoredOf

(* Until handle() returns the event in hand stays the same, and nothing is *)
(* read.                                                                   *)
LEMMA JobKept ==
    ASSUME TypeOK, [Next]_vars, ~Consume, pc' # "poll"
    PROVE  /\ pc # "poll"
           /\ job'.host = job.host /\ job'.ts = job.ts
           /\ job'.partition = job.partition /\ job'.offset = job.offset
           /\ job'.is_anomaly = job.is_anomaly /\ job'.predicted = job.predicted
           /\ UNCHANGED <<telemetry, position, resumed, life>>
<1>1. pc # "poll"
  BY DEF Next, Handle, InsertMetric, InsertAlert, PublishAlert, EarlyWarning, HandlerFails,
         CommitOffsets, Rejoin, Crash, Return, Raise, vars
<1>2. UNCHANGED <<telemetry, position, resumed, life>>
  BY <1>1 DEF Next, Handle, InsertMetric, InsertAlert, PublishAlert, EarlyWarning,
              HandlerFails, CommitOffsets, Rejoin, Crash, Return, Raise, vars, log_vars
<1>3. job \in Job
  BY <1>1 DEF TypeOK
<1>4. \/ job' = job
      \/ job' = [job EXCEPT !.metrics_id = Len(metrics) + 1]
      \/ job' = [job EXCEPT !.is_early_warning = TRUE]
  BY <1>1 DEF Next, Handle, InsertMetric, InsertAlert, PublishAlert, EarlyWarning,
              HandlerFails, CommitOffsets, Rejoin, Crash, Return, Raise, vars
<1> QED  BY <1>1, <1>2, <1>3, <1>4 DEF Job

LEMMA JobReadStep ==
    ASSUME TypeOK, LogIsRemembered', rejoins' = 0, LagIsBounded, JobIsRead, [Next]_vars
    PROVE  JobIsRead'
<1>1. CASE Consume
  <2>1. PICK p \in Partitions : ConsumeWarmup(p) \/ ConsumeScored(p)
    BY <1>1 DEF Consume
  <2>2. PollEvent(p)
    BY <2>1 DEF ConsumeWarmup, ConsumeScored
  <2>3. PICK o \in Nat, r \in Nat : o = position[p] + 1 /\ r = resumed[p]
    BY DEF TypeOK
  <2>4. /\ job'.partition = p /\ job'.offset = o
        /\ job'.host = telemetry[p][o].host /\ job'.ts = telemetry[p][o].ts
        /\ job'.is_anomaly \/ job'.predicted =>
             HasThreshold(states'[job'.host].score_history)
    BY <2>1, <2>3, PollReads
  <2>5. /\ UNCHANGED <<telemetry, resumed>>
        /\ position'[p] = o
        /\ o \in DOMAIN telemetry[p]
        /\ r < o
    <3>1. telemetry[p] \in Seq(Event) /\ position[p] \in Nat /\ committed[p] \in Nat
      BY TelemetryAssumption DEF TypeOK
    <3>2. r <= position[p]
      <4>1. resumed[p] <= committed[p] /\ committed[p] <= position[p]
        BY DEF LagIsBounded
      <4> QED  BY <2>3, <3>1, <4>1
    <3>3. UNCHANGED <<telemetry, resumed>> /\ position' = [position EXCEPT ![p] = o]
      BY <2>2, <2>3 DEF PollEvent, log_vars
    <3>4. position'[p] = o
      BY <3>3 DEF TypeOK
    <3>5. o \in DOMAIN telemetry[p]
      BY <2>2, <2>3, <3>1 DEF PollEvent
    <3>6. r < o
      BY <2>3, <3>1, <3>2
    <3> QED  BY <3>3, <3>4, <3>5, <3>6
  <2>6. telemetry[p][o].host \in Hosts /\ PartitionOf[telemetry[p][o].host] = p
    <3>1. telemetry[p][o] \in Event
      BY <2>2, <2>3, NextEvent DEF PollEvent
    <3> QED  BY <2>5, <3>1, TelemetryAssumption DEF Event, TypeOK
  <2>7. ASSUME job'.is_anomaly \/ job'.predicted
        PROVE  Cardinality(SeenOffsets(job.host)') >= WarmupEvents + MinHistory
    <3>1. PICK h \in Hosts : h = job'.host
      BY <2>4, <2>6
    <3>2. RemembersLog(h)'
      BY <3>1 DEF LogIsRemembered
    <3>3. PICK seen \in Seq(Nat), scores \in Seq(Nat), points \in Seq(Point) :
            /\ Lists(seen, SeenOffsets(h)')
            /\ Remembers(states'[h], seen, scores, points, telemetry'[PartitionOf[h]])
      BY <3>2 DEF RemembersLog
    <3>4. HasThreshold(states'[h].score_history)
      BY <2>4, <2>7, <3>1
    <3>5. Cardinality(SeenOffsets(h)') >= WarmupEvents + MinHistory
      BY <3>3, <3>4, HistoryIsRead
    <3> QED  BY <3>1, <3>5
  <2> QED  BY <2>3, <2>4, <2>5, <2>6, <2>7 DEF JobIsRead, IsEvent
<1>2. CASE ~Consume /\ pc' # "poll"
  <2>1. /\ pc # "poll"
        /\ job'.host = job.host /\ job'.ts = job.ts
        /\ job'.partition = job.partition /\ job'.offset = job.offset
        /\ job'.is_anomaly = job.is_anomaly /\ job'.predicted = job.predicted
        /\ UNCHANGED <<telemetry, position, resumed>>
    BY <1>2, JobKept
  <2>2. SeenOffsets(job.host)' = SeenOffsets(job.host)
    BY <2>1 DEF SeenOffsets
  <2> QED  BY <2>1, <2>2 DEF JobIsRead, IsEvent
<1>3. CASE pc' = "poll"
  BY <1>3 DEF JobIsRead
<1> QED  BY <1>1, <1>2, <1>3

(* The row of an alert is that of the event in hand.                       *)
LEMMA AlertInserted ==
    ASSUME TypeOK, InsertAlert
    PROVE  \E row \in AlertRow :
              /\ alerts' = Append(alerts, row)
              /\ row.host = job.host /\ row.triggered_at = job.ts
              /\ row.partition = job.partition /\ row.offset = job.offset
              /\ row.is_early_warning = job.is_early_warning
              /\ row.life = life
<1> DEFINE row ==
      [host |-> job.host, partition |-> job.partition, offset |-> job.offset,
       triggered_at |-> job.ts,
       severity |-> IF job.is_early_warning THEN "warning" ELSE job.severity,
       metrics_id |-> job.metrics_id, is_early_warning |-> job.is_early_warning,
       recent_metrics |-> states[job.host].raw_buffer, life |-> life]
<1>1. alerts' = Append(alerts, row)
  BY DEF InsertAlert
<1>2. row \in AlertRow
  <2>1. job \in Job
    BY DEF InsertAlert, TypeOK
  <2>2. states[job.host] \in HostModelState /\ life \in Nat
    BY <2>1, BoundsAssumption DEF Job, TypeOK
  <2>3. states[job.host].raw_buffer \in Seq(Nat)
    BY <2>2 DEF HostModelState
  <2>4. (IF job.is_early_warning THEN "warning" ELSE job.severity) \in Severities
    BY <2>1 DEF Job, Severities
  <2> QED  BY <2>1, <2>2, <2>3, <2>4 DEF AlertRow, Job
<1> QED  BY <1>1, <1>2

(* Only that step adds rows.                                               *)
LEMMA AlertsKept ==
    ASSUME [Next]_vars, ~InsertAlert
    PROVE  alerts' = alerts
BY DEF Next, Handle, Consume, ConsumeWarmup, ConsumeScored, PollEvent, InsertMetric,
       PublishAlert, EarlyWarning, HandlerFails, CommitOffsets, Rejoin, Crash, table_vars, vars

(* What was read stays read, and a new life begins no further than MaxLag  *)
(* behind.                                                                 *)
LEMMA ReadByGrows ==
    ASSUME TypeOK, LagIsBounded, ClocksCoverAlerts, [Next]_vars, ~Rejoin,
           NEW i \in DOMAIN alerts, NEW o \in Nat, o <= ReadBy(i), alerts'[i] = alerts[i]
    PROVE  o <= ReadBy(i)'
<1>1. PICK p \in Partitions : p = alerts[i].partition
  <2>1. alerts[i] \in AlertRow
    BY ElementOfSeq DEF TypeOK
  <2> QED  BY <2>1 DEF AlertRow
<1>2. /\ MaxLag \in Nat /\ life \in Nat /\ alerts[i].life \in Nat
      /\ position[p] \in Nat /\ committed[p] \in Nat /\ resumed[p] \in Nat
      /\ alerts[i].life <= life
  BY AlertType, BoundsAssumption DEF TypeOK, ClocksCoverAlerts
<1>3. /\ resumed[p] <= committed[p] /\ position[p] <= committed[p] + MaxLag
  BY DEF LagIsBounded
<1>4. CASE Crash
  <2>1. life' = life + 1 /\ resumed'[p] = committed[p]
    BY <1>4 DEF Crash, ResumeOffsets
  <2>2. ReadBy(i)' = committed[p] + MaxLag
    <3>1. alerts'[i].life # life'
      BY <1>2, <2>1
    <3> QED  BY <1>1, <2>1, <3>1 DEF ReadBy
  <2>3. ReadBy(i) \in {position[p], resumed[p] + MaxLag}
    BY <1>1 DEF ReadBy
  <2>4. ReadBy(i) <= committed[p] + MaxLag /\ ReadBy(i) \in Nat
    BY <1>2, <1>3, <2>3
  <2> QED  BY <1>2, <2>2, <2>4
<1>5. CASE ~Crash
  <2>1. life' = life /\ resumed' = resumed
    BY <1>5 DEF Next, Handle, Consume, ConsumeWarmup, ConsumeScored, PollEvent, InsertMetric,
                InsertAlert, PublishAlert, EarlyWarning, HandlerFails, CommitOffsets,
                log_vars, vars
  <2>2. position'[p] \in {position[p], position[p] + 1}
    <3>1. \/ position' = position
          \/ \E q \in Partitions : position' = [position EXCEPT ![q] = @ + 1]
      BY <1>5 DEF Next, Handle, Consume, ConsumeWarmup, ConsumeScored, PollEvent, InsertMetric,
                  InsertAlert, PublishAlert, EarlyWarning, HandlerFails, CommitOffsets, vars
    <3> QED  BY <3>1 DEF TypeOK
  <2>3. ReadBy(i)' = IF alerts[i].life = life THEN position'[p] ELSE resumed[p] + MaxLag
    BY <1>1, <2>1 DEF ReadBy
  <2>4. ReadBy(i) = IF alerts[i].life = life THEN position[p] ELSE resumed[p] + MaxLag
    BY <1>1 DEF ReadBy
  <2> QED  BY <1>2, <2>2, <2>3, <2>4
<1> QED  BY <1>4, <1>5

LEMMA AlertsReadStep ==
    ASSUME TypeOK, LagIsBounded, ClocksCoverAlerts, JobIsRead, AlertsWereRead,
           [Next]_vars, ~Rejoin
    PROVE  AlertsWereRead'
<1>1. telemetry' = telemetry
  BY LogIsKept
<1>2. ASSUME NEW i \in DOMAIN alerts, alerts'[i] = alerts[i]
      PROVE  /\ IsEvent(alerts[i].partition, alerts[i].offset, alerts[i].host,
                        alerts[i].triggered_at)'
             /\ alerts'[i].offset <= ReadBy(i)'
  <2>1. alerts[i].offset \in Nat
    <3>1. alerts[i] \in AlertRow
      BY ElementOfSeq DEF TypeOK
    <3> QED  BY <3>1 DEF AlertRow
  <2>2. /\ IsEvent(alerts[i].partition, alerts[i].offset, alerts[i].host,
                   alerts[i].triggered_at)
        /\ alerts[i].offset <= ReadBy(i)
    BY DEF AlertsWereRead
  <2> QED  BY <1>1, <1>2, <2>1, <2>2, ReadByGrows DEF IsEvent
<1>3. CASE ~InsertAlert
  BY <1>2, <1>3, AlertsKept DEF AlertsWereRead
<1>4. CASE InsertAlert
  <2>1. PICK row \in AlertRow :
           /\ alerts' = Append(alerts, row)
           /\ row.host = job.host /\ row.triggered_at = job.ts
           /\ row.partition = job.partition /\ row.offset = job.offset
           /\ row.life = life
    BY <1>4, AlertInserted
  <2>2. PICK n \in Nat : n = Len(alerts) /\ alerts \in Seq(AlertRow)
    BY DEF TypeOK
  <2>3. /\ DOMAIN alerts = 1..n /\ DOMAIN alerts' = 1..(n + 1)
        /\ \A i \in 1..n : alerts'[i] = alerts[i]
        /\ alerts'[n + 1] = row
    BY <2>1, <2>2
  <2>4. /\ UNCHANGED <<position, life>>
        /\ pc = "insert_alert"
        /\ position[job.partition] \in Nat
    BY <1>4 DEF InsertAlert, log_vars, TypeOK, Job
  <2>5. /\ IsEvent(job.partition, job.offset, job.host, job.ts)
        /\ job.offset = position[job.partition]
    BY <2>4 DEF JobIsRead
  <2>6. /\ IsEvent(alerts[n + 1].partition, alerts[n + 1].offset, alerts[n + 1].host,
                   alerts[n + 1].triggered_at)'
        /\ alerts'[n + 1].offset <= ReadBy(n + 1)'
    <3>1. ReadBy(n + 1)' = position[job.partition]
      BY <2>1, <2>3, <2>4 DEF ReadBy
    <3> QED  BY <1>1, <2>1, <2>3, <2>4, <2>5, <3>1 DEF IsEvent
  <2>7. \A i \in DOMAIN alerts' : i = n + 1 \/ i \in 1..n
    BY <2>2, <2>3
  <2> QED  BY <1>2, <2>3, <2>6, <2>7, Zenon DEF AlertsWereRead
<1> QED  BY <1>3, <1>4

LEMMA AlertedOnceStep ==
    ASSUME TypeOK, JobIsJudged, JobIsRead, AlertsWereRead, AlertedOnce, [Next]_vars
    PROVE  AlertedOnce'
<1>1. CASE Consume
  <2>1. PICK p \in Partitions : ConsumeWarmup(p) \/ ConsumeScored(p)
    BY <1>1 DEF Consume
  <2>2. /\ pc' = "insert_metric"
        /\ UNCHANGED <<alerts, life>>
    BY <2>1 DEF ConsumeWarmup, ConsumeScored, PollEvent, log_vars, table_vars
  <2>3. job'.partition = p /\ job'.offset = position[p] + 1
    BY <2>1, PollReads
  <2>4. ASSUME NEW i \in DOMAIN alerts, alerts[i].life = life, alerts[i].partition = p
        PROVE  alerts[i].offset # position[p] + 1
    <3>1. alerts[i].offset <= position[p]
      BY <2>4 DEF AlertsWereRead, ReadBy
    <3>2. position[p] \in Nat /\ alerts[i].offset \in Nat
      <4>1. alerts[i] \in AlertRow
        BY <2>4, ElementOfSeq DEF TypeOK
      <4> QED  BY <4>1 DEF AlertRow, TypeOK
    <3> QED  BY <3>1, <3>2
  <2>5. ~Alerted'
    BY <2>2, <2>3, <2>4 DEF Alerted, SameEvent
  <2> QED  BY <2>2, <2>5 DEF AlertedOnce
<1>2. CASE ~Consume /\ pc' # "poll"
  <2>1. /\ pc # "poll"
        /\ job'.partition = job.partition /\ job'.offset = job.offset
        /\ job'.is_anomaly = job.is_anomaly /\ job'.predicted = job.predicted
        /\ life' = life
    BY <1>2, JobKept
  <2>2. CASE InsertAlert
    <3>1. pc = "insert_alert" /\ pc' = "publish_alert" /\ job' = job
      BY <1>2, <2>2 DEF InsertAlert, Raise, Return
    <3>2. ~job.is_early_warning => ~job.predicted
      BY <3>1 DEF JobIsJudged
    <3> QED  BY <3>1, <3>2 DEF AlertedOnce
  <2>3. CASE ~InsertAlert
    <3>1. alerts' = alerts
      BY <2>3, AlertsKept
    <3>2. Alerted' <=> Alerted
      BY <2>1, <3>1 DEF Alerted, SameEvent
    <3>3. CASE InsertMetric
      <4>1. pc = "insert_metric" /\ pc' \in {"insert_alert", "early_warning"}
        BY <1>2, <3>3 DEF InsertMetric, Raise, Return
      <4> QED  BY <3>2, <4>1 DEF AlertedOnce
    <3>4. CASE EarlyWarning
      <4>1. pc = "early_warning" /\ job.predicted /\ pc' = "insert_alert"
        BY <1>2, <3>4 DEF EarlyWarning, EarlyWarningDue, Return
      <4> QED  BY <3>2, <4>1 DEF AlertedOnce
    <3>5. CASE PublishAlert
      <4>1. /\ pc = "publish_alert" /\ pc' = "early_warning"
            /\ ~job.is_early_warning /\ job' = job
        BY <1>2, <3>5 DEF PublishAlert, Return
      <4> QED  BY <4>1 DEF AlertedOnce
    <3>6. CASE CommitOffsets \/ UNCHANGED vars
      <4>1. UNCHANGED <<pc, job>>
        BY <3>6 DEF CommitOffsets, vars
      <4> QED  BY <3>2, <4>1 DEF AlertedOnce
    <3>7. ~HandlerFails /\ ~Crash /\ ~Rejoin
      BY <1>2, <2>1 DEF HandlerFails, Crash, Rejoin, Raise, Return
    <3> QED  BY <1>2, <2>3, <3>3, <3>4, <3>5, <3>6, <3>7 DEF Next, Handle
  <2> QED  BY <2>2, <2>3
<1>3. CASE pc' = "poll"
  BY <1>3 DEF AlertedOnce
<1> QED  BY <1>1, <1>2, <1>3

LEMMA AlertingHolds == Spec => []AlertingInv
<1>1. Init => AlertingInv
  <2> SUFFICES ASSUME Init PROVE LagIsBounded /\ JobIsRead /\ AlertsWereRead /\ AlertedOnce
    BY DEF AlertingInv
  <2>1. LagIsBounded
    BY BoundsAssumption DEF Init, LagIsBounded
  <2>2. pc = "poll" /\ alerts = <<>>
    BY DEF Init
  <2> QED  BY <2>1, <2>2 DEF JobIsRead, AlertsWereRead, AlertedOnce
<1>2. ASSUME TypeOK, JobIsJudged, LogIsRemembered', ClocksCoverAlerts, AlertingInv, [Next]_vars
      PROVE  AlertingInv'
  <2> SUFFICES ASSUME rejoins' = 0
               PROVE  LagIsBounded' /\ JobIsRead' /\ AlertsWereRead' /\ AlertedOnce'
    BY DEF AlertingInv
  <2>1. rejoins = 0 /\ ~Rejoin
    BY <1>2, NoRejoin
  <2>2. LagIsBounded /\ JobIsRead /\ AlertsWereRead /\ AlertedOnce
    BY <1>2, <2>1 DEF AlertingInv
  <2> QED  BY <1>2, <2>1, <2>2, LagStep, JobReadStep, AlertsReadStep, AlertedOnceStep
<1>3. TypeOK /\ JobIsJudged /\ LogIsRemembered' /\ ClocksCoverAlerts /\ AlertingInv
        /\ [Next]_vars => AlertingInv'
  BY <1>2
<1> QED  BY <1>1, <1>3, TypeCorrect, HandlingCorrect, LogStaysRemembered, ClocksCover, PTL
         DEF Spec

(* Of the events read since r those up to `from' are few.                  *)
LEMMA ReadAfter ==
    ASSUME NEW p, NEW from \in Nat, NEW to \in Nat, NEW r \in Nat, NEW lag \in Nat,
           NEW last \in Nat, last = r + lag, from <= last,
           NEW S, S = Between(p, r, to)
    PROVE  /\ Cardinality(S) \in Nat /\ Cardinality(Between(p, from, to)) \in Nat
           /\ Cardinality(S) <= Cardinality(Between(p, from, to)) + lag
<1> DEFINE A == Between(p, from, to)
           B == (r + 1)..(r + lag)
<1>1. IsFiniteSet(A)
  <2>1. PICK first \in Int, end \in Int : first = from + 1 /\ end = to
    OBVIOUS
  <2>2. IsFiniteSet(first..end)
    BY FS_Interval
  <2>3. A \subseteq first..end
    BY <2>1 DEF Between
  <2> QED  BY <2>2, <2>3, FS_Subset
<1>2. IsFiniteSet(B) /\ Cardinality(B) = lag
  <2>1. IsFiniteSet(B) /\ Cardinality(B) = IF r + 1 > r + lag THEN 0 ELSE (r + lag) - (r + 1) + 1
    BY FS_Interval
  <2> QED  BY <2>1
<1>3. S \subseteq A \cup B
  BY DEF Between
<1> HIDE DEF A, B
<1>4. /\ IsFiniteSet(A \cup B) /\ Cardinality(A \cap B) \in Nat
      /\ Cardinality(A \cup B) = Cardinality(A) + Cardinality(B) - Cardinality(A \cap B)
  <2>1. IsFiniteSet(A \cap B)
    BY <1>1, FS_Subset
  <2> QED  BY <1>1, <1>2, <2>1, FS_Union, FS_CardinalityType
<1>5. /\ Cardinality(S) \in Nat /\ Cardinality(A) \in Nat
      /\ Cardinality(S) <= Cardinality(A \cup B)
  BY <1>1, <1>3, <1>4, FS_Subset, FS_CardinalityType
<1>6. Cardinality(S) <= Cardinality(A) + lag
  BY <1>2, <1>4, <1>5
<1> QED  BY <1>5, <1>6 DEF A

(* The alert about to be inserted and one of an earlier life.              *)
LEMMA NewLifeWaits ==
    ASSUME TypeOK, JobIsJudged, JobIsRead, AlertsWereRead, WarmUpOutlastsCooldown,
           pc = "insert_alert", NEW i \in DOMAIN alerts,
           alerts[i].life # life, alerts[i].host = job.host
    PROVE  job.ts - alerts[i].triggered_at >= CooldownSeconds
<1>1. PICK p \in Partitions : p = job.partition
  BY DEF TypeOK, Job
<1>2. PICK from \in Nat, to \in Nat : from = alerts[i].offset /\ to = job.offset
  <2>1. alerts[i] \in AlertRow
    BY ElementOfSeq DEF TypeOK
  <2> QED  BY <2>1 DEF AlertRow, TypeOK, Job
<1>3. /\ PartitionOf[job.host] = p
      /\ to \in DOMAIN telemetry[p] /\ telemetry[p][to].host = job.host
      /\ telemetry[p][to].ts = job.ts
      /\ to = position[p]
  BY <1>1, <1>2 DEF JobIsRead, IsEvent
<1>4. /\ from \in DOMAIN telemetry[p] /\ telemetry[p][from].host = job.host
      /\ telemetry[p][from].ts = alerts[i].triggered_at
      /\ alerts[i].partition = p
  BY <1>2, <1>3 DEF AlertsWereRead, IsEvent
<1>5. from <= resumed[p] + MaxLag
  BY <1>2, <1>4 DEF AlertsWereRead, ReadBy
<1>6. /\ MaxLag \in Nat /\ WarmupEvents \in Nat /\ MinHistory \in Nat
      /\ resumed[p] \in Nat
  BY BoundsAssumption, SizesAssumption, MinHistoryAssumption DEF TypeOK
<1>7. Cardinality(SeenOffsets(job.host)) >= WarmupEvents + MinHistory
  BY DEF JobIsRead, JobIsJudged
<1>8. SeenOffsets(job.host) = Between(p, resumed[p], to)
  BY <1>3 DEF SeenOffsets, Between
<1>9. /\ Cardinality(SeenOffsets(job.host)) \in Nat
      /\ Cardinality(Between(p, from, to)) \in Nat
      /\ Cardinality(SeenOffsets(job.host)) <= Cardinality(Between(p, from, to)) + MaxLag
  <2>1. PICK r \in Nat : r = resumed[p]
    BY <1>6
  <2>2. PICK S : S = SeenOffsets(job.host)
    OBVIOUS
  <2>3. PICK last \in Nat : last = r + MaxLag
    BY <1>6
  <2>4. from <= last /\ S = Between(p, r, to)
    BY <1>5, <1>8, <2>1, <2>2, <2>3
  <2>5. /\ Cardinality(S) \in Nat /\ Cardinality(Between(p, from, to)) \in Nat
        /\ Cardinality(S) <= Cardinality(Between(p, from, to)) + MaxLag
    BY <1>6, <2>3, <2>4, ReadAfter
  <2> QED  BY <2>2, <2>5
<1>10. Cardinality(Between(p, from, to)) >= WarmupEvents + MinHistory - MaxLag
  BY <1>6, <1>7, <1>9
<1>11. telemetry[p][to].ts - telemetry[p][from].ts >= CooldownSeconds
  BY <1>3, <1>4, <1>10, Zenon DEF WarmUpOutlastsCooldown
<1> QED  BY <1>3, <1>4, <1>11

(* The other alerts of this life are told apart by clocks and by events.   *)
LEMMA AcrossRestartsStep ==
    ASSUME TypeOK, JobIsJudged, AlertingInv, WarmUpOutlastsCooldown, AlertSpacing',
           AlertSpacingAcrossRestarts, [Next]_vars, rejoins = 0
    PROVE  AlertSpacingAcrossRestarts'
<1>1. CASE InsertAlert
  <2> DEFINE Close(a, b) ==
               /\ a.host = b.host
               /\ a.is_early_warning = b.is_early_warning \/ SameEvent(a, b)
             Apart(a, b) == b.triggered_at - a.triggered_at >= CooldownSeconds
  <2>1. PICK row \in AlertRow :
           /\ alerts' = Append(alerts, row)
           /\ row.host = job.host /\ row.triggered_at = job.ts
           /\ row.partition = job.partition /\ row.offset = job.offset
           /\ row.is_early_warning = job.is_early_warning
           /\ row.life = life
    BY <1>1, AlertInserted
  <2>2. PICK n \in Nat : n = Len(alerts) /\ alerts \in Seq(AlertRow)
    BY DEF TypeOK
  <2>3. /\ DOMAIN alerts = 1..n /\ DOMAIN alerts' = 1..(n + 1)
        /\ \A i \in 1..n : alerts'[i] = alerts[i]
        /\ alerts'[n + 1] = row
    BY <2>1, <2>2
  <2>4. \A i, j \in 1..n : i < j /\ Close(alerts[i], alerts[j]) => Apart(alerts[i], alerts[j])
    BY <2>3 DEF AlertSpacingAcrossRestarts
  <2>5. ASSUME NEW i \in 1..n, Close(alerts[i], row) PROVE Apart(alerts[i], row)
    <3>1. pc = "insert_alert" /\ JobIsRead /\ AlertsWereRead /\ ~Alerted
      BY <1>1 DEF InsertAlert, AlertingInv, AlertedOnce
    <3>2. CASE alerts[i].life # life
      <4>1. job.ts - alerts[i].triggered_at >= CooldownSeconds
        BY <2>1, <2>3, <2>5, <3>1, <3>2, NewLifeWaits
      <4> QED  BY <2>1, <4>1
    <3>3. CASE alerts[i].life = life
      <4>1. ~SameEvent(alerts[i], row)
        BY <2>1, <2>3, <3>1, <3>3 DEF Alerted, SameEvent
      <4>2. SameSource(alerts[i], row)
        BY <2>1, <2>5, <3>3, <4>1 DEF SameSource
      <4>3. \A a, b \in DOMAIN alerts' :
               a < b /\ SameSource(alerts'[a], alerts'[b]) => Apart(alerts'[a], alerts'[b])
        BY DEF AlertSpacing, SameSource
      <4>4. i < n + 1 /\ i \in DOMAIN alerts' /\ n + 1 \in DOMAIN alerts'
        BY <2>2, <2>3
      <4> QED  BY <2>3, <4>2, <4>3, <4>4
    <3> QED  BY <3>2, <3>3
  <2> HIDE DEF Close, Apart
  <2>6. ASSUME NEW i \in DOMAIN alerts', NEW j \in DOMAIN alerts', i < j,
               Close(alerts'[i], alerts'[j])
        PROVE  Apart(alerts'[i], alerts'[j])
    <3>1. i \in 1..n /\ (j \in 1..n \/ j = n + 1)
      BY <2>2, <2>3, <2>6
    <3> QED  BY <2>3, <2>4, <2>5, <2>6, <3>1
  <2> QED  BY <2>6 DEF AlertSpacingAcrossRestarts, SameEvent, Close, Apart
<1>2. CASE ~InsertAlert
  <2>1. alerts' = alerts
    BY <1>2, AlertsKept
  <2> QED  BY <2>1 DEF AlertSpacingAcrossRestarts, SameEvent
<1> QED  BY <1>1, <1>2

(* On a log where a warm-up and a minimum history, less what is not        *)
(* committed, outlast the cooldown, a restart brings no alert too early    *)
(* and none twice (model_store.py:40-55, dynamic_threshold.py:20-22,       *)
(* kafka_utils.py:53).                                                     *)
THEOREM RestartsKeepSpacing == Spec => [](WarmUpOutlastsCooldown => AlertSpacingAcrossRestarts)
<1> DEFINE Kept == WarmUpOutlastsCooldown => AlertSpacingAcrossRestarts
<1>1. Init => Kept
  BY DEF Init, AlertSpacingAcrossRestarts
<1>2. ASSUME TypeOK, JobIsJudged, AlertingInv, AlertSpacing', Kept, [Next]_vars
      PROVE  Kept'
  <2> SUFFICES ASSUME WarmUpOutlastsCooldown', rejoins' = 0
               PROVE  AlertSpacingAcrossRestarts'
    BY DEF AlertSpacingAcrossRestarts
  <2>1. WarmUpOutlastsCooldown
    BY <1>2, LogIsKept DEF WarmUpOutlastsCooldown, Between
  <2>2. rejoins = 0
    BY <1>2, NoRejoin
  <2>3. AlertSpacingAcrossRestarts
    BY <1>2, <2>1
  <2> QED  BY <1>2, <2>1, <2>2, <2>3, AcrossRestartsStep
<1>3. TypeOK /\ JobIsJudged /\ AlertingInv /\ AlertSpacing' /\ Kept /\ [Next]_vars => Kept'
  BY <1>2
<1> HIDE DEF Kept
<1>4. Spec => []Kept
  BY <1>1, <1>3, TypeCorrect, HandlingCorrect, AlertingHolds, AlertsAreSpaced, PTL DEF Spec
<1> QED  BY <1>4 DEF Kept
=============================================================================
