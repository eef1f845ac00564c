-------------------------- MODULE AlgorithmsProofs --------------------------
(***************************************************************************)
(* What the detector's and the agent's pure algorithms compute, for every  *)
(* history, every window and every value of the settings.                  *)
(***************************************************************************)
EXTENDS MCAlgorithms, FiniteSetTheorems, SequenceTheorems, WellFoundedInduction, TLAPS

-----------------------------------------------------------------------------
(* Induction, as the least element of a set of naturals: a counterexample  *)
(* to a claim about every k would have a least one.                        *)
-----------------------------------------------------------------------------

(* Every non-empty set of naturals has a least element.                    *)
LEMMA Least ==
    ASSUME NEW T, T \subseteq Nat, T # {}
    PROVE  \E x \in T : \A y \in T : x <= y
<1> DEFINE R == OpToRel(<, Nat)
<1>1. IsWellFoundedOn(R, Nat)
  BY NatLessThanWellFounded
<1>2. \A x, y \in Nat : y < x => <<y, x>> \in R
  BY DEF OpToRel
<1> HIDE DEF R
<1>3. PICK x \in T : \A y \in T : ~ (<<y, x>> \in R)
  BY <1>1, WFMin
<1>4. \A y \in T : ~(y < x)
  BY <1>2, <1>3
<1>5. ASSUME NEW y \in T PROVE x <= y
  <2>1. x \in Nat /\ y \in Nat /\ ~(y < x)
    BY <1>4
  <2> QED  BY <2>1
<1> QED  BY <1>5

(* A set of naturals that has 0 and, with any k below n, also k + 1, has   *)
(* everything up to n: induction, on a set.                                *)
LEMMA UpTo ==
    ASSUME NEW n \in Nat, NEW Good, 0 \in Good,
           \A k \in 0..(n - 1) : k \in Good => k + 1 \in Good
    PROVE  \A k \in 0..n : k \in Good
<1> DEFINE Bad == {k \in 0..n : k \notin Good}
<1> SUFFICES ASSUME Bad # {} PROVE FALSE
  OBVIOUS
<1>1. Bad \subseteq Nat
  OBVIOUS
<1> HIDE DEF Bad
<1>2. PICK x \in Bad : \A y \in Bad : x <= y
  BY <1>1, Least
<1>3. x \in 0..n /\ x \notin Good
  BY DEF Bad
<1>4. x # 0
  BY <1>3
<1>5. x - 1 \in 0..(n - 1) /\ x - 1 \in 0..n /\ (x - 1) + 1 = x /\ ~(x <= x - 1)
  BY <1>3, <1>4
<1>6. x - 1 \notin Bad
  BY <1>2, <1>5
<1>7. x - 1 \in Good
  BY <1>5, <1>6 DEF Bad
<1>8. (x - 1) + 1 \in Good
  BY <1>5, <1>7
<1> QED  BY <1>3, <1>5, <1>8

(* The greatest index of a non-empty set of indices is one of them.        *)
LEMMA MaxIndex ==
    ASSUME NEW n \in Nat, NEW t, t \subseteq 1..n, t # {}
    PROVE  Max(t) \in t /\ \A y \in t : Max(t) >= y
<1> DEFINE T == {n - x : x \in t}
<1>a. \A x \in t : x \in 1..n /\ n - x \in Nat
  OBVIOUS
<1>b. T \subseteq Nat
  BY <1>a
<1>c. PICK x \in t : TRUE
  OBVIOUS
<1>d. n - x \in T
  OBVIOUS
<1>1. T \subseteq Nat /\ T # {}
  BY <1>b, <1>d
<1> HIDE DEF T
<1>2. PICK a \in T : \A y \in T : a <= y
  BY <1>1, Least
<1>3. PICK z \in t : a = n - z
  BY DEF T
<1>4. ASSUME NEW y \in t PROVE z >= y
  <2>1. n - y \in T
    BY DEF T
  <2>2. z \in 1..n /\ y \in 1..n /\ n - z <= n - y
    BY <1>2, <1>3, <2>1
  <2> QED  BY <2>2
<1>5. \E m \in t : \A y \in t : m >= y
  BY <1>4
<1> QED  BY <1>5 DEF Max

(* The index that no other exceeds is what Max chooses.                    *)
LEMMA MaxIs ==
    ASSUME NEW n \in Nat, NEW t, t \subseteq 1..n, NEW x \in t, \A y \in t : x >= y
    PROVE  Max(t) = x
<1>1. Max(t) \in t /\ \A y \in t : Max(t) >= y
  BY MaxIndex
<1>2. Max(t) >= x /\ x >= Max(t) /\ Max(t) \in 1..n /\ x \in 1..n
  BY <1>1
<1> QED  BY <1>2
-----------------------------------------------------------------------------
(* Folds over sequences.                                                   *)
-----------------------------------------------------------------------------

(* What a left fold iterates: over the sets of indices, the greatest last. *)
Iterates(F, base, n, g) ==
    \A t \in SUBSET (1..n) : g[t] = IF t = {} THEN base ELSE F[<<g[t \ {Max(t)}], Max(t)>>]

(* Such a function exists, whatever the step.                              *)
LEMMA IterationExists ==
    ASSUME NEW V, NEW n \in Nat, NEW base \in V, NEW F \in [V \X (1..n) -> V]
    PROVE  \E g \in [SUBSET (1..n) -> V] : Iterates(F, base, n, g)
<1> DEFINE Good == {k \in 0..n : \E g \in [SUBSET (1..k) -> V] : Iterates(F, base, k, g)}
<1>1. 0 \in Good
  <2> DEFINE g == [t \in SUBSET (1..0) |-> base]
  <2>1. g \in [SUBSET (1..0) -> V] /\ \A t \in SUBSET (1..0) : t = {}
    OBVIOUS
  <2>2. Iterates(F, base, 0, g)
    BY <2>1 DEF Iterates
  <2> QED  BY <2>1, <2>2
<1>2. ASSUME NEW k \in 0..(n - 1), k \in Good PROVE k + 1 \in Good
  <2>1. PICK g \in [SUBSET (1..k) -> V] : Iterates(F, base, k, g)
    BY <1>2
  <2> DEFINE h == [t \in SUBSET (1..(k + 1)) |->
                     IF k + 1 \in t THEN F[<<g[t \ {k + 1}], k + 1>>] ELSE g[t]]
  <2>2. ASSUME NEW t \in SUBSET (1..(k + 1)), k + 1 \in t
        PROVE  /\ t # {} /\ Max(t) = k + 1 /\ t \ {k + 1} \in SUBSET (1..k)
               /\ h[t] = F[<<g[t \ {k + 1}], k + 1>>]
               /\ h[t \ {k + 1}] = g[t \ {k + 1}]
               /\ h[t] \in V
    <3>1. \A y \in t : k + 1 >= y
      OBVIOUS
    <3>2. Max(t) = k + 1
      BY <3>1, <2>2, MaxIs, k + 1 \in Nat
    <3>3. t \ {k + 1} \in SUBSET (1..k)
      OBVIOUS
    <3>4. h[t] = F[<<g[t \ {k + 1}], k + 1>>]
      BY <2>2
    <3>5. t \ {k + 1} \in SUBSET (1..(k + 1)) /\ k + 1 \notin t \ {k + 1}
      OBVIOUS
    <3>6. h[t \ {k + 1}] = g[t \ {k + 1}]
      BY <3>5
    <3>7. g[t \ {k + 1}] \in V /\ k + 1 \in 1..n
      BY <3>3
    <3>8. h[t] \in V
      BY <3>4, <3>7
    <3> QED  BY <2>2, <3>2, <3>3, <3>4, <3>6, <3>8
  <2>3. ASSUME NEW t \in SUBSET (1..(k + 1)), k + 1 \notin t
        PROVE  /\ t \in SUBSET (1..k) /\ h[t] = g[t] /\ h[t] \in V
               /\ t # {} => /\ t \ {Max(t)} \in SUBSET (1..k)
                            /\ h[t \ {Max(t)}] = g[t \ {Max(t)}]
    <3>1. t \in SUBSET (1..k)
      BY <2>3
    <3>2. h[t] = g[t] /\ h[t] \in V
      BY <2>3, <3>1
    <3>3. t \ {Max(t)} \in SUBSET (1..k) /\ t \ {Max(t)} \in SUBSET (1..(k + 1))
      BY <3>1
    <3>4. h[t \ {Max(t)}] = g[t \ {Max(t)}]
      BY <2>3, <3>3
    <3> QED  BY <3>1, <3>2, <3>3, <3>4
  <2>4. h \in [SUBSET (1..(k + 1)) -> V]
    <3>1. \A t \in SUBSET (1..(k + 1)) : h[t] \in V
      BY <2>2, <2>3
    <3>2. h = [t \in SUBSET (1..(k + 1)) |-> h[t]]
      OBVIOUS
    <3> HIDE DEF h
    <3> QED  BY <3>1, <3>2
  <2>5. ASSUME NEW t \in SUBSET (1..(k + 1))
        PROVE  h[t] = IF t = {} THEN base ELSE F[<<h[t \ {Max(t)}], Max(t)>>]
    <3> HIDE DEF h
    <3>1. CASE k + 1 \in t
      <4>1. t # {} /\ Max(t) = k + 1 /\ h[t] = F[<<g[t \ {k + 1}], k + 1>>]
            /\ h[t \ {k + 1}] = g[t \ {k + 1}]
        BY <2>2, <3>1
      <4> QED  BY <4>1
    <3>2. CASE k + 1 \notin t
      <4>1. t \in SUBSET (1..k) /\ h[t] = g[t]
        BY <2>3, <3>2
      <4>2. g[t] = IF t = {} THEN base ELSE F[<<g[t \ {Max(t)}], Max(t)>>]
        BY <2>1, <4>1 DEF Iterates
      <4>3. t # {} => h[t \ {Max(t)}] = g[t \ {Max(t)}]
        BY <2>3, <3>2
      <4> QED  BY <4>1, <4>2, <4>3
    <3> QED  BY <3>1, <3>2
  <2>6. Iterates(F, base, k + 1, h)
    BY <2>5 DEF Iterates
  <2> HIDE DEF h
  <2>7. k + 1 \in 0..n
    OBVIOUS
  <2> QED  BY <2>4, <2>6, <2>7
<1> HIDE DEF Good
<1>3. n \in Good
  BY <1>1, <1>2, UpTo, n \in 0..n
<1> QED  BY <1>3 DEF Good

(* f lists the sums of the first k elements of s.                          *)
RunningSum(s, f) ==
    /\ f \in [0..Len(s) -> Int]
    /\ f[0] = 0
    /\ \A k \in 1..Len(s) : f[k] = f[k - 1] + s[k]

SumStep(s, n) == [p \in Int \X (1..n) |-> p[1] + s[p[2]]]

(* The function the sum of a sequence is read off.                         *)
Accumulates(s, g) ==
    g = [t \in SUBSET DOMAIN s |-> IF t = {} THEN 0 ELSE g[t \ {Max(t)}] + s[Max(t)]]

(* The total as the value of the function that the fold chooses.           *)
LEMMA TotalIsAccumulated ==
    ASSUME NEW s
    PROVE  Total(s) = LET g == CHOOSE g : Accumulates(s, g) IN g[DOMAIN s]
BY Zenon DEF Total, FoldLeft, MapThenFoldSet, Accumulates

(* The three modules' sums are one and the same.                           *)
LEMMA SumsAgree ==
    ASSUME NEW s
    PROVE  SumSeq(s) = Total(s) /\ AddUp(s) = Total(s)
<1>1. SumSeq(s) = LET g == CHOOSE g : Accumulates(s, g) IN g[DOMAIN s]
  BY Zenon DEF SumSeq, FoldLeft, MapThenFoldSet, Accumulates
<1>2. AddUp(s) = LET g == CHOOSE g : Accumulates(s, g) IN g[DOMAIN s]
  BY Zenon DEF AddUp, FoldLeft, MapThenFoldSet, Accumulates
<1> QED  BY <1>1, <1>2, TotalIsAccumulated, Zenon

(* There is a function as the fold describes it.                           *)
LEMMA AccumulationExists ==
    ASSUME NEW s \in Seq(Int)
    PROVE  \E g : Accumulates(s, g)
<1> DEFINE n == Len(s)
<1>1. n \in Nat /\ DOMAIN s = 1..n /\ s \in [1..n -> Int]
  BY LenProperties
<1> HIDE DEF n
<1>2. SumStep(s, n) \in [Int \X (1..n) -> Int]
  BY <1>1 DEF SumStep
<1>3. PICK g \in [SUBSET (1..n) -> Int] : Iterates(SumStep(s, n), 0, n, g)
  BY <1>1, <1>2, IterationExists, 0 \in Int
<1>4. ASSUME NEW t \in SUBSET (1..n), t # {}
      PROVE  g[t] = g[t \ {Max(t)}] + s[Max(t)]
  <2>1. Max(t) \in 1..n
    BY <1>1, <1>4, MaxIndex
  <2>2. t \ {Max(t)} \in SUBSET (1..n)
    OBVIOUS
  <2>3. <<g[t \ {Max(t)}], Max(t)>> \in Int \X (1..n)
    BY <2>1, <2>2
  <2>4. SumStep(s, n)[<<g[t \ {Max(t)}], Max(t)>>] = g[t \ {Max(t)}] + s[Max(t)]
    BY <2>3 DEF SumStep
  <2> QED  BY <1>3, <1>4, <2>4 DEF Iterates
<1>5. \A t \in SUBSET (1..n) : t = {} => g[t] = 0
  BY <1>3 DEF Iterates
<1>6. \A t \in SUBSET (1..n) :
        g[t] = IF t = {} THEN 0 ELSE g[t \ {Max(t)}] + s[Max(t)]
  BY <1>4, <1>5
<1>7. g = [t \in SUBSET (1..n) |-> g[t]]
  OBVIOUS
<1>8. Accumulates(s, g)
  BY <1>1, <1>6, <1>7, Zenon DEF Accumulates
<1> QED  BY <1>8

(* The sum of a sequence is reached by adding its elements in order.       *)
LEMMA TotalRuns ==
    ASSUME NEW s \in Seq(Int)
    PROVE  \E f : RunningSum(s, f) /\ Total(s) = f[Len(s)]
<1> DEFINE n == Len(s)
<1>1. n \in Nat /\ DOMAIN s = 1..n /\ s \in [1..n -> Int]
  BY LenProperties
<1> HIDE DEF n
<1>2. PICK g : Accumulates(s, g) /\ Total(s) = g[DOMAIN s]
  BY AccumulationExists, TotalIsAccumulated
<1>3. g[{}] = 0
  BY <1>1, <1>2 DEF Accumulates
<1>4. ASSUME NEW k \in 1..n PROVE g[1..k] = g[1..(k - 1)] + s[k]
  <2>a. k \in Nat /\ k \in 1..k /\ \A y \in 1..k : k >= y /\ y \in 1..n
    BY <1>1
  <2>b. (1..k) \ {k} = 1..(k - 1)
    <3>1. \A y : y \in (1..k) \ {k} <=> y \in 1..(k - 1)
      BY <2>a
    <3> QED  BY <3>1
  <2>1. 1..k \in SUBSET (1..n) /\ 1..k # {} /\ k \in 1..k /\ (1..k) \ {k} = 1..(k - 1)
    BY <2>a, <2>b
  <2>2. Max(1..k) = k
    BY <2>a, MaxIs
  <2>3. g[1..k] = g[(1..k) \ {Max(1..k)}] + s[Max(1..k)]
    BY <1>1, <1>2, <2>1 DEF Accumulates
  <2> QED  BY <2>1, <2>2, <2>3
<1> DEFINE f == [k \in 0..n |-> g[1..k]]
<1>5. f[0] = 0 /\ \A k \in 1..n : f[k] = f[k - 1] + s[k]
  <2>1. 1..0 = {} /\ 0 \in 0..n
    BY <1>1
  <2>2. f[0] = 0
    BY <1>3, <2>1
  <2>3. ASSUME NEW k \in 1..n PROVE f[k] = f[k - 1] + s[k]
    <3>1. k \in 0..n /\ k - 1 \in 0..n
      BY <1>1
    <3> QED  BY <3>1, <1>4
  <2> QED  BY <2>2, <2>3
<1>6. f \in [0..n -> Int]
  <2> DEFINE Good == {k \in 0..n : f[k] \in Int}
  <2> HIDE DEF f
  <2>1. 0 \in Good
    BY <1>1, <1>5
  <2>2. \A k \in 0..(n - 1) : k \in Good => k + 1 \in Good
    <3>1. SUFFICES ASSUME NEW k \in 0..(n - 1), f[k] \in Int
                   PROVE  k + 1 \in 0..n /\ f[k + 1] \in Int
      OBVIOUS
    <3>2. k + 1 \in 1..n /\ (k + 1) - 1 = k
      BY <1>1
    <3>3. f[k + 1] = f[k] + s[k + 1] /\ s[k + 1] \in Int
      BY <1>1, <1>5, <3>2
    <3> QED  BY <1>1, <3>1, <3>2, <3>3
  <2> HIDE DEF Good
  <2>3. \A k \in 0..n : k \in Good
    BY <1>1, <2>1, <2>2, UpTo
  <2> QED  BY <2>3, \A k \in 0..n : f[k] \in Int DEF Good, f
<1>7. Total(s) = f[n]
  BY <1>1, <1>2, n \in 0..n
<1> HIDE DEF f
<1> QED  BY <1>5, <1>6, <1>7 DEF RunningSum, n
-----------------------------------------------------------------------------
(* Order statistics.                                                       *)
-----------------------------------------------------------------------------

Below(h, v)  == {i \in DOMAIN h : h[i] < v}
AtMost(h, v) == {i \in DOMAIN h : h[i] <= v}
Above(h, v)  == {i \in DOMAIN h : h[i] > v}

(* v is the k-th smallest value of h.                                      *)
HasRank(h, k, v) == Cardinality(Below(h, v)) < k /\ Cardinality(AtMost(h, v)) >= k

(* A history of at least one score.                                        *)
IsHistory(h) == h \in Seq(Nat) /\ Len(h) >= 1

(* What a history is made of.                                              *)
LEMMA HistoryDomain ==
    ASSUME NEW h, IsHistory(h)
    PROVE  /\ Len(h) \in Nat \ {0} /\ DOMAIN h = 1..Len(h) /\ h \in [1..Len(h) -> Nat]
           /\ h[Len(h)] \in Nat
           /\ \A i \in DOMAIN h : h[i] \in Nat
           /\ Last(h) = h[Len(h)]
<1>1. Len(h) \in Nat /\ DOMAIN h = 1..Len(h) /\ h \in [1..Len(h) -> Nat] /\ Len(h) >= 1
  BY LenProperties DEF IsHistory
<1>2. Len(h) \in 1..Len(h)
  BY <1>1
<1>3. Last(h) = h[Len(h)]
  BY DEF Last
<1> QED  BY <1>1, <1>2, <1>3

(* Sets of positions are finite and can be compared by their size.         *)
LEMMA DomainCounts ==
    ASSUME NEW h, IsHistory(h), NEW T \in SUBSET DOMAIN h
    PROVE  /\ IsFiniteSet(T) /\ Cardinality(T) \in Nat /\ Cardinality(T) <= Len(h)
           /\ \A U \in SUBSET T : IsFiniteSet(U) /\ Cardinality(U) \in Nat
                                  /\ Cardinality(U) <= Cardinality(T)
<1>1. IsFiniteSet(DOMAIN h) /\ Cardinality(DOMAIN h) = Len(h)
  <2>1. Len(h) \in Nat /\ DOMAIN h = 1..Len(h) /\ Len(h) >= 1
    BY HistoryDomain
  <2>2. IsFiniteSet(1..Len(h)) /\ Cardinality(1..Len(h)) = Len(h)
    BY <2>1, FS_Interval
  <2> QED  BY <2>1, <2>2
<1>2. IsFiniteSet(T) /\ Cardinality(T) \in Nat /\ Cardinality(T) <= Len(h)
  BY <1>1, FS_Subset, FS_CardinalityType
<1>3. \A U \in SUBSET T : IsFiniteSet(U) /\ Cardinality(U) \in Nat
                          /\ Cardinality(U) <= Cardinality(T)
  BY <1>2, FS_Subset, FS_CardinalityType
<1> QED  BY <1>2, <1>3

(* The scores of a history are bounded.                                    *)
LEMMA HistoryBounded ==
    ASSUME NEW h, IsHistory(h)
    PROVE  \E b \in Nat : \A i \in DOMAIN h : h[i] <= b
<1> DEFINE n == Len(h)
<1>1. n \in Nat /\ DOMAIN h = 1..n /\ \A i \in 1..n : h[i] \in Nat
  BY HistoryDomain
<1> HIDE DEF n
<1> DEFINE Good == {k \in 0..n : \E b \in Nat : \A i \in 1..k : h[i] <= b}
<1>2. 0 \in Good
  <2>1. \A i \in 1..0 : h[i] <= 0
    OBVIOUS
  <2> QED  BY <1>1, <2>1
<1>3. ASSUME NEW k \in 0..(n - 1), k \in Good PROVE k + 1 \in Good
  <2>1. PICK b \in Nat : \A i \in 1..k : h[i] <= b
    BY <1>3
  <2>2. k + 1 \in 1..n /\ h[k + 1] \in Nat
    BY <1>1
  <2>3. PICK c \in Nat : c >= b /\ c >= h[k + 1]
    <3>1. b + h[k + 1] \in Nat /\ b + h[k + 1] >= b /\ b + h[k + 1] >= h[k + 1]
      BY <2>2
    <3> QED  BY <3>1
  <2>4. ASSUME NEW i \in 1..(k + 1) PROVE h[i] <= c
    <3>1. CASE i = k + 1
      BY <3>1, <2>3
    <3>2. CASE i # k + 1
      <4>1. i \in 1..k /\ i \in 1..n
        BY <3>2, <1>1
      <4>2. h[i] \in Nat /\ h[i] <= b
        BY <4>1, <2>1, <1>1
      <4> QED  BY <4>2, <2>3
    <3> QED  BY <3>1, <3>2
  <2>5. k + 1 \in 0..n
    BY <1>1
  <2> QED  BY <2>4, <2>5
<1> HIDE DEF Good
<1>4. n \in Good
  BY <1>1, <1>2, <1>3, UpTo, n \in 0..n
<1> QED  BY <1>1, <1>4 DEF Good

(* At most one value has a given rank, and ranks are ordered as values.    *)
LEMMA RankMonotone ==
    ASSUME NEW h, IsHistory(h), NEW k \in Nat, NEW l \in Nat, k <= l,
           NEW v \in Int, NEW w \in Int, HasRank(h, k, v), HasRank(h, l, w)
    PROVE  v <= w
<1> SUFFICES ASSUME w < v PROVE FALSE
  OBVIOUS
<1>1. AtMost(h, w) \in SUBSET Below(h, v)
  BY HistoryDomain DEF AtMost, Below
<1>2. Below(h, v) \in SUBSET DOMAIN h
  BY DEF Below
<1>3. Cardinality(AtMost(h, w)) <= Cardinality(Below(h, v))
      /\ Cardinality(AtMost(h, w)) \in Nat /\ Cardinality(Below(h, v)) \in Nat
  BY <1>1, <1>2, DomainCounts
<1> QED  BY <1>3 DEF HasRank

(* A history has one value of each rank, however often scores repeat.      *)
LEMMA RankUnique ==
    ASSUME NEW h, IsHistory(h), NEW k \in Nat,
           NEW v \in Int, NEW w \in Int, HasRank(h, k, v), HasRank(h, k, w)
    PROVE  v = w
<1>1. v <= w /\ w <= v
  BY RankMonotone, k <= k
<1> QED  BY <1>1

(* A value of some rank occurs.                                            *)
LEMMA RankOccurs ==
    ASSUME NEW h, IsHistory(h), NEW k \in Nat, NEW v \in Int, HasRank(h, k, v)
    PROVE  \E i \in DOMAIN h : h[i] = v
<1> SUFFICES ASSUME \A i \in DOMAIN h : h[i] # v PROVE FALSE
  OBVIOUS
<1>1. AtMost(h, v) = Below(h, v)
  <2>1. \A i \in DOMAIN h : h[i] <= v <=> h[i] < v
    BY HistoryDomain
  <2> QED  BY <2>1 DEF AtMost, Below
<1>2. Below(h, v) \in SUBSET DOMAIN h
  BY DEF Below
<1>3. Cardinality(Below(h, v)) \in Nat
  BY <1>2, DomainCounts
<1> QED  BY <1>1, <1>3 DEF HasRank

(* The least value that has at least k scores up to it is the one of rank  *)
(* k.                                                                      *)
LEMMA RankExists ==
    ASSUME NEW h, IsHistory(h), NEW k \in 1..Len(h)
    PROVE  \E v \in Nat : HasRank(h, k, v)
<1>1. Len(h) \in Nat /\ DOMAIN h = 1..Len(h) /\ \A i \in DOMAIN h : h[i] \in Nat
  BY HistoryDomain
<1>2. k \in Nat /\ k >= 1 /\ k <= Len(h)
  BY <1>1
<1>3. \A v : Below(h, v) \in SUBSET DOMAIN h /\ AtMost(h, v) \in SUBSET DOMAIN h
  BY DEF Below, AtMost
<1>4. \A v : Cardinality(Below(h, v)) \in Nat /\ Cardinality(AtMost(h, v)) \in Nat
  BY <1>3, DomainCounts
<1> DEFINE T == {v \in Nat : Cardinality(AtMost(h, v)) >= k}
<1>5. T # {}
  <2>1. PICK b \in Nat : \A i \in DOMAIN h : h[i] <= b
    BY HistoryBounded
  <2>2. AtMost(h, b) = 1..Len(h)
    BY <2>1, <1>1 DEF AtMost
  <2>3. Cardinality(AtMost(h, b)) = Len(h)
    <3>1. 1 \in Nat /\ Len(h) - 1 + 1 = Len(h)
      BY <1>1
    <3>2. Cardinality(1..Len(h)) = Len(h)
      <4>1. PICK n \in Int : n = Len(h) /\ 1 <= n
        <5>1. Len(h) \in Int /\ 1 <= Len(h)
          BY <1>1, <1>2
        <5> QED  BY <5>1
      <4>2. Cardinality(1..n) = n
        <5>1. Cardinality(1..n) = IF 1 > n THEN 0 ELSE n - 1 + 1
          BY 1 \in Int, n \in Int, FS_Interval
        <5> QED  BY <4>1, <5>1
      <4> QED  BY <4>1, <4>2, Zenon
    <3> QED  BY <2>2, <3>2
  <2>4. b \in T
    BY <2>3, <1>2
  <2> QED  BY <2>4
<1>6. T \subseteq Nat
  OBVIOUS
<1>7. PICK v \in T : \A y \in T : v <= y
  <2> HIDE DEF T
  <2> QED  BY <1>5, <1>6, Least
<1>8. v \in Nat /\ Cardinality(AtMost(h, v)) >= k
  OBVIOUS
<1>9. Cardinality(Below(h, v)) < k
  <2>1. CASE v = 0
    <3>1. Below(h, v) = {}
      BY <1>1, <2>1 DEF Below
    <3>2. Cardinality(Below(h, v)) = 0
      BY <3>1, FS_EmptySet
    <3> QED  BY <3>2, <1>2
  <2>2. CASE v # 0
    <3>1. v - 1 \in Nat /\ ~(v <= v - 1)
      BY <2>2, <1>8
    <3>2. v - 1 \notin T
      BY <3>1, <1>7
    <3>3. Cardinality(AtMost(h, v - 1)) < k
      <4>1. ~(Cardinality(AtMost(h, v - 1)) >= k)
        BY <3>1, <3>2
      <4> QED  BY <4>1, <1>4, <1>2
    <3>4. Below(h, v) = AtMost(h, v - 1)
      <4>1. \A i \in DOMAIN h : h[i] < v <=> h[i] <= v - 1
        BY <1>1, <1>8
      <4> QED  BY <4>1 DEF Below, AtMost
    <3> QED  BY <3>3, <3>4
  <2> QED  BY <2>1, <2>2
<1> QED  BY <1>8, <1>9 DEF HasRank

(* OrderStatistic is the value of its rank, and the only one.              *)
LEMMA OrderStatisticRank ==
    ASSUME NEW h, IsHistory(h), NEW k \in 1..Len(h)
    PROVE  /\ OrderStatistic(h, k) \in Nat
           /\ HasRank(h, k, OrderStatistic(h, k))
           /\ \A v \in Int : HasRank(h, k, v) => OrderStatistic(h, k) = v
<1>1. Len(h) \in Nat /\ DOMAIN h = 1..Len(h) /\ \A i \in DOMAIN h : h[i] \in Nat
  BY HistoryDomain
<1>2. k \in Nat
  BY <1>1
<1>3. Range(h) = {h[i] : i \in DOMAIN h}
  BY DEF Range
<1>4. PICK v \in Nat : HasRank(h, k, v)
  BY RankExists
<1>5. v \in Range(h)
  BY <1>2, <1>3, <1>4, RankOccurs, v \in Int
<1>6. OrderStatistic(h, k) = CHOOSE u \in Range(h) : HasRank(h, k, u)
  BY DEF OrderStatistic, HasRank, Below, AtMost
<1>7. OrderStatistic(h, k) \in Range(h) /\ HasRank(h, k, OrderStatistic(h, k))
  BY <1>4, <1>5, <1>6
<1>8. OrderStatistic(h, k) \in Nat
  BY <1>1, <1>3, <1>7
<1>9. \A u \in Int : HasRank(h, k, u) => OrderStatistic(h, k) = u
  BY <1>2, <1>7, <1>8, RankUnique, OrderStatistic(h, k) \in Int
<1> QED  BY <1>7, <1>8, <1>9
-----------------------------------------------------------------------------
(* The adaptive threshold.                                                 *)
-----------------------------------------------------------------------------

(* The threshold lies m hundredths of the way from low to high, which have *)
(* the ranks q + 1 and q + 2 (or are one, at the end of the history).      *)
Interpolates(h, q, m, low, high) ==
    /\ q \in Nat /\ m \in 0..99 /\ q + 1 <= Len(h)
    /\ Percentile * (Len(h) - 1) = 100 * q + m
    /\ low \in Nat /\ high \in Nat /\ low <= high
    /\ HasRank(h, q + 1, low)
    /\ q + 2 <= Len(h) => HasRank(h, q + 2, high)
    /\ q + 2 > Len(h) => high = low
    /\ ScaledThreshold(h) = 100 * low + m * (high - low)

(* The virtual index falls on a position of the history.                   *)
LEMMA RankOfPercentile ==
    ASSUME NEW r \in Nat, NEW n \in Nat, r <= 100 * (n - 1)
    PROVE  /\ r \div 100 \in Nat /\ r % 100 \in 0..99 /\ r \div 100 + 1 <= n
           /\ r = 100 * (r \div 100) + (r % 100)
OBVIOUS

(* The threshold lies between the values of two consecutive ranks.         *)
LEMMA ThresholdInterpolates ==
    ASSUME NEW h, IsHistory(h)
    PROVE  \E q, m, low, high : Interpolates(h, q, m, low, high)
<1>1. PICK n : n = Len(h)
  OBVIOUS
<1>2. n \in Nat /\ n >= 1
  BY <1>1, HistoryDomain
<1>3. PICK r : r = Percentile * (n - 1)
  OBVIOUS
<1>4. r \in Nat /\ r <= 100 * (n - 1)
  <2>1. Percentile \in Nat /\ Percentile <= 100 /\ n - 1 \in Nat
    BY <1>2, PercentileAssumption
  <2>2. \A p, k \in Nat : p <= 100 => p * k \in Nat /\ p * k <= 100 * k
    OBVIOUS
  <2> QED  BY <1>3, <2>1, <2>2
<1>5. PICK q, m : q = r \div 100 /\ m = r % 100
  OBVIOUS
<1>6. q \in Nat /\ m \in 0..99 /\ q + 1 <= n /\ r = 100 * q + m
  BY <1>2, <1>4, <1>5, RankOfPercentile
<1>7. PICK low : low = OrderStatistic(h, q + 1)
  OBVIOUS
<1>8. q + 1 \in 1..n
  BY <1>2, <1>6
<1>9. low \in Nat /\ HasRank(h, q + 1, low)
  BY <1>1, <1>7, <1>8, OrderStatisticRank
<1>10. PICK high : high = IF q + 2 <= n THEN OrderStatistic(h, q + 2) ELSE low
  OBVIOUS
<1>11. ScaledThreshold(h) = 100 * low + m * (high - low)
  BY <1>1, <1>3, <1>5, <1>7, <1>10 DEF ScaledThreshold
<1>12. CASE q + 2 <= n
  <2>1. q + 2 \in 1..n /\ high = OrderStatistic(h, q + 2)
    BY <1>2, <1>6, <1>10, <1>12
  <2>2. high \in Nat /\ HasRank(h, q + 2, high)
    BY <1>1, <2>1, OrderStatisticRank
  <2>3. low <= high
    <3>1. q + 1 \in Nat /\ q + 2 \in Nat /\ q + 1 <= q + 2 /\ low \in Int /\ high \in Int
      BY <1>6, <1>9, <2>2
    <3> QED  BY <3>1, <2>2, <1>9, RankMonotone
  <2>4. Interpolates(h, q, m, low, high)
    BY <1>1, <1>2, <1>3, <1>6, <1>9, <1>11, <1>12, <2>2, <2>3 DEF Interpolates
  <2> QED  BY <2>4
<1>13. CASE q + 2 > n
  <2>1. high = low
    BY <1>2, <1>6, <1>10, <1>13
  <2>2. ~(q + 2 <= Len(h)) /\ low <= high
    BY <1>1, <1>2, <1>6, <1>9, <1>13, <2>1
  <2>3. Interpolates(h, q, m, low, high)
    BY <1>1, <1>2, <1>3, <1>6, <1>9, <1>11, <2>1, <2>2 DEF Interpolates
  <2> QED  BY <2>3
<1> QED  BY <1>2, <1>6, <1>12, <1>13

(* The scores above the threshold are at most the share the percentile     *)
(* leaves, rounded up.                                                     *)
LEMMA ShareAboveThreshold ==
    ASSUME NEW h, IsHistory(h)
    PROVE  100 * Cardinality({i \in DOMAIN h : 100 * h[i] > ScaledThreshold(h)})
             <= (100 - Percentile) * (Len(h) - 1) + 99
<1>1. PICK q, m, low, high : Interpolates(h, q, m, low, high)
  BY ThresholdInterpolates
<1>2. PICK n, t : n = Len(h) /\ t = ScaledThreshold(h)
  OBVIOUS
<1>3. n \in Nat /\ n >= 1 /\ DOMAIN h = 1..n /\ \A i \in DOMAIN h : h[i] \in Nat
  BY <1>2, HistoryDomain
<1>4. q \in Nat /\ m \in 0..99 /\ low \in Nat /\ high \in Nat /\ low <= high
      /\ Percentile * (n - 1) = 100 * q + m
      /\ t = 100 * low + m * (high - low) /\ HasRank(h, q + 1, low)
  BY <1>1, <1>2 DEF Interpolates
<1>5. t \in Int /\ t >= 100 * low
  <2>1. \A a, b \in Nat : a * b \in Nat
    OBVIOUS
  <2>2. high - low \in Nat /\ m \in Nat
    BY <1>4
  <2>3. m * (high - low) \in Nat
    BY <2>1, <2>2
  <2>4. PICK d : d = m * (high - low)
    OBVIOUS
  <2> QED  BY <1>4, <2>3, <2>4
<1> DEFINE above == {i \in DOMAIN h : 100 * h[i] > t}
<1>6. above \in SUBSET (DOMAIN h \ AtMost(h, low))
  <2>1. ASSUME NEW i \in DOMAIN h, 100 * h[i] > t PROVE ~(h[i] <= low)
    <3>1. h[i] \in Nat
      BY <1>3
    <3> QED  BY <3>1, <1>4, <1>5, <2>1
  <2> QED  BY <2>1 DEF AtMost
<1>7. PICK U : U = AtMost(h, low)
  OBVIOUS
<1>8. U \in SUBSET DOMAIN h
  BY <1>7 DEF AtMost
<1>9. IsFiniteSet(DOMAIN h) /\ Cardinality(DOMAIN h) = n
  BY <1>3, FS_Interval
<1>10. Cardinality(DOMAIN h \ U) = n - Cardinality(U)
  <2>1. IsFiniteSet(U)
    BY <1>8, DomainCounts
  <2>2. DOMAIN h \cap U = U
    BY <1>8
  <2> QED  BY <1>9, <2>1, <2>2, FS_Difference
<1>11. Cardinality(above) <= Cardinality(DOMAIN h \ U) /\ Cardinality(above) \in Nat
  <2>1. DOMAIN h \ U \in SUBSET DOMAIN h /\ above \in SUBSET (DOMAIN h \ U)
    BY <1>6, <1>7
  <2> QED  BY <2>1, DomainCounts
<1>12. Cardinality(U) \in Nat /\ Cardinality(U) >= q + 1
  BY <1>4, <1>7, <1>8, DomainCounts DEF HasRank
<1>13. Cardinality(above) <= n - (q + 1)
  BY <1>3, <1>4, <1>10, <1>11, <1>12
<1>14. (100 - Percentile) * (n - 1) = 100 * (n - 1) - (100 * q + m)
  <2>1. Percentile \in Int /\ n - 1 \in Int
    BY <1>3, PercentileAssumption
  <2>2. \A p, k \in Int : (100 - p) * k = 100 * k - p * k
    OBVIOUS
  <2> QED  BY <1>4, <2>1, <2>2
<1>15. PICK a, s : a = Cardinality(above) /\ s = (100 - Percentile) * (n - 1)
  OBVIOUS
<1>16. 100 * a <= s + 99
  <2>1. s = 100 * (n - 1) - (100 * q + m) /\ a \in Nat /\ a <= n - (q + 1)
    BY <1>11, <1>13, <1>14, <1>15
  <2>2. n \in Nat /\ q \in Nat /\ m \in 0..99
    BY <1>3, <1>4
  <2> QED  BY <2>1, <2>2
<1> QED  BY <1>2, <1>15, <1>16

(* A new maximum is above the threshold.                                   *)
LEMMA MaximumIsAnomalous ==
    ASSUME NEW h, IsHistory(h), Len(h) >= 2, Percentile < 100,
           \A i \in 1..(Len(h) - 1) : h[i] < Last(h)
    PROVE  100 * Last(h) > ScaledThreshold(h)
<1>1. PICK q, m, low, high : Interpolates(h, q, m, low, high)
  BY ThresholdInterpolates
<1>2. PICK n, t, last : n = Len(h) /\ t = ScaledThreshold(h) /\ last = Last(h)
  OBVIOUS
<1>3. n \in Nat /\ n >= 2 /\ DOMAIN h = 1..n /\ \A i \in DOMAIN h : h[i] \in Nat
  BY <1>2, HistoryDomain
<1>4. last = h[n] /\ last \in Nat /\ \A i \in 1..(n - 1) : h[i] < last
  BY <1>2, HistoryDomain
<1>5. q \in Nat /\ m \in 0..99 /\ low \in Nat /\ high \in Nat /\ low <= high
      /\ Percentile * (n - 1) = 100 * q + m
      /\ t = 100 * low + m * (high - low) /\ HasRank(h, q + 1, low)
      /\ (q + 2 <= n => HasRank(h, q + 2, high))
  BY <1>1, <1>2 DEF Interpolates
<1>6. q + 2 <= n
  <2>1. Percentile \in Nat /\ Percentile <= 99 /\ n - 1 \in Nat
    BY <1>3, PercentileAssumption
  <2>2. \A p, k \in Nat : p <= 99 => p * k <= 99 * k
    OBVIOUS
  <2>3. 100 * q + m <= 99 * (n - 1)
    BY <1>5, <2>1, <2>2
  <2> QED  BY <1>3, <1>5, <2>3
<1>7. low < last
  <2> SUFFICES ASSUME low >= last PROVE FALSE
    BY <1>4, <1>5
  <2>1. 1..(n - 1) \in SUBSET Below(h, low)
    <3>1. ASSUME NEW i \in 1..(n - 1) PROVE i \in DOMAIN h /\ h[i] < low
      <4>1. i \in DOMAIN h /\ h[i] \in Nat /\ h[i] < last
        BY <1>3, <1>4
      <4> QED  BY <4>1, <1>4, <1>5
    <3> QED  BY <3>1 DEF Below
  <2>2. Below(h, low) \in SUBSET DOMAIN h
    BY DEF Below
  <2>3. Cardinality(1..(n - 1)) <= Cardinality(Below(h, low))
        /\ Cardinality(Below(h, low)) \in Nat
    BY <2>1, <2>2, DomainCounts
  <2>4. Cardinality(1..(n - 1)) = n - 1
    <3>1. 1 \in Int /\ n - 1 \in Int /\ 1 <= n - 1
      BY <1>3
    <3> QED  BY <3>1, FS_Interval
  <2> QED  BY <1>3, <1>5, <1>6, <2>3, <2>4 DEF HasRank
<1>8. high <= last
  <2> SUFFICES ASSUME high > last PROVE FALSE
    BY <1>4, <1>5
  <2>1. Below(h, high) = 1..n
    <3>1. ASSUME NEW i \in DOMAIN h PROVE h[i] < high
      <4>1. h[i] \in Nat /\ h[i] <= last
        <5>1. i = n \/ i \in 1..(n - 1)
          BY <1>3
        <5>2. h[i] \in Nat
          BY <1>3
        <5> QED  BY <5>1, <5>2, <1>4
      <4> QED  BY <4>1, <1>4, <1>5
    <3> QED  BY <3>1, <1>3 DEF Below
  <2>2. Cardinality(1..n) = n
    BY <1>3, FS_Interval
  <2> QED  BY <1>3, <1>5, <1>6, <2>1, <2>2 DEF HasRank
<1>9. m * (high - low) <= 99 * (last - low)
  <2>1. PICK u, w : u = high - low /\ w = last - low
    OBVIOUS
  <2>a. low \in Nat /\ high \in Nat /\ low <= high /\ m \in 0..99
    BY <1>5
  <2>b. u \in Nat /\ w \in Nat /\ u <= w
    BY <1>4, <1>7, <1>8, <2>1, <2>a
  <2>2. u \in Nat /\ w \in Nat /\ u <= w /\ m \in Nat /\ m <= 99
    BY <2>a, <2>b
  <2>3. \A a, b, c \in Nat : a <= 99 /\ b <= c => a * b <= 99 * c
    OBVIOUS
  <2>4. m * u <= 99 * w
    BY <2>2, <2>3
  <2> QED  BY <2>1, <2>4
<1>10. PICK d : d = m * (high - low)
  OBVIOUS
<1>11. d \in Int
  BY <1>5, <1>10
<1>12. t = 100 * low + d /\ d <= 99 * (last - low)
  BY <1>5, <1>9, <1>10
<1>13. 100 * last > t
  <2>1. low \in Nat /\ last \in Nat /\ low < last
    BY <1>4, <1>5, <1>7
  <2> QED  BY <1>11, <1>12, <2>1
<1> QED  BY <1>2, <1>13
-----------------------------------------------------------------------------
(* What the four variables can hold.                                       *)
-----------------------------------------------------------------------------

Point == [ts : Nat, score : Nat]

(* The rows of a host come one after the other.                            *)
Ascending(t) == \A i, j \in DOMAIN t : i < j => t[i].ts < t[j].ts

(* Every history is a sequence of scores, every window a sequence of       *)
(* points, the metrics' windows have one length, and a host's rows are in  *)
(* the order of their timestamps.                                          *)
Inputs ==
    /\ history \in Seq(Nat)
    /\ points \in Seq(Point)
    /\ windows \in [Metrics -> Seq(Nat)]
    /\ windows # NoWindows => \E n \in Nat \ {0} : \A m \in Metrics : Len(windows[m]) = n
    /\ table \in Seq(MetricsRow)
    /\ Ascending(table)

(* Nothing is given at first.                                              *)
LEMMA InputsInit == Init => Inputs
<1>1. <<>> \in Seq(Nat) /\ <<>> \in Seq(Point) /\ <<>> \in Seq(MetricsRow)
      /\ DOMAIN <<>> = {}
  OBVIOUS
<1>2. Ascending(<<>>)
  BY <1>1 DEF Ascending
<1> QED  BY <1>1, <1>2 DEF Init, Inputs, NoWindows

(* A row behind the others keeps their order.                              *)
LEMMA RowAppended ==
    ASSUME NEW t \in Seq(MetricsRow), Ascending(t), NEW gap \in Nat \ {0},
           NEW value \in [Metrics -> Nat], NEW row,
           row = [ts |-> IF t = <<>> THEN 10 ELSE Last(t).ts + gap, value |-> value]
    PROVE  Append(t, row) \in Seq(MetricsRow) /\ Ascending(Append(t, row))
<1>1. PICK n \in Nat : n = Len(t)
  BY LenProperties
<1>2. \A i \in 1..n : t[i] \in MetricsRow /\ t[i].ts \in Nat
  <2>1. \A i \in 1..n : t[i] \in MetricsRow
    BY <1>1, ElementOfSeq
  <2> QED  BY <2>1 DEF MetricsRow
<1>3. \A i, j \in 1..n : i < j => t[i].ts < t[j].ts
  <2>1. DOMAIN t = 1..n
    BY <1>1, LenProperties
  <2> QED  BY <2>1 DEF Ascending
<1>4. row.ts \in Nat /\ row \in MetricsRow /\ \A i \in 1..n : t[i].ts < row.ts
  <2>1. CASE t = <<>>
    <3>1. n = 0
      BY <1>1, <2>1
    <3> QED  BY <2>1, <3>1 DEF MetricsRow
  <2>2. CASE t # <<>>
    <3>1. n >= 1 /\ n \in 1..n
      BY <1>1, <2>2, EmptySeq
    <3>2. row.ts = t[n].ts + gap
      BY <1>1, <2>2 DEF Last
    <3>3. t[n].ts \in Nat /\ \A i \in 1..n : t[i].ts \in Nat /\ t[i].ts <= t[n].ts
      <4>1. ASSUME NEW i \in 1..n PROVE t[i].ts \in Nat /\ t[i].ts <= t[n].ts
        <5>1. i = n \/ i < n
          BY <3>1
        <5> QED  BY <1>2, <1>3, <3>1, <5>1
      <4> QED  BY <3>1, <4>1
    <3>4. row.ts \in Nat /\ \A i \in 1..n : t[i].ts < row.ts
      BY <3>2, <3>3
    <3> QED  BY <3>4 DEF MetricsRow
  <2> QED  BY <2>1, <2>2
<1>5. Append(t, row) \in Seq(MetricsRow) /\ DOMAIN Append(t, row) = 1..(n + 1)
      /\ (\A i \in 1..n : Append(t, row)[i] = t[i]) /\ Append(t, row)[n + 1] = row
  BY <1>1, <1>4, AppendProperties
<1>6. ASSUME NEW i \in 1..(n + 1), NEW j \in 1..(n + 1), i < j
      PROVE  Append(t, row)[i].ts < Append(t, row)[j].ts
  <2>1. i \in 1..n /\ (j \in 1..n \/ j = n + 1)
    BY <1>6
  <2> QED  BY <1>3, <1>4, <1>5, <1>6, <2>1
<1> QED  BY <1>5, <1>6 DEF Ascending

(* What is appended or filled in is of the right type.                     *)
LEMMA InputsStep == Inputs /\ [Next]_vars => Inputs'
<1> SUFFICES ASSUME Inputs, [Next]_vars PROVE Inputs'
  OBVIOUS
<1>0. /\ history \in Seq(Nat) /\ points \in Seq(Point) /\ windows \in [Metrics -> Seq(Nat)]
      /\ (windows # NoWindows => \E n \in Nat \ {0} : \A m \in Metrics : Len(windows[m]) = n)
      /\ table \in Seq(MetricsRow) /\ Ascending(table)
  BY DEF Inputs
<1>1. CASE GrowHistory
  <2>1. PICK score \in HistoryScores : history' = Append(history, score)
    BY <1>1 DEF GrowHistory
  <2>2. history' \in Seq(Nat)
    BY <1>0, <2>1, HistoryScoresAssumption
  <2> QED  BY <1>0, <1>1, <2>2 DEF GrowHistory, Inputs, NoWindows
<1>2. CASE GrowWindow
  <2>1. PICK gap \in Gaps, score \in TrendScores :
          points' = Append(points,
            [ts |-> IF points = <<>> THEN 10 ELSE Last(points).ts + gap, score |-> score])
    BY <1>2 DEF GrowWindow
  <2>2. gap \in Nat /\ score \in Nat
    BY <2>1, GapsAssumption, TrendScoresAssumption
  <2>3. PICK ts : ts = IF points = <<>> THEN 10 ELSE Last(points).ts + gap
    OBVIOUS
  <2>4. ts \in Nat
    <3>1. CASE points = <<>>
      BY <2>3, <3>1
    <3>2. CASE points # <<>>
      <4>1. Len(points) \in DOMAIN points /\ DOMAIN points = 1..Len(points)
        BY <1>0, <3>2, LenProperties, EmptySeq
      <4>2. points[Len(points)] \in Point
        BY <1>0, <4>1, ElementOfSeq
      <4>3. points[Len(points)].ts \in Nat
        BY <4>2 DEF Point
      <4> QED  BY <2>2, <2>3, <3>2, <4>3 DEF Last
    <3> QED  BY <3>1, <3>2
  <2>5. [ts |-> ts, score |-> score] \in Point
    BY <2>2, <2>4 DEF Point
  <2>6. points' \in Seq(Point)
    BY <1>0, <2>1, <2>3, <2>5
  <2> QED  BY <1>0, <1>2, <2>6 DEF GrowWindow, Inputs, NoWindows
<1>3. CASE FillWindows
  <2>1. /\ windows' \in [Metrics -> Seq(Nat)]
        /\ \A m, other \in Metrics :
             Len(windows'[m]) > 0 /\ Len(windows'[m]) = Len(windows'[other])
    BY <1>3, MetricWindowsAssumption DEF FillWindows
  <2>2. "cpu_pct" \in Metrics
    <3>1. METRIC_NAMES[1] = "cpu_pct" /\ 1 \in DOMAIN METRIC_NAMES
      BY DEF METRIC_NAMES
    <3> QED  BY <3>1 DEF Metrics, Range
  <2>3. PICK n : n = Len(windows'["cpu_pct"])
    OBVIOUS
  <2>4. n \in Nat \ {0} /\ \A m \in Metrics : Len(windows'[m]) = n
    <3>1. windows'["cpu_pct"] \in Seq(Nat)
      BY <2>1, <2>2
    <3>2. n \in Nat
      BY <2>3, <3>1, LenProperties
    <3> QED  BY <2>1, <2>2, <2>3, <3>2
  <2> QED  BY <1>0, <1>3, <2>1, <2>4 DEF FillWindows, Inputs, NoWindows
<1>4. CASE GrowTable
  <2>1. PICK gap \in RowGaps, value \in RowValues :
          table' = Append(table,
            [ts |-> IF table = <<>> THEN 10 ELSE Last(table).ts + gap, value |-> value])
    BY <1>4 DEF GrowTable
  <2>2. gap \in Nat \ {0} /\ value \in [Metrics -> Nat]
    BY <2>1, RowGapsAssumption, RowValuesAssumption
  <2>3. table' \in Seq(MetricsRow) /\ Ascending(table')
    BY <1>0, <2>1, <2>2, RowAppended
  <2> QED  BY <1>0, <1>4, <2>3 DEF GrowTable, Inputs, NoWindows
<1>5. CASE UNCHANGED vars
  BY <1>0, <1>5 DEF Inputs, vars, NoWindows
<1> QED  BY <1>1, <1>2, <1>3, <1>4, <1>5 DEF Next

(* The type of the four variables in every  reachable state.               *)
THEOREM InputsAlways == Spec => []Inputs
BY InputsInit, InputsStep, PTL DEF Spec

(* At most the share the percentile leaves is above the threshold; the     *)
(* newest score, if it is a new maximum, always.                           *)
LEMMA TopShare == Inputs => AnomaliesAreTheTopShare
<1> SUFFICES ASSUME Inputs, history # <<>> PROVE AnomaliesAreTheTopShare
  BY DEF AnomaliesAreTheTopShare
<1>1. history \in Seq(Nat) /\ IsHistory(history)
  <2>1. history \in Seq(Nat)
    BY DEF Inputs
  <2>2. Len(history) \in Nat /\ Len(history) # 0
    BY <2>1, EmptySeq, LenProperties
  <2> QED  BY <2>1, <2>2 DEF IsHistory
<1>2. Len(history) \in Nat \ {0} /\ DOMAIN history = 1..Len(history)
      /\ Last(history) = history[Len(history)]
  BY <1>1, HistoryDomain
<1> DEFINE threshold == ScaledThreshold(history)
           above == {i \in DOMAIN history : 100 * history[i] > threshold}
           maximum == \A i \in 1..(Len(history) - 1) : history[i] < Last(history)
<1>3. 100 * Cardinality(above) <= (100 - Percentile) * (Len(history) - 1) + 99
  BY <1>1, ShareAboveThreshold
<1>4. IsAnomaly(history) => Len(history) \in above /\ Len(history) >= MinHistory
  BY <1>2 DEF IsAnomaly, HasThreshold
<1>5. ASSUME Percentile < 100, Len(history) \in (MinHistory..MaxHistory) \ {1}, maximum
      PROVE  IsAnomaly(history)
  <2>1. Len(history) >= MinHistory /\ Len(history) >= 2
    BY <1>2, <1>5, MinHistoryAssumption
  <2>2. 100 * Last(history) > ScaledThreshold(history)
    BY <1>1, <1>5, <2>1, MaximumIsAnomalous
  <2> QED  BY <2>1, <2>2 DEF IsAnomaly, HasThreshold
<1> HIDE DEF threshold, above, maximum
<1>6. /\ 100 * Cardinality(above) <= (100 - Percentile) * (Len(history) - 1) + 99
      /\ IsAnomaly(history) => Len(history) \in above /\ Len(history) >= MinHistory
      /\ Percentile < 100 /\ Len(history) \in (MinHistory..MaxHistory) \ {1} /\ maximum
           => IsAnomaly(history)
  BY <1>3, <1>4, <1>5
<1> QED  BY <1>6, Zenon DEF AnomaliesAreTheTopShare, threshold, above, maximum

(* For every percentile and every history: at most the share of scores the *)
(* percentile leaves lies above the threshold, an anomaly is one of them,  *)
(* and a new maximum of a long enough history always is.                   *)
THEOREM AnomaliesAreTheTopShareAlways == Spec => []AnomaliesAreTheTopShare
BY InputsAlways, TopShare, PTL
-----------------------------------------------------------------------------
(* Sums.                                                                   *)
-----------------------------------------------------------------------------

(* What a sequence of integers is made of.                                 *)
LEMMA IntSeq ==
    ASSUME NEW s \in Seq(Int)
    PROVE  /\ Len(s) \in Nat /\ DOMAIN s = 1..Len(s) /\ s \in [1..Len(s) -> Int]
           /\ \A i \in 1..Len(s) : s[i] \in Int
BY LenProperties

(* The total of integers is an integer.                                    *)
LEMMA TotalType ==
    ASSUME NEW s \in Seq(Int)
    PROVE  Total(s) \in Int
<1>1. PICK f : RunningSum(s, f) /\ Total(s) = f[Len(s)]
  BY TotalRuns
<1>2. Len(s) \in 0..Len(s)
  BY IntSeq
<1> QED  BY <1>1, <1>2 DEF RunningSum

(* u is a combination of s and t, element by element.                      *)
Combines(u, a, s, b, t, c) ==
    /\ Len(s) = Len(u) /\ Len(t) = Len(u)
    /\ \A i \in 1..Len(u) : u[i] = a * s[i] + b * t[i] + c

TotalsCombine(u, a, s, b, t, c) == Total(u) = a * Total(s) + b * Total(t) + c * Len(u)

(* Sums are linear: a claim about three sums follows from the same claim   *)
(* about the elements.                                                     *)
LEMMA TotalLinear ==
    ASSUME NEW s \in Seq(Int), NEW t \in Seq(Int), NEW u \in Seq(Int),
           NEW a \in Int, NEW b \in Int, NEW c \in Int, Combines(u, a, s, b, t, c)
    PROVE  TotalsCombine(u, a, s, b, t, c)
<1>1. PICK n : n = Len(u)
  OBVIOUS
<1>2. n \in Nat /\ Len(s) = n /\ Len(t) = n
  BY <1>1, IntSeq DEF Combines
<1>3. PICK f : RunningSum(s, f) /\ Total(s) = f[n]
  BY <1>2, TotalRuns
<1>4. PICK g : RunningSum(t, g) /\ Total(t) = g[n]
  BY <1>2, TotalRuns
<1>5. PICK h : RunningSum(u, h) /\ Total(u) = h[n]
  BY <1>1, TotalRuns
<1>6. \A k \in 0..n : f[k] \in Int /\ g[k] \in Int /\ h[k] \in Int
  BY <1>1, <1>2, <1>3, <1>4, <1>5 DEF RunningSum
<1>7. \A k \in 1..n : s[k] \in Int /\ t[k] \in Int /\ u[k] = a * s[k] + b * t[k] + c
  BY <1>1, <1>2, IntSeq DEF Combines
<1>8. f[0] = 0 /\ g[0] = 0 /\ h[0] = 0
  BY <1>3, <1>4, <1>5 DEF RunningSum
<1> DEFINE Good == {k \in 0..n : h[k] = a * f[k] + b * g[k] + c * k}
<1>9. 0 \in Good
  <2>1. 0 = a * 0 + b * 0 + c * 0
    OBVIOUS
  <2> QED  BY <1>2, <1>8, <2>1
<1>10. ASSUME NEW k \in 0..(n - 1), k \in Good PROVE k + 1 \in Good
  <2>1. k + 1 \in 1..n /\ (k + 1) - 1 = k /\ k + 1 \in 0..n /\ k \in 0..n
    BY <1>2
  <2>2. f[k + 1] = f[k] + s[k + 1] /\ g[k + 1] = g[k] + t[k + 1] /\ h[k + 1] = h[k] + u[k + 1]
    BY <1>1, <1>2, <1>3, <1>4, <1>5, <2>1 DEF RunningSum
  <2>3. PICK x, y, p, q, r, z : /\ x = s[k + 1] /\ y = t[k + 1] /\ z = u[k + 1]
                                /\ p = f[k] /\ q = g[k] /\ r = h[k]
    OBVIOUS
  <2>4. x \in Int /\ y \in Int /\ p \in Int /\ q \in Int /\ z = a * x + b * y + c
    BY <1>6, <1>7, <2>1, <2>3
  <2>5. r = a * p + b * q + c * k
    BY <1>10, <2>3
  <2>6. r + z = a * (p + x) + b * (q + y) + c * (k + 1)
    <3>1. a * (p + x) = a * p + a * x /\ b * (q + y) = b * q + b * y /\ c * (k + 1) = c * k + c
      BY <2>4
    <3>2. /\ a * p \in Int /\ a * x \in Int /\ b * q \in Int /\ b * y \in Int /\ c * k \in Int
      BY <2>4
    <3> QED  BY <2>4, <2>5, <3>1, <3>2
  <2>7. h[k + 1] = a * f[k + 1] + b * g[k + 1] + c * (k + 1)
    BY <2>2, <2>3, <2>6
  <2> QED  BY <2>1, <2>7
<1> HIDE DEF Good
<1>11. n \in Good
  BY <1>2, <1>9, <1>10, UpTo, n \in 0..n
<1> QED  BY <1>1, <1>3, <1>4, <1>5, <1>11 DEF Good, TotalsCombine

(* The sum of a sequence is that of another one that differs in its last   *)
(* element, corrected by it.                                               *)
LEMMA TotalButLast ==
    ASSUME NEW s \in Seq(Int), NEW t \in Seq(Int), NEW n \in Nat, n >= 1,
           Len(s) = n, Len(t) = n, \A i \in 1..(n - 1) : t[i] = s[i]
    PROVE  Total(t) = Total(s) + (t[n] - s[n])
<1>1. PICK f : RunningSum(s, f) /\ Total(s) = f[n]
  BY TotalRuns
<1>2. PICK g : RunningSum(t, g) /\ Total(t) = g[n]
  BY TotalRuns
<1>3. \A k \in 0..n : f[k] \in Int /\ g[k] \in Int
  BY <1>1, <1>2 DEF RunningSum
<1>4. \A k \in 1..n : s[k] \in Int /\ t[k] \in Int
  BY IntSeq
<1>5. \A k \in 1..n : f[k] = f[k - 1] + s[k] /\ g[k] = g[k - 1] + t[k]
  BY <1>1, <1>2 DEF RunningSum
<1> DEFINE Good == {k \in 0..(n - 1) : f[k] = g[k]}
<1>6. 0 \in Good
  BY <1>1, <1>2 DEF RunningSum
<1>7. ASSUME NEW k \in 0..((n - 1) - 1), k \in Good PROVE k + 1 \in Good
  <2>1. k + 1 \in 1..n /\ (k + 1) - 1 = k /\ k + 1 \in 1..(n - 1)
    OBVIOUS
  <2>2. f[k + 1] = f[k] + s[k + 1] /\ g[k + 1] = g[k] + t[k + 1] /\ t[k + 1] = s[k + 1]
    BY <1>5, <2>1
  <2>3. f[k] = g[k]
    BY <1>7
  <2> QED  BY <2>1, <2>2, <2>3
<1> HIDE DEF Good
<1>8. n - 1 \in Nat /\ n - 1 \in 0..(n - 1) /\ n \in 1..n /\ n \in 0..n /\ n - 1 \in 0..n
  OBVIOUS
<1>9. n - 1 \in Good
  BY <1>6, <1>7, <1>8, UpTo
<1>10. f[n - 1] = g[n - 1] /\ f[n - 1] \in Int /\ s[n] \in Int /\ t[n] \in Int
  BY <1>3, <1>4, <1>8, <1>9 DEF Good
<1>11. f[n] = f[n - 1] + s[n] /\ g[n] = g[n - 1] + t[n]
  BY <1>5, <1>8
<1> QED  BY <1>1, <1>2, <1>10, <1>11

(* A total of numbers that are not negative is not negative.               *)
LEMMA TotalNonnegative ==
    ASSUME NEW s \in Seq(Int), \A i \in 1..Len(s) : s[i] >= 0
    PROVE  Total(s) >= 0
<1>1. PICK n : n = Len(s)
  OBVIOUS
<1>2. n \in Nat /\ \A i \in 1..n : s[i] \in Int /\ s[i] >= 0
  BY <1>1, IntSeq
<1>3. PICK f : RunningSum(s, f) /\ Total(s) = f[n]
  BY <1>1, TotalRuns
<1>4. f[0] = 0 /\ \A k \in 1..n : f[k] = f[k - 1] + s[k]
  BY <1>1, <1>3 DEF RunningSum
<1>5. \A k \in 0..n : f[k] \in Int
  BY <1>1, <1>3 DEF RunningSum
<1> DEFINE Good == {k \in 0..n : f[k] >= 0}
<1>6. 0 \in Good
  BY <1>2, <1>4
<1>7. ASSUME NEW k \in 0..(n - 1), k \in Good PROVE k + 1 \in Good
  <2>1. k + 1 \in 1..n /\ (k + 1) - 1 = k /\ k + 1 \in 0..n /\ k \in 0..n
    BY <1>2
  <2>2. f[k + 1] = f[k] + s[k + 1] /\ f[k] \in Int /\ f[k] >= 0
        /\ s[k + 1] \in Int /\ s[k + 1] >= 0
    BY <1>2, <1>4, <1>5, <1>7, <2>1
  <2>3. f[k + 1] >= 0
    BY <2>2
  <2> QED  BY <2>1, <2>3
<1> HIDE DEF Good
<1>8. n \in Good
  BY <1>2, <1>6, <1>7, UpTo, n \in 0..n
<1> QED  BY <1>3, <1>8 DEF Good
-----------------------------------------------------------------------------
(* Variances.                                                              *)
-----------------------------------------------------------------------------

Product(s, t) == [i \in DOMAIN s |-> s[i] * t[i]]

(* The products of the elements of two sequences, as a sequence.           *)
LEMMA ProductType ==
    ASSUME NEW s \in Seq(Int), NEW t \in Seq(Int), Len(s) = Len(t)
    PROVE  /\ Product(s, t) \in Seq(Int) /\ Len(Product(s, t)) = Len(s)
           /\ \A i \in 1..Len(s) : Product(s, t)[i] = s[i] * t[i]
<1>1. PICK n : n = Len(s)
  OBVIOUS
<1>2. n \in Nat /\ DOMAIN s = 1..n /\ \A i \in 1..n : s[i] \in Int /\ t[i] \in Int
  BY <1>1, IntSeq
<1>3. \A i \in 1..n : s[i] * t[i] \in Int
  BY <1>2
<1>4. [i \in 1..n |-> s[i] * t[i]] \in Seq(Int) /\ Len([i \in 1..n |-> s[i] * t[i]]) = n
  BY <1>2, <1>3
<1> QED  BY <1>1, <1>2, <1>4 DEF Product

IsProduct(p, s, t) ==
    p \in Seq(Int) /\ Len(p) = Len(s) /\ \A i \in 1..Len(s) : p[i] = s[i] * t[i]

(* The same, as one named fact.                                            *)
LEMMA ProductIs ==
    ASSUME NEW s \in Seq(Int), NEW t \in Seq(Int), Len(s) = Len(t)
    PROVE  IsProduct(Product(s, t), s, t)
BY ProductType DEF IsProduct

(* One more term keeps the inequality of Cauchy and Schwarz.               *)
LEMMA CauchyStep ==
    ASSUME NEW e \in Nat, NEW G \in Int, NEW F \in Int, NEW x \in Int,
           G >= 0, e * G >= F * F
    PROVE  /\ G + x * x >= 0
           /\ (e + 1) * (G + x * x) >= (F + x) * (F + x)
<1>1. x * x >= 0 /\ x * x \in Int /\ F * F >= 0
  OBVIOUS
<1>2. CASE e = 0
  <2>1. F * F <= 0
    BY <1>2
  <2>2. F = 0
    BY <1>1, <2>1
  <2> QED  BY <1>1, <1>2, <2>2
<1>3. CASE e > 0
  <2>1. PICK d, z : /\ d = (e + 1) * (G + x * x) - (F + x) * (F + x)
                    /\ z = (F - e * x) * (F - e * x)
    OBVIOUS
  <2>2. d \in Int /\ z \in Int /\ z >= 0
    <3>1. \A w \in Int : w * w \in Int /\ w * w >= 0
      OBVIOUS
    <3>2. F - e * x \in Int
      OBVIOUS
    <3> QED  BY <2>1, <3>1, <3>2
  <2>3. e * d = (e + 1) * (e * G - F * F) + z
    BY <2>1
  <2>4. (e + 1) * (e * G - F * F) >= 0
    <3>1. \A p, q \in Int : p >= 0 /\ q >= 0 => p * q >= 0
      OBVIOUS
    <3>2. e + 1 \in Int /\ e + 1 >= 0 /\ e * G - F * F \in Int /\ e * G - F * F >= 0
      OBVIOUS
    <3> QED  BY <3>1, <3>2
  <2>5. e * d >= 0
    <3>1. (e + 1) * (e * G - F * F) \in Int
      OBVIOUS
    <3> QED  BY <2>2, <2>3, <2>4, <3>1
  <2>6. d >= 0
    BY <2>2, <2>5, <1>3
  <2>7. (e + 1) * (G + x * x) \in Int /\ (F + x) * (F + x) \in Int
    OBVIOUS
  <2> QED  BY <1>1, <2>1, <2>6, <2>7
<1> QED  BY <1>2, <1>3

(* The arithmetic of Samuelson's inequality: from the other elements to    *)
(* all of them.                                                            *)
LEMMA SamuelsonLast ==
    ASSUME NEW n \in Int, NEW Q \in Int, NEW S \in Int, NEW y \in Int, n >= 1,
           (n - 1) * (Q - y * y) >= (S - y) * (S - y)
    PROVE  (n - 1) * (n * Q - S * S) >= (n * y - S) * (n * y - S)
<1>1. PICK d : d = (n - 1) * (Q - y * y) - (S - y) * (S - y)
  OBVIOUS
<1>2. d \in Int /\ d >= 0
  <2>1. (n - 1) * (Q - y * y) \in Int /\ (S - y) * (S - y) \in Int
    OBVIOUS
  <2> QED  BY <1>1, <2>1
<1>3. (n - 1) * (n * Q - S * S) - (n * y - S) * (n * y - S) = n * d
  BY <1>1
<1>4. n * d >= 0
  BY <1>2
<1>5. (n - 1) * (n * Q - S * S) \in Int /\ (n * y - S) * (n * y - S) \in Int
  OBVIOUS
<1> QED  BY <1>3, <1>4, <1>5

(* An element is not farther from the mean than n - 1 times the variance   *)
(* allows.                                                                 *)
LEMMA Samuelson ==
    ASSUME NEW s \in Seq(Int), NEW n \in Nat, n = Len(s), NEW j \in 1..n,
           NEW Q, Q = Total(Product(s, s)), NEW S, S = Total(s)
    PROVE  /\ Q \in Int /\ S \in Int
           /\ (n - 1) * (n * Q - S * S) >= (n * s[j] - S) * (n * s[j] - S)
<1>1. Product(s, s) \in Seq(Int) /\ Len(Product(s, s)) = n
      /\ \A i \in 1..n : Product(s, s)[i] = s[i] * s[i] /\ s[i] \in Int
  BY ProductType, IntSeq
<1>2. PICK f : RunningSum(s, f) /\ S = f[n]
  BY TotalRuns
<1>3. PICK g : RunningSum(Product(s, s), g) /\ Q = g[n]
  BY <1>1, TotalRuns
<1>4. \A k \in 0..n : f[k] \in Int /\ g[k] \in Int
  BY <1>1, <1>2, <1>3 DEF RunningSum
<1>5. f[0] = 0 /\ g[0] = 0
      /\ \A k \in 1..n : f[k] = f[k - 1] + s[k] /\ g[k] = g[k - 1] + s[k] * s[k]
  BY <1>1, <1>2, <1>3 DEF RunningSum
<1>6. PICK y \in Int : y = s[j]
  BY <1>1
<1> DEFINE Others(k, e, G, F) == /\ k < j => e = k /\ G = g[k] /\ F = f[k]
                                 /\ k >= j => e = k - 1 /\ G = g[k] - y * y /\ F = f[k] - y
           Good == {k \in 0..n : \E e \in Nat, G \in Int, F \in Int :
                      Others(k, e, G, F) /\ G >= 0 /\ e * G >= F * F}
<1>7. 0 \in Good
  <2>1. Others(0, 0, 0, 0) /\ 0 >= 0 /\ 0 * 0 >= 0 * 0
    BY <1>5
  <2> QED  BY <2>1
<1>8. ASSUME NEW k \in 0..(n - 1), k \in Good PROVE k + 1 \in Good
  <2>1. k + 1 \in 1..n /\ (k + 1) - 1 = k /\ k + 1 \in 0..n /\ k \in 0..n /\ k \in Nat
    OBVIOUS
  <2>2. PICK e \in Nat, G \in Int, F \in Int : Others(k, e, G, F) /\ G >= 0 /\ e * G >= F * F
    BY <1>8
  <2>3. PICK x \in Int : x = s[k + 1]
    BY <1>1, <2>1
  <2>4. PICK p, q, p1, q1 : p = f[k] /\ q = g[k] /\ p1 = f[k + 1] /\ q1 = g[k + 1]
    OBVIOUS
  <2>5. p \in Int /\ q \in Int /\ p1 = p + x /\ q1 = q + x * x
    <3>1. p \in Int /\ q \in Int
      BY <1>4, <2>1, <2>4
    <3>2. f[k + 1] = f[k] + s[k + 1] /\ g[k + 1] = g[k] + s[k + 1] * s[k + 1]
      BY <1>5, <2>1
    <3> QED  BY <2>3, <2>4, <3>1, <3>2, Zenon
  <2>6. CASE k + 1 = j
    <3>1. e = k /\ G = q /\ F = p /\ x = y
      <4>1. k < j
        BY <2>1, <2>6
      <4>2. e = k /\ G = g[k] /\ F = f[k]
        BY <2>2, <4>1
      <4> QED  BY <1>6, <2>3, <2>4, <2>6, <4>2, Zenon
    <3>2. q1 - y * y = q /\ p1 - y = p
      BY <2>5, <3>1
    <3>3. Others(k + 1, e, G, F)
      BY <2>1, <2>4, <2>6, <3>1, <3>2
    <3> QED  BY <2>1, <2>2, <3>3
  <2>7. CASE k + 1 # j
    <3>1. (e + 1) * (G + x * x) >= (F + x) * (F + x) /\ G + x * x >= 0
      BY <2>2, <2>3, CauchyStep
    <3>2. G + x * x \in Int /\ F + x \in Int /\ e + 1 \in Nat
      OBVIOUS
    <3>3. Others(k + 1, e + 1, G + x * x, F + x)
      <4>1. CASE k + 1 < j
        <5>1. e = k /\ G = q /\ F = p
          BY <2>1, <2>2, <2>4, <4>1
        <5> QED  BY <2>1, <2>4, <2>5, <4>1, <5>1
      <4>2. CASE k + 1 > j
        <5>1. e = k - 1 /\ G = q - y * y /\ F = p - y
          BY <2>1, <2>2, <2>4, <4>2
        <5>2. G + x * x = q1 - y * y /\ F + x = p1 - y /\ e + 1 = (k + 1) - 1
          <6>1. x * x \in Int /\ y * y \in Int
            OBVIOUS
          <6> QED  BY <2>1, <2>5, <5>1, <6>1
        <5> QED  BY <2>1, <2>4, <4>2, <5>2
      <4> QED  BY <2>1, <2>7, <4>1, <4>2
    <3> HIDE DEF Others
    <3>4. \E e1 \in Nat, G1 \in Int, F1 \in Int :
            Others(k + 1, e1, G1, F1) /\ G1 >= 0 /\ e1 * G1 >= F1 * F1
      BY <3>1, <3>2, <3>3
    <3> QED  BY <2>1, <3>4
  <2> QED  BY <2>6, <2>7
<1>9. n \in Good
  <2> HIDE DEF Good
  <2> QED  BY <1>7, <1>8, UpTo, n \in 0..n
<1>10. n >= j /\ ~(n < j) /\ n \in 0..n /\ n >= 1
  OBVIOUS
<1>11. Q \in Int /\ S \in Int
  BY <1>2, <1>3, <1>4, <1>10
<1>12. (n - 1) * (Q - y * y) >= (S - y) * (S - y)
  BY <1>2, <1>3, <1>9, <1>10
<1>13. n \in Int /\ n >= 1 /\ Q \in Int /\ S \in Int /\ y \in Int
  BY <1>10, <1>11
<1>15. (n - 1) * (n * Q - S * S) >= (n * y - S) * (n * y - S)
  BY <1>12, <1>13, SamuelsonLast
<1> QED  BY <1>6, <1>11, <1>15

(* The variance that severity is judged by, in sums.                       *)
LEMMA VarianceIs ==
    ASSUME NEW s \in Seq(Int)
    PROVE  ScaledVariance(s) = Len(s) * Total(Product(s, s)) - Total(s) * Total(s)
<1>1. SumSeq([i \in DOMAIN s |-> s[i] * s[i]]) = Total(Product(s, s))
  BY SumsAgree DEF Product
<1>2. SumSeq(s) = Total(s)
  BY SumsAgree
<1> QED  BY <1>1, <1>2 DEF ScaledVariance

(* Values of the two ranks determine the threshold.                        *)
Neighbours(h, q, m, low, high) ==
    /\ q \in Nat /\ m \in 0..99 /\ q + 1 <= Len(h)
    /\ Percentile * (Len(h) - 1) = 100 * q + m
    /\ low \in Nat /\ high \in Nat
    /\ HasRank(h, q + 1, low)
    /\ q + 2 <= Len(h) => HasRank(h, q + 2, high)
    /\ q + 2 > Len(h) => high = low

(* The threshold is determined by any two values of the right ranks.       *)
LEMMA NeighboursInterpolate ==
    ASSUME NEW h, IsHistory(h), NEW q, NEW m, NEW low, NEW high,
           Neighbours(h, q, m, low, high)
    PROVE  ScaledThreshold(h) = 100 * low + m * (high - low) /\ low <= high
<1>1. PICK q1, m1, low1, high1 : Interpolates(h, q1, m1, low1, high1)
  BY ThresholdInterpolates
<1>2. PICK n, r : n = Len(h) /\ r = Percentile * (Len(h) - 1)
  OBVIOUS
<1>3. n \in Nat
  BY <1>2, HistoryDomain
<1>4. /\ q \in Nat /\ m \in 0..99 /\ q + 1 <= n /\ r = 100 * q + m
      /\ low \in Nat /\ high \in Nat /\ HasRank(h, q + 1, low)
      /\ (q + 2 <= n => HasRank(h, q + 2, high)) /\ (q + 2 > n => high = low)
  BY <1>2 DEF Neighbours
<1>5. /\ q1 \in Nat /\ m1 \in 0..99 /\ r = 100 * q1 + m1
      /\ low1 \in Nat /\ high1 \in Nat /\ low1 <= high1 /\ HasRank(h, q1 + 1, low1)
      /\ (q1 + 2 <= n => HasRank(h, q1 + 2, high1)) /\ (q1 + 2 > n => high1 = low1)
      /\ ScaledThreshold(h) = 100 * low1 + m1 * (high1 - low1)
  BY <1>1, <1>2 DEF Interpolates
<1>6. q1 = q /\ m1 = m
  <2>1. q \in Nat /\ m \in 0..99 /\ r = 100 * q + m
        /\ q1 \in Nat /\ m1 \in 0..99 /\ r = 100 * q1 + m1
    BY <1>4, <1>5
  <2> QED  BY <2>1
<1>7. low1 = low
  <2>1. q + 1 \in Nat /\ low \in Int /\ low1 \in Int
        /\ HasRank(h, q + 1, low) /\ HasRank(h, q + 1, low1)
    BY <1>4, <1>5, <1>6
  <2> QED  BY <2>1, RankUnique
<1>8. high1 = high
  <2>1. CASE q + 2 <= n
    <3>1. q + 2 \in Nat /\ high \in Int /\ high1 \in Int
          /\ HasRank(h, q + 2, high) /\ HasRank(h, q + 2, high1)
      BY <1>4, <1>5, <1>6, <2>1
    <3> QED  BY <3>1, RankUnique
  <2>2. CASE q + 2 > n
    BY <1>4, <1>5, <1>6, <1>7, <2>2
  <2> QED  BY <1>3, <1>4, <2>1, <2>2
<1> QED  BY <1>5, <1>6, <1>7, <1>8

(* h with its scores multiplied by a and moved by b.                       *)
Moved(h, a, b) == [i \in DOMAIN h |-> a * h[i] + b]

(* A moved history is a history.                                           *)
LEMMA MovedType ==
    ASSUME NEW h, IsHistory(h), NEW a \in Nat \ {0}, NEW b \in Nat
    PROVE  /\ IsHistory(Moved(h, a, b)) /\ Len(Moved(h, a, b)) = Len(h)
           /\ \A i \in 1..Len(h) : Moved(h, a, b)[i] = a * h[i] + b
           /\ Last(Moved(h, a, b)) = a * Last(h) + b
<1>1. PICK n : n = Len(h)
  OBVIOUS
<1>2. n \in Nat \ {0} /\ DOMAIN h = 1..n /\ \A i \in 1..n : h[i] \in Nat
  BY <1>1, HistoryDomain
<1>3. \A i \in 1..n : a * h[i] + b \in Nat
  <2>1. \A x \in Nat : a * x + b \in Nat
    OBVIOUS
  <2> QED  BY <1>2, <2>1
<1>4. Moved(h, a, b) = [i \in 1..n |-> a * h[i] + b]
  BY <1>2 DEF Moved
<1>5. Moved(h, a, b) \in Seq(Nat) /\ Len(Moved(h, a, b)) = n
  BY <1>2, <1>3, <1>4
<1>6. n \in 1..n /\ n >= 1
  BY <1>2
<1>7. IsHistory(Moved(h, a, b))
  BY <1>5, <1>6 DEF IsHistory
<1>8. Last(Moved(h, a, b)) = Moved(h, a, b)[n] /\ Last(h) = h[n]
  BY <1>1, <1>5, <1>7, HistoryDomain
<1> QED  BY <1>1, <1>4, <1>5, <1>6, <1>7, <1>8

(* Moving the scores moves the value of each rank.                         *)
LEMMA MovedRank ==
    ASSUME NEW h, IsHistory(h), NEW a \in Nat \ {0}, NEW b \in Nat,
           NEW k, NEW v \in Nat, HasRank(h, k, v)
    PROVE  HasRank(Moved(h, a, b), k, a * v + b) /\ a * v + b \in Nat
<1>1. DOMAIN Moved(h, a, b) = DOMAIN h
  BY DEF Moved
<1>2. ASSUME NEW i \in DOMAIN h
      PROVE  /\ Moved(h, a, b)[i] < a * v + b <=> h[i] < v
             /\ Moved(h, a, b)[i] <= a * v + b <=> h[i] <= v
  <2>1. PICK x \in Nat : x = h[i]
    BY HistoryDomain
  <2>2. (a * x + b < a * v + b <=> x < v) /\ (a * x + b <= a * v + b <=> x <= v)
    OBVIOUS
  <2>3. Moved(h, a, b)[i] = a * x + b
    BY <2>1 DEF Moved
  <2> QED  BY <2>1, <2>2, <2>3
<1>3. Below(Moved(h, a, b), a * v + b) = Below(h, v)
  BY <1>1, <1>2 DEF Below
<1>4. AtMost(Moved(h, a, b), a * v + b) = AtMost(h, v)
  BY <1>1, <1>2 DEF AtMost
<1>5. a * v + b \in Nat
  OBVIOUS
<1> QED  BY <1>3, <1>4, <1>5 DEF HasRank

(* A threshold is an integer.                                              *)
LEMMA ThresholdType ==
    ASSUME NEW h, IsHistory(h)
    PROVE  ScaledThreshold(h) \in Int
<1>1. PICK q, m, low, high : Interpolates(h, q, m, low, high)
  BY ThresholdInterpolates
<1>2. m \in Int /\ low \in Int /\ high \in Int
      /\ ScaledThreshold(h) = 100 * low + m * (high - low)
  BY <1>1 DEF Interpolates
<1>3. \A x, y, z \in Int : 100 * x + y * (z - x) \in Int
  OBVIOUS
<1> QED  BY <1>2, <1>3

(* The threshold moves with the scores.                                    *)
LEMMA MovedThreshold ==
    ASSUME NEW h, IsHistory(h), NEW a \in Nat \ {0}, NEW b \in Nat
    PROVE  ScaledThreshold(Moved(h, a, b)) = a * ScaledThreshold(h) + 100 * b
<1>1. PICK q, m, low, high : Interpolates(h, q, m, low, high)
  BY ThresholdInterpolates
<1>2. IsHistory(Moved(h, a, b)) /\ Len(Moved(h, a, b)) = Len(h)
  BY MovedType
<1>3. PICK n, mh, l1, h1 : /\ n = Len(h) /\ mh = Moved(h, a, b)
                           /\ l1 = a * low + b /\ h1 = a * high + b
  OBVIOUS
<1>4. /\ q \in Nat /\ m \in 0..99 /\ q + 1 <= n
      /\ Percentile * (n - 1) = 100 * q + m
      /\ low \in Nat /\ high \in Nat /\ HasRank(h, q + 1, low)
      /\ (q + 2 <= n => HasRank(h, q + 2, high)) /\ (q + 2 > n => high = low)
      /\ ScaledThreshold(h) = 100 * low + m * (high - low)
  BY <1>1, <1>3 DEF Interpolates
<1>5. HasRank(mh, q + 1, l1) /\ l1 \in Nat
  BY <1>3, <1>4, MovedRank
<1>6. (q + 2 <= n => HasRank(mh, q + 2, h1))
  BY <1>3, <1>4, MovedRank
<1>7. h1 \in Nat
  <2>1. \A x \in Nat : a * x + b \in Nat
    OBVIOUS
  <2> QED  BY <1>3, <1>4, <2>1
<1>8. q + 2 > n => h1 = l1
  BY <1>3, <1>4
<1>9. Neighbours(mh, q, m, l1, h1)
  <2>1. Len(mh) = n
    BY <1>2, <1>3
  <2> QED  BY <1>4, <1>5, <1>6, <1>7, <1>8, <2>1, Zenon DEF Neighbours
<1>10. ScaledThreshold(mh) = 100 * l1 + m * (h1 - l1)
  BY <1>2, <1>3, <1>9, NeighboursInterpolate
<1>11. 100 * (a * low + b) + m * ((a * high + b) - (a * low + b))
         = a * (100 * low + m * (high - low)) + 100 * b
  <2>1. m \in Int /\ low \in Int /\ high \in Int
    BY <1>4
  <2> QED  BY <2>1
<1> QED  BY <1>3, <1>4, <1>10, <1>11

(* Naturals are integers, in sequences too.                                *)
LEMMA NatSeqIsInt ==
    ASSUME NEW s \in Seq(Nat)
    PROVE  s \in Seq(Int)
OBVIOUS

(* t is s with its elements multiplied by a and moved by b.                *)
IsMoved(t, s, a, b) == Len(t) = Len(s) /\ \A i \in 1..Len(s) : t[i] = a * s[i] + b

SumsMove(t, s, a, b) ==
    /\ Total(t) = a * Total(s) + b * Len(s)
    /\ Total(Product(t, t))
         = (a * a) * Total(Product(s, s)) + (2 * a * b) * Total(s) + (b * b) * Len(s)

(* The sums of a moved sequence and of its squares.                        *)
LEMMA MovedSums ==
    ASSUME NEW s \in Seq(Int), NEW t \in Seq(Int), NEW a \in Int, NEW b \in Int,
           IsMoved(t, s, a, b)
    PROVE  SumsMove(t, s, a, b)
<1>a. PICK n, S, Q, aa, ab, bb : /\ n = Len(s) /\ S = Total(s) /\ Q = Total(Product(s, s))
                                 /\ aa = a * a /\ ab = 2 * a * b /\ bb = b * b
  OBVIOUS
<1>0. n \in Nat /\ n = Len(t) /\ \A i \in 1..n : t[i] = a * s[i] + b
  BY <1>a, IntSeq DEF IsMoved
<1>1. \A i \in 1..n : s[i] \in Int /\ t[i] \in Int
  BY <1>a, <1>0, IntSeq
<1>2. Combines(t, a, s, 0, s, b)
  BY <1>a, <1>0, <1>1 DEF Combines
<1>3. Total(t) = a * S + 0 * S + b * n
  BY <1>a, <1>0, <1>2, TotalLinear, 0 \in Int DEF TotalsCombine
<1>4. S \in Int
  BY <1>a, TotalType
<1>5. Total(t) = a * S + b * n
  BY <1>3, <1>4
<1>6. /\ Product(s, s) \in Seq(Int) /\ Len(Product(s, s)) = n
      /\ Product(t, t) \in Seq(Int) /\ Len(Product(t, t)) = n
      /\ \A i \in 1..n : Product(s, s)[i] = s[i] * s[i] /\ Product(t, t)[i] = t[i] * t[i]
  BY <1>a, <1>0, ProductType
<1>8. aa \in Int /\ ab \in Int /\ bb \in Int
  BY <1>a
<1>9. \A i \in 1..n : Product(t, t)[i] = aa * Product(s, s)[i] + ab * s[i] + bb
  <2>1. \A x \in Int : (a * x + b) * (a * x + b) = a * a * (x * x) + 2 * a * b * x + b * b
    OBVIOUS
  <2>2. SUFFICES ASSUME NEW i \in 1..n
                 PROVE  Product(t, t)[i] = aa * Product(s, s)[i] + ab * s[i] + bb
    OBVIOUS
  <2>3. PICK x \in Int : x = s[i]
    BY <1>1
  <2>4. Product(t, t)[i] = (a * x + b) * (a * x + b) /\ Product(s, s)[i] = x * x
    BY <1>0, <1>6, <2>3
  <2> QED  BY <1>a, <2>1, <2>3, <2>4
<1>10. Total(Product(t, t)) = aa * Q + ab * S + bb * n
  <2>1. Combines(Product(t, t), aa, Product(s, s), ab, s, bb)
    BY <1>a, <1>0, <1>6, <1>9 DEF Combines
  <2>2. PICK u, p : u = Product(t, t) /\ p = Product(s, s)
    OBVIOUS
  <2>3. u \in Seq(Int) /\ p \in Seq(Int) /\ Len(u) = n /\ Combines(u, aa, p, ab, s, bb)
    BY <1>6, <2>1, <2>2
  <2>5. /\ u \in Seq(Int) /\ p \in Seq(Int) /\ s \in Seq(Int) /\ aa \in Int /\ ab \in Int
        /\ bb \in Int /\ Combines(u, aa, p, ab, s, bb)
    BY <1>8, <2>3
  <2>4. Total(u) = aa * Total(p) + ab * Total(s) + bb * Len(u)
    BY <2>5, TotalLinear DEF TotalsCombine
  <2> QED  BY <1>a, <2>2, <2>3, <2>4
<1> QED  BY <1>a, <1>5, <1>10 DEF SumsMove

(* The variance does not see the shift, and the scale by its square.       *)
LEMMA MovedVariance ==
    ASSUME NEW s \in Seq(Int), NEW t \in Seq(Int), NEW a \in Int, NEW b \in Int,
           IsMoved(t, s, a, b)
    PROVE  ScaledVariance(t) = a * a * ScaledVariance(s) /\ ScaledVariance(s) \in Int
<1>1. PICK n, S, Q, aa, ab, bb : /\ n = Len(s) /\ S = Total(s) /\ Q = Total(Product(s, s))
                                 /\ aa = a * a /\ ab = 2 * a * b /\ bb = b * b
  OBVIOUS
<1>2. S \in Int /\ Q \in Int /\ n \in Int /\ Len(t) = n
  BY <1>1, TotalType, ProductType, IntSeq DEF IsMoved
<1>3. Total(t) = a * S + b * n /\ Total(Product(t, t)) = aa * Q + ab * S + bb * n
  BY <1>1, MovedSums DEF SumsMove
<1>4. ScaledVariance(s) = n * Q - S * S
  BY <1>1, VarianceIs
<1>5. ScaledVariance(t) = n * (aa * Q + ab * S + bb * n) - (a * S + b * n) * (a * S + b * n)
  BY <1>2, <1>3, VarianceIs
<1>6. n * (aa * Q + ab * S + bb * n) - (a * S + b * n) * (a * S + b * n) = aa * (n * Q - S * S)
  <2>1. PICK u \in Int, v \in Int : u = a * S /\ v = b * n
    <3>1. a * S \in Int /\ b * n \in Int
      BY <1>2
    <3> QED  BY <3>1
  <2>2. (u + v) * (u + v) = u * u + 2 * u * v + v * v
    OBVIOUS
  <2>3. u * u = aa * (S * S) /\ 2 * u * v = n * (ab * S) /\ v * v = n * (bb * n)
    <3>1. (a * S) * (a * S) = (a * a) * (S * S)
      BY <1>2
    <3>2. 2 * (a * S) * (b * n) = n * ((2 * a * b) * S)
      BY <1>2
    <3>3. (b * n) * (b * n) = n * ((b * b) * n)
      BY <1>2
    <3> QED  BY <1>1, <2>1, <3>1, <3>2, <3>3, Zenon
  <2>4. PICK p \in Int, q \in Int, r \in Int, z \in Int :
          p = n * (aa * Q) /\ q = n * (ab * S) /\ r = n * (bb * n) /\ z = aa * (S * S)
    <3>1. aa \in Int /\ ab \in Int /\ bb \in Int
      BY <1>1
    <3>2. n * (aa * Q) \in Int /\ n * (ab * S) \in Int /\ n * (bb * n) \in Int /\ aa * (S * S) \in Int
      BY <1>2, <3>1
    <3> QED  BY <3>2
  <2>5. n * (aa * Q + ab * S + bb * n) = p + q + r
    <3>1. PICK i \in Int, j \in Int, k \in Int : i = aa * Q /\ j = ab * S /\ k = bb * n
      <4>1. aa \in Int /\ ab \in Int /\ bb \in Int
        BY <1>1
      <4>2. aa * Q \in Int /\ ab * S \in Int /\ bb * n \in Int
        BY <1>2, <4>1
      <4> QED  BY <4>2
    <3>2. n * (i + j + k) = n * i + n * j + n * k
      BY <1>2
    <3> QED  BY <2>4, <3>1, <3>2, Zenon
  <2>6. aa * (n * Q - S * S) = p - z
    <3>1. PICK i \in Int, j \in Int : i = n * Q /\ j = S * S
      <4>1. n * Q \in Int /\ S * S \in Int
        BY <1>2
      <4> QED  BY <4>1
    <3>2. aa \in Int
      BY <1>1
    <3>3. aa * (i - j) = aa * i - aa * j
      BY <3>2
    <3>4. aa * (n * Q) = n * (aa * Q)
      BY <1>2, <3>2
    <3> QED  BY <2>4, <3>1, <3>3, <3>4, Zenon
  <2>7. (u + v) * (u + v) = z + q + r
    BY <2>2, <2>3, <2>4
  <2>8. (p + q + r) - (z + q + r) = p - z
    OBVIOUS
  <2>9. (a * S + b * n) * (a * S + b * n) = z + q + r
    BY <2>1, <2>7, Zenon
  <2> QED  BY <2>5, <2>6, <2>8, <2>9, Zenon
<1>7. n * Q - S * S \in Int
  BY <1>2
<1> QED  BY <1>1, <1>4, <1>5, <1>6, <1>7, Zenon

(* Whether a score stands above the threshold, and how far, does not       *)
(* depend on the unit.                                                     *)
LEMMA ScaledGap ==
    ASSUME NEW a \in Int, a >= 1, NEW b \in Int, NEW last \in Int, NEW t \in Int,
           NEW n \in Int, NEW V \in Int
    PROVE  /\ 100 * (a * last + b) > a * t + 100 * b <=> 100 * last > t
           /\ LET e == (100 * (a * last + b) - (a * t + 100 * b)) * n
                  f == (100 * last - t) * n
              IN  e * e > 10000 * (a * a * V) <=> f * f > 10000 * V
<1>1. PICK d : d = 100 * last - t
  OBVIOUS
<1>2. d \in Int
  BY <1>1
<1>3. 100 * (a * last + b) - (a * t + 100 * b) = a * d
  BY <1>1
<1>4. a * d > 0 <=> d > 0
  BY <1>2
<1>5. 100 * (a * last + b) > a * t + 100 * b <=> 100 * last > t
  <2>1. 100 * (a * last + b) \in Int /\ a * t + 100 * b \in Int /\ a * d \in Int
    BY <1>2
  <2> QED  BY <1>1, <1>2, <1>3, <1>4, <2>1
<1>6. PICK f : f = d * n
  OBVIOUS
<1>7. f \in Int /\ (a * d) * n = a * f
  BY <1>2, <1>6
<1>8. PICK g : g = f * f - 10000 * V
  OBVIOUS
<1>9. g \in Int /\ f * f \in Int /\ (g > 0 <=> f * f > 10000 * V)
  BY <1>7, <1>8
<1>10. PICK c : c = a * a
  OBVIOUS
<1>11. c \in Int /\ c >= 1
  BY <1>10
<1>12. (a * f) * (a * f) - 10000 * (a * a * V) = c * g
  BY <1>7, <1>8, <1>10
<1>13. c * g > 0 <=> g > 0
  BY <1>9, <1>11
<1>14. (a * f) * (a * f) \in Int /\ 10000 * (a * a * V) \in Int
  BY <1>7
<1>15. (a * f) * (a * f) > 10000 * (a * a * V) <=> g > 0
  BY <1>12, <1>13, <1>14
<1> QED  BY <1>1, <1>3, <1>5, <1>6, <1>7, <1>9, <1>15

(* Moving or scaling a host's scores changes no verdict and no severity.   *)
LEMMA VerdictMoves ==
    ASSUME NEW h, IsHistory(h), NEW a \in Nat \ {0}, NEW b \in Nat
    PROVE  /\ IsAnomaly(Moved(h, a, b)) = IsAnomaly(h)
           /\ IsCritical(Moved(h, a, b)) = IsCritical(h)
<1>1. PICK mh, n, last, t, V : /\ mh = Moved(h, a, b) /\ n = Len(h) /\ last = Last(h)
                               /\ t = ScaledThreshold(h) /\ V = ScaledVariance(h)
  OBVIOUS
<1>2. n \in Nat /\ last \in Nat /\ t \in Int
  BY <1>1, HistoryDomain, ThresholdType
<1>3. /\ IsHistory(mh) /\ Len(mh) = n /\ Last(mh) = a * last + b
      /\ \A i \in 1..n : mh[i] = a * h[i] + b
  BY <1>1, MovedType
<1>4. ScaledThreshold(mh) = a * t + 100 * b
  BY <1>1, MovedThreshold
<1>5. h \in Seq(Int) /\ mh \in Seq(Int) /\ a \in Int /\ b \in Int /\ a >= 1
  BY <1>3 DEF IsHistory
<1>6. ScaledVariance(mh) = a * a * V /\ V \in Int
  <2>1. IsMoved(mh, h, a, b)
    BY <1>1, <1>3 DEF IsMoved
  <2> QED  BY <1>1, <1>2, <1>5, <2>1, MovedVariance
<1>7. 100 * (a * last + b) > a * t + 100 * b <=> 100 * last > t
  BY <1>2, <1>5, <1>6, ScaledGap
<1>8. LET e == (100 * (a * last + b) - (a * t + 100 * b)) * n
          f == (100 * last - t) * n
      IN  e * e > 10000 * (a * a * V) <=> f * f > 10000 * V
  BY <1>2, <1>5, <1>6, ScaledGap, n \in Int, last \in Int
<1>9. IsAnomaly(mh) <=> IsAnomaly(h)
  BY <1>1, <1>3, <1>4, <1>7 DEF IsAnomaly, HasThreshold
<1>10. IsCritical(mh) <=> IsCritical(h)
  BY <1>1, <1>3, <1>4, <1>6, <1>8 DEF IsCritical
<1>11. IsAnomaly(mh) \in BOOLEAN /\ IsAnomaly(h) \in BOOLEAN
       /\ IsCritical(mh) \in BOOLEAN /\ IsCritical(h) \in BOOLEAN
  BY DEF IsAnomaly, IsCritical
<1> QED  BY <1>1, <1>9, <1>10, <1>11
-----------------------------------------------------------------------------
(* A worse score on the same past.                                         *)
-----------------------------------------------------------------------------

(* A factor that is not negative keeps an order.                           *)
LEMMA ProductMonotone ==
    ASSUME NEW a \in Int, NEW b \in Int, NEW c \in Int, a <= b, c >= 0
    PROVE  a * c <= b * c
OBVIOUS

(* Of naturals the one with the smaller square is smaller.                 *)
LEMMA RootMonotone ==
    ASSUME NEW a \in Int, NEW b \in Int, b >= 0, a * a < b * b
    PROVE  a < b
<1> SUFFICES ASSUME a >= b PROVE FALSE
  OBVIOUS
<1>1. b * b <= a * b /\ b * a <= a * a /\ b * a = a * b
  BY ProductMonotone
<1>2. a * a \in Int /\ b * b \in Int /\ a * b \in Int
  OBVIOUS
<1> QED  BY <1>1, <1>2

(* The last score rises by one and the threshold stays: the excess E, in   *)
(* hundredths, grows by 100, and n * n times the variance, V, by           *)
(* 2 * X + n - 1, where X is n times the score's distance from the mean.   *)
(* What exceeded the deviation still does.                                 *)
LEMMA WorseByThresholdKept ==
    ASSUME NEW n \in Int, NEW E \in Int, NEW X \in Int, NEW V \in Int,
           n >= 1, E >= 1, (n - 1) * V >= X * X, (E * n) * (E * n) > 10000 * V
    PROVE  ((E + 100) * n) * ((E + 100) * n) > 10000 * (V + 2 * X + n - 1)
<1>1. PICK k, x, u : k = E * n /\ x = 100 * X /\ u = n * k
  OBVIOUS
<1>2. k \in Int /\ x \in Int /\ u \in Int /\ k >= 1 /\ u >= 1
  <2>1. \A a, b \in Int : a >= 1 /\ b >= 1 => a * b \in Int /\ a * b >= 1
    OBVIOUS
  <2> QED  BY <1>1, <2>1
<1>3. x * x < u * u
  <2>1. x * x = 10000 * (X * X)
    BY <1>1
  <2>2. PICK K : K = k * k
    OBVIOUS
  <2>3. K \in Int /\ K >= 1 /\ K > 10000 * V
    BY <1>1, <1>2, <2>2
  <2>4. x * x <= (n - 1) * (10000 * V)
    <3>1. (n - 1) * (10000 * V) = 10000 * ((n - 1) * V) /\ (n - 1) * V \in Int /\ X * X \in Int
      OBVIOUS
    <3> QED  BY <2>1, <3>1
  <2>5. (10000 * V) * (n - 1) <= K * (n - 1)
    <3>1. n - 1 \in Int /\ n - 1 >= 0 /\ 10000 * V \in Int /\ 10000 * V <= K
      BY <2>3
    <3> QED  BY <2>3, <3>1, ProductMonotone
  <2>6. K * (n - 1) < K * (n * n)
    <3>1. n * n \in Int /\ n * n >= n
      OBVIOUS
    <3>2. PICK p : p = n * n
      OBVIOUS
    <3>3. K * p - K * (n - 1) = K * (p - (n - 1)) /\ p - (n - 1) >= 1 /\ p - (n - 1) \in Int
      BY <2>3, <3>1, <3>2
    <3>4. K * (p - (n - 1)) >= 1
      BY <2>3, <3>3
    <3>5. K * p \in Int /\ K * (n - 1) \in Int
      BY <2>3, <3>1, <3>2
    <3> QED  BY <3>2, <3>3, <3>4, <3>5
  <2>7. u * u = K * (n * n)
    BY <1>1, <1>2, <2>2
  <2>8. x * x \in Int /\ (n - 1) * (10000 * V) = (10000 * V) * (n - 1)
        /\ (10000 * V) * (n - 1) \in Int /\ K * (n - 1) \in Int /\ K * (n * n) \in Int
    BY <1>2, <2>3
  <2> QED  BY <2>4, <2>5, <2>6, <2>7, <2>8
<1>4. x < u
  BY <1>2, <1>3, RootMonotone
<1>5. (E + 100) * n = k + 100 * n
  BY <1>1
<1>6. (k + 100 * n) * (k + 100 * n) = k * k + 200 * u + 10000 * (n * n)
  BY <1>1, <1>2
<1>7. n * n \in Int /\ n * n >= n /\ k * k \in Int
  BY <1>2
<1>8. k * k > 10000 * V
  BY <1>1
<1>9. PICK K, N : K = k * k /\ N = n * n
  OBVIOUS
<1>10. K + 200 * u + 10000 * N > 10000 * (V + 2 * X + n - 1)
  BY <1>1, <1>2, <1>4, <1>7, <1>8, <1>9
<1> QED  BY <1>5, <1>6, <1>9, <1>10

(* Two neighbours d apart lie X / n above and Y / n below the mean, and no *)
(* score lies between them, so that W is not negative: the spread V is at  *)
(* least what the neighbours make of it.                                   *)
LEMMA SpreadBound ==
    ASSUME NEW n \in Int, NEW d \in Int, NEW V \in Int, NEW W \in Int, NEW X \in Int,
           NEW Y \in Int, n >= 2, d >= 1, W >= 0, X + Y = n * d, V = n * W + X * Y,
           (n - 1) * V >= X * X, (n - 1) * V >= Y * Y
    PROVE  V >= d * X /\ V >= (n - 1) * (d * d)
<1>1. PICK e : e = (n - 1) * d
  OBVIOUS
<1>2. e \in Int /\ e >= 1 /\ X + Y = e + d
  <2>1. \A a, b \in Int : a >= 1 /\ b >= 1 => a * b \in Int /\ a * b >= 1
    OBVIOUS
  <2>2. n * d = e + d
    BY <1>1
  <2> QED  BY <1>1, <2>1, <2>2
<1>3. V >= X * Y
  <2>1. n * W >= 0 /\ n * W \in Int /\ X * Y \in Int
    OBVIOUS
  <2> QED  BY <2>1
<1>4. V >= 0
  <2>1. X * X >= 0 /\ X * X \in Int
    OBVIOUS
  <2>2. (n - 1) * V >= 0
    BY <2>1
  <2> QED  BY <2>2
<1>5. ASSUME NEW Z \in Int, Z > e, (n - 1) * V >= Z * Z
      PROVE  V >= d * Z /\ V >= (n - 1) * (d * d)
  <2>1. Z * Z >= e * Z /\ e * Z >= e * e
    <3>1. e <= Z /\ Z >= 0 /\ e >= 0
      BY <1>2, <1>5
    <3>2. e * Z <= Z * Z /\ e * e <= Z * e
      BY <1>2, <3>1, ProductMonotone
    <3> QED  BY <1>2, <3>2
  <2>2. e * Z = (n - 1) * (d * Z) /\ e * e = (n - 1) * ((n - 1) * (d * d))
    BY <1>1
  <2>3. PICK p, q : p = d * Z /\ q = (n - 1) * (d * d)
    OBVIOUS
  <2>4. p \in Int /\ q \in Int
    BY <2>3
  <2>5. (n - 1) * V >= (n - 1) * p /\ (n - 1) * V >= (n - 1) * q
    <3>1. Z * Z \in Int /\ e * Z \in Int /\ e * e \in Int /\ (n - 1) * V \in Int
      BY <1>2
    <3> QED  BY <1>5, <2>1, <2>2, <2>3, <3>1
  <2>6. \A a, b, c \in Int : a >= 1 /\ a * b >= a * c => b >= c
    <3>1. SUFFICES ASSUME NEW a \in Int, NEW b \in Int, NEW c \in Int, a >= 1, b < c
                   PROVE  a * b < a * c
      OBVIOUS
    <3>2. a * c - a * b = a * (c - b) /\ a * (c - b) >= 1 /\ a * c \in Int /\ a * b \in Int
      BY <3>1
    <3> QED  BY <3>2
  <2>7. V >= p /\ V >= q
    <3>1. n - 1 \in Int /\ n - 1 >= 1
      OBVIOUS
    <3> QED  BY <2>4, <2>5, <2>6, <3>1
  <2> QED  BY <2>3, <2>7
<1>6. CASE X > e
  BY <1>5, <1>6
<1>7. CASE Y > e
  <2>1. V >= (n - 1) * (d * d)
    BY <1>5, <1>7
  <2>2. X <= d
    BY <1>2, <1>7
  <2>3. V >= d * X
    <3>1. CASE X <= 0
      <4>1. d * X <= 0 /\ d * X \in Int
        BY <3>1
      <4> QED  BY <1>4, <4>1
    <3>2. CASE X > 0
      <4>1. d * X <= d * d
        BY <2>2
      <4>2. d * d <= (n - 1) * (d * d)
        <5>1. d * d \in Int /\ d * d >= 0
          OBVIOUS
        <5>2. PICK p : p = d * d
          OBVIOUS
        <5>3. 1 * p <= (n - 1) * p
          BY <5>1, <5>2, ProductMonotone, 1 \in Int, n - 1 \in Int, 1 <= n - 1
        <5> QED  BY <5>1, <5>2, <5>3
      <4>3. d * X \in Int /\ d * d \in Int /\ (n - 1) * (d * d) \in Int
        OBVIOUS
      <4> QED  BY <2>1, <4>1, <4>2, <4>3
    <3> QED  BY <3>1, <3>2
  <2> QED  BY <2>1, <2>3
<1>8. CASE X <= e /\ Y <= e
  <2>1. X >= d /\ Y >= d
    BY <1>2, <1>8
  <2>2. X * Y >= d * X
    <3>1. d * X <= Y * X
      BY <2>1, ProductMonotone, X >= 0
    <3> QED  BY <3>1
  <2>3. X * Y >= (n - 1) * (d * d)
    <3>1. (X - d) * (e - X) >= 0
      <4>1. \A a, b \in Int : a >= 0 /\ b >= 0 => a * b >= 0
        OBVIOUS
      <4>2. X - d \in Int /\ e - X \in Int /\ X - d >= 0 /\ e - X >= 0
        BY <1>2, <1>8, <2>1
      <4> QED  BY <4>1, <4>2
    <3>2. Y = e + d - X
      BY <1>2
    <3>3. X * (e + d - X) - d * e = (X - d) * (e - X)
      BY <1>2
    <3>4. d * e = (n - 1) * (d * d)
      BY <1>1
    <3>5. X * Y \in Int /\ d * e \in Int
      BY <1>2
    <3> QED  BY <3>1, <3>2, <3>3, <3>4, <3>5
  <2>4. X * Y \in Int /\ d * X \in Int /\ (n - 1) * (d * d) \in Int
    OBVIOUS
  <2> QED  BY <1>3, <2>2, <2>3, <2>4
<1> QED  BY <1>2, <1>6, <1>7, <1>8

(* n times the standard deviation is exceeded by n times E hundredths.     *)
Exceeds(E, n, V) == (E * n) * (E * n) > 10000 * V

Spreads(n, d, X, V) == V >= d * X /\ V >= (n - 1) * (d * d)

(* The last score rises by one and takes the threshold with it, as the     *)
(* upper of two neighbours d apart: the excess grows from c * d to c * (d  *)
(* + 1) only. What exceeded the deviation still does, if the neighbours    *)
(* spread the scores.                                                      *)
LEMMA WorseByThresholdRaised ==
    ASSUME NEW n \in Int, NEW c \in Int, NEW d \in Int, NEW X \in Int, NEW V \in Int,
           n >= 2, c >= 1, d >= 1, Spreads(n, d, X, V),
           NEW E \in Int, E = c * d, NEW F \in Int, F = c * (d + 1), Exceeds(E, n, V)
    PROVE  Exceeds(F, n, V + 2 * X + n - 1)
<1>0. V >= d * X /\ V >= (n - 1) * (d * d) /\ ((c * d) * n) * ((c * d) * n) > 10000 * V
  BY DEF Spreads, Exceeds
<1>1. PICK a, A : a = c * n /\ A = a * a
  OBVIOUS
<1>2. a \in Int /\ A \in Int
  BY <1>1
<1>3. (c * d) * n = a * d /\ (c * (d + 1)) * n = a * d + a
  BY <1>1
<1>4. (a * d) * (a * d) = A * (d * d)
  BY <1>1, <1>2
<1>5. PICK D : D = d * d
  OBVIOUS
<1>6. D \in Int /\ D >= 1
  BY <1>5
<1>7. A * D > 10000 * V
  BY <1>0, <1>3, <1>4, <1>5
<1>8. A > 10000 * (n - 1)
  <2> SUFFICES ASSUME A <= 10000 * (n - 1) PROVE FALSE
    BY <1>2
  <2>1. A * D <= (10000 * (n - 1)) * D
    BY <1>2, <1>6, ProductMonotone, 10000 * (n - 1) \in Int, D >= 0
  <2>2. (10000 * (n - 1)) * D = 10000 * ((n - 1) * D) /\ (n - 1) * D <= V /\ (n - 1) * D \in Int
        /\ A * D \in Int
    BY <1>0, <1>2, <1>5, <1>6
  <2> QED  BY <1>0, <1>7, <2>1, <2>2
<1>9. A * d > 10000 * X
  <2> SUFFICES ASSUME A * d <= 10000 * X PROVE FALSE
    BY <1>2
  <2>1. (A * d) * d <= (10000 * X) * d
    BY <1>2, ProductMonotone, A * d \in Int, 10000 * X \in Int, d >= 0
  <2>2. (A * d) * d = A * D /\ (10000 * X) * d = 10000 * (d * X) /\ d * X \in Int /\ A * D \in Int
    BY <1>2, <1>5, <1>6
  <2> QED  BY <1>0, <1>7, <2>1, <2>2
<1>10. (a * d + a) * (a * d + a) = A * D + 2 * (A * d) + A
  BY <1>1, <1>2, <1>5
<1>11. PICK p, q : p = A * D /\ q = A * d
  OBVIOUS
<1>12. p \in Int /\ q \in Int
  BY <1>2, <1>6, <1>11
<1>13. p + 2 * q + A > 10000 * (V + 2 * X + n - 1)
  BY <1>2, <1>7, <1>8, <1>9, <1>11, <1>12
<1> QED  BY <1>3, <1>10, <1>11, <1>13 DEF Exceeds

(* The last score one higher.                                              *)
Worse(h) == [h EXCEPT ![Len(h)] = @ + 1]

(* A history with a worse last score is a history.                         *)
LEMMA WorseType ==
    ASSUME NEW h, IsHistory(h)
    PROVE  /\ IsHistory(Worse(h)) /\ Len(Worse(h)) = Len(h)
           /\ DOMAIN Worse(h) = DOMAIN h
           /\ Worse(h)[Len(h)] = Last(h) + 1 /\ Last(Worse(h)) = Last(h) + 1
           /\ \A i \in DOMAIN h : i # Len(h) => Worse(h)[i] = h[i]
<1>1. PICK n : n = Len(h)
  OBVIOUS
<1>2. n \in Nat \ {0} /\ DOMAIN h = 1..n /\ h \in [1..n -> Nat] /\ h[n] \in Nat
      /\ Last(h) = h[n]
  BY <1>1, HistoryDomain
<1>3. Worse(h) = [h EXCEPT ![n] = h[n] + 1] /\ h[n] + 1 \in Nat /\ n \in 1..n
  BY <1>1, <1>2 DEF Worse
<1>4. Worse(h) \in [1..n -> Nat] /\ Worse(h)[n] = h[n] + 1
      /\ \A i \in 1..n : i # n => Worse(h)[i] = h[i]
  BY <1>2, <1>3
<1>5. Worse(h) \in Seq(Nat) /\ Len(Worse(h)) = n
  BY <1>2, <1>4
<1>6. IsHistory(Worse(h))
  BY <1>2, <1>5 DEF IsHistory
<1>7. Last(Worse(h)) = Worse(h)[n]
  BY <1>5, <1>6, HistoryDomain
<1> QED  BY <1>1, <1>2, <1>4, <1>5, <1>6, <1>7

(* A worse last score changes no rank but its own, and that by one at      *)
(* most.                                                                   *)
LEMMA WorseRank ==
    ASSUME NEW h, IsHistory(h), NEW k \in Nat, NEW v \in Nat, HasRank(h, k, v)
    PROVE  /\ v # Last(h) => HasRank(Worse(h), k, v)
           /\ v = Last(h) => HasRank(Worse(h), k, v) \/ HasRank(Worse(h), k, v + 1)
<1>1. PICK n, last, w : n = Len(h) /\ last = Last(h) /\ w = Worse(h)
  OBVIOUS
<1>2. n \in DOMAIN h /\ h[n] = last /\ last \in Nat /\ \A i \in DOMAIN h : h[i] \in Nat
  BY <1>1, HistoryDomain
<1>3. IsHistory(w) /\ DOMAIN w = DOMAIN h /\ w[n] = last + 1
      /\ \A i \in DOMAIN h : i # n => w[i] = h[i]
  BY <1>1, WorseType
<1>4. \A u : Below(w, u) \in SUBSET DOMAIN w /\ AtMost(w, u) \in SUBSET DOMAIN w
             /\ Below(h, u) \in SUBSET DOMAIN h /\ AtMost(h, u) \in SUBSET DOMAIN h
  BY DEF Below, AtMost
<1>5. \A u : Cardinality(Below(w, u)) \in Nat /\ Cardinality(AtMost(w, u)) \in Nat
             /\ Cardinality(Below(h, u)) \in Nat /\ Cardinality(AtMost(h, u)) \in Nat
  BY <1>3, <1>4, DomainCounts
<1>6. Below(w, v) \in SUBSET Below(h, v)
  <2>1. ASSUME NEW i \in DOMAIN h, w[i] < v PROVE h[i] < v
    <3>1. CASE i = n
      BY <1>2, <1>3, <2>1, <3>1
    <3>2. CASE i # n
      BY <1>3, <2>1, <3>2
    <3> QED  BY <3>1, <3>2
  <2> QED  BY <1>3, <2>1 DEF Below
<1>7. Cardinality(Below(w, v)) < k
  <2>1. Cardinality(Below(w, v)) <= Cardinality(Below(h, v))
    BY <1>4, <1>6, DomainCounts
  <2> QED  BY <2>1, <1>5 DEF HasRank
<1>8. ASSUME v # last PROVE HasRank(w, k, v)
  <2>1. AtMost(h, v) \in SUBSET AtMost(w, v)
    <3>1. ASSUME NEW i \in DOMAIN h, h[i] <= v PROVE w[i] <= v
      <4>1. CASE i = n
        BY <1>2, <1>3, <1>8, <3>1, <4>1
      <4>2. CASE i # n
        BY <1>3, <3>1, <4>2
      <4> QED  BY <4>1, <4>2
    <3> QED  BY <1>3, <3>1 DEF AtMost
  <2>2. Cardinality(AtMost(h, v)) <= Cardinality(AtMost(w, v))
    BY <1>3, <1>4, <2>1, DomainCounts
  <2> QED  BY <1>5, <1>7, <2>2 DEF HasRank
<1>9. ASSUME v = last, ~ HasRank(w, k, v) PROVE HasRank(w, k, v + 1)
  <2>1. Cardinality(AtMost(w, v)) < k
    BY <1>5, <1>7, <1>9 DEF HasRank
  <2>2. Below(w, v + 1) = AtMost(w, v)
    <3>1. \A i \in DOMAIN w : w[i] < v + 1 <=> w[i] <= v
      <4>1. \A i \in DOMAIN w : w[i] \in Nat
        BY <1>3, HistoryDomain
      <4> QED  BY <4>1
    <3> QED  BY <3>1 DEF Below, AtMost
  <2>3. AtMost(h, v) \in SUBSET AtMost(w, v + 1)
    <3>1. ASSUME NEW i \in DOMAIN h, h[i] <= v PROVE w[i] <= v + 1
      <4>1. CASE i = n
        BY <1>2, <1>3, <1>9, <4>1
      <4>2. CASE i # n
        BY <1>2, <1>3, <3>1, <4>2
      <4> QED  BY <4>1, <4>2
    <3> QED  BY <1>3, <3>1 DEF AtMost
  <2>4. Cardinality(AtMost(h, v)) <= Cardinality(AtMost(w, v + 1))
    BY <1>3, <1>4, <2>3, DomainCounts
  <2> QED  BY <1>5, <2>1, <2>2, <2>4 DEF HasRank
<1> QED  BY <1>1, <1>8, <1>9

(* Above the threshold, the last score is above the lower neighbour; the   *)
(* threshold then stays, or its upper neighbour is the last score and rises*)
(* with it.                                                                *)
LEMMA WorseThreshold ==
    ASSUME NEW h, IsHistory(h), 100 * Last(h) > ScaledThreshold(h)
    PROVE  \/ ScaledThreshold(Worse(h)) = ScaledThreshold(h)
           \/ \E q, m, low : /\ Interpolates(h, q, m, low, Last(h)) /\ low < Last(h)
                             /\ q + 2 <= Len(h)
                             /\ ScaledThreshold(Worse(h)) = 100 * low + m * ((Last(h) + 1) - low)
<1>1. PICK q, m, low, high : Interpolates(h, q, m, low, high)
  BY ThresholdInterpolates
<1>2. PICK n, last, w : n = Len(h) /\ last = Last(h) /\ w = Worse(h)
  OBVIOUS
<1>3. n \in Nat /\ last \in Nat
  BY <1>2, HistoryDomain
<1>4. IsHistory(w) /\ Len(w) = n
  BY <1>2, WorseType
<1>5. /\ q \in Nat /\ m \in 0..99 /\ q + 1 <= n
      /\ Percentile * (n - 1) = 100 * q + m
      /\ low \in Nat /\ high \in Nat /\ low <= high /\ HasRank(h, q + 1, low)
      /\ (q + 2 <= n => HasRank(h, q + 2, high)) /\ (q + 2 > n => high = low)
      /\ ScaledThreshold(h) = 100 * low + m * (high - low)
  BY <1>1, <1>2 DEF Interpolates
<1>6. low < last
  <2>1. m * (high - low) >= 0 /\ m * (high - low) \in Int
    <3>1. \A a, b \in Nat : a * b \in Nat
      OBVIOUS
    <3>2. m \in Nat /\ high - low \in Nat
      BY <1>5
    <3> QED  BY <3>1, <3>2
  <2>2. PICK p : p = m * (high - low)
    OBVIOUS
  <2>3. 100 * last > 100 * low + p /\ p >= 0 /\ p \in Int /\ low \in Int /\ last \in Int
    BY <1>2, <1>3, <1>5, <2>1, <2>2
  <2> QED  BY <2>3
<1>7. q + 1 \in Nat /\ q + 2 \in Nat
  BY <1>5
<1>8. HasRank(w, q + 1, low)
  BY <1>2, <1>3, <1>5, <1>6, <1>7, WorseRank
<1>9. ASSUME q + 2 <= n => HasRank(w, q + 2, high)
      PROVE  ScaledThreshold(w) = ScaledThreshold(h)
  <2>1. Neighbours(w, q, m, low, high)
    BY <1>4, <1>5, <1>8, <1>9, Zenon DEF Neighbours
  <2> QED  BY <1>4, <1>5, <2>1, NeighboursInterpolate
<1>10. ASSUME q + 2 <= n, high = last, HasRank(w, q + 2, last + 1)
       PROVE  ScaledThreshold(w) = 100 * low + m * ((last + 1) - low)
  <2>1. ~(q + 2 > n) /\ last + 1 \in Nat
    BY <1>3, <1>5, <1>10
  <2>2. PICK r : r = last + 1
    OBVIOUS
  <2>3. Neighbours(w, q, m, low, r)
    BY <1>4, <1>5, <1>8, <1>10, <2>1, <2>2, Zenon DEF Neighbours
  <2>4. ScaledThreshold(w) = 100 * low + m * (r - low)
    BY <1>4, <2>3, NeighboursInterpolate
  <2> QED  BY <2>2, <2>4, Zenon
<1>11. q + 2 <= n =>
         \/ HasRank(w, q + 2, high)
         \/ high = last /\ HasRank(w, q + 2, last + 1)
  BY <1>2, <1>5, <1>7, WorseRank
<1>12. CASE q + 2 <= n => HasRank(w, q + 2, high)
  BY <1>2, <1>9, <1>12
<1>13. CASE q + 2 <= n /\ high = last /\ HasRank(w, q + 2, last + 1)
  BY <1>1, <1>2, <1>6, <1>10, <1>13
<1> QED  BY <1>11, <1>12, <1>13

(* What the verdicts on h are computed from.                               *)
Moments(h, n, last, Q, S) ==
    n = Len(h) /\ last = Last(h) /\ Q = Total(Product(h, h)) /\ S = Total(h)

(* The variance after the last score has risen by one.                     *)
LEMMA WorseVariance ==
    ASSUME NEW h, IsHistory(h), NEW n, NEW last, NEW Q, NEW S, Moments(h, n, last, Q, S)
    PROVE  /\ n \in Nat /\ last \in Nat /\ Q \in Int /\ S \in Int
           /\ ScaledVariance(h) = n * Q - S * S
           /\ ScaledVariance(Worse(h)) = (n * Q - S * S) + 2 * (n * last - S) + (n - 1)
<1>0. n = Len(h) /\ last = Last(h) /\ Q = Total(Product(h, h)) /\ S = Total(h)
  BY DEF Moments
<1>1. PICK w : w = Worse(h)
  OBVIOUS
<1>2. n \in Nat \ {0} /\ DOMAIN h = 1..n /\ last \in Nat /\ h[n] = last
  BY <1>0, HistoryDomain
<1>3. IsHistory(w) /\ Len(w) = n /\ w[n] = last + 1 /\ \A i \in 1..(n - 1) : w[i] = h[i]
  <2>1. \A i \in 1..(n - 1) : i \in DOMAIN h /\ i # n
    BY <1>0, <1>2
  <2> QED  BY <1>0, <1>1, <2>1, WorseType
<1>4. h \in Seq(Int) /\ w \in Seq(Int)
  BY <1>0, <1>3 DEF IsHistory
<1>5. Total(w) = S + 1
  <2>1. Total(w) = Total(h) + (w[n] - h[n])
    BY <1>0, <1>2, <1>3, <1>4, TotalButLast, n \in Nat, n >= 1
  <2>2. S \in Int
    BY <1>0, <1>4, TotalType
  <2> QED  BY <1>0, <1>2, <1>3, <2>1, <2>2
<1>6. PICK p, r : p = Product(h, h) /\ r = Product(w, w)
  OBVIOUS
<1>7. /\ p \in Seq(Int) /\ r \in Seq(Int) /\ Len(p) = n /\ Len(r) = n
      /\ \A i \in 1..n : p[i] = h[i] * h[i] /\ r[i] = w[i] * w[i]
  BY <1>0, <1>3, <1>4, <1>6, ProductType
<1>8. ASSUME NEW i \in 1..(n - 1) PROVE r[i] = p[i]
  <2>1. i \in 1..n
    BY <1>0, <1>2
  <2> QED  BY <1>0, <1>3, <1>7, <2>1
<1>9. p[n] = last * last /\ r[n] = (last + 1) * (last + 1)
  BY <1>0, <1>2, <1>3, <1>7, n \in 1..n
<1>10. Total(r) = Q + (2 * last + 1)
  <2>1. Total(r) = Total(p) + (r[n] - p[n])
    BY <1>0, <1>2, <1>7, <1>8, TotalButLast, n \in Nat, n >= 1
  <2>2. Q \in Int
    BY <1>0, <1>6, <1>7, TotalType
  <2>3. (last + 1) * (last + 1) - last * last = 2 * last + 1
    BY <1>0, <1>2
  <2> QED  BY <1>0, <1>6, <1>9, <2>1, <2>2, <2>3
<1>11. S \in Int /\ Q \in Int
  BY <1>0, <1>4, <1>6, <1>7, TotalType
<1>12. ScaledVariance(h) = n * Q - S * S
  BY <1>0, <1>4, VarianceIs
<1>13. ScaledVariance(w) = n * (Q + (2 * last + 1)) - (S + 1) * (S + 1)
  BY <1>0, <1>3, <1>4, <1>5, <1>6, <1>10, VarianceIs
<1>14. n * (Q + (2 * last + 1)) - (S + 1) * (S + 1)
         = (n * Q - S * S) + 2 * (n * last - S) + (n - 1)
  <2>1. n \in Int /\ last \in Int /\ Q \in Int /\ S \in Int
    BY <1>2, <1>11
  <2>2. PICK a \in Int, b \in Int, c \in Int, d \in Int : a = n /\ b = Q /\ c = last /\ d = S
    BY <2>1
  <2>3. a * (b + (2 * c + 1)) - (d + 1) * (d + 1) = (a * b - d * d) + 2 * (a * c - d) + (a - 1)
    OBVIOUS
  <2> QED  BY <2>2, <2>3
<1> QED  BY <1>0, <1>1, <1>2, <1>11, <1>12, <1>13, <1>14

(* No score lies between values of consecutive ranks.                      *)
LEMMA NothingBetween ==
    ASSUME NEW h, IsHistory(h), NEW q \in Nat, NEW low \in Nat, NEW high \in Nat,
           HasRank(h, q + 1, low), HasRank(h, q + 2, high), NEW i \in DOMAIN h
    PROVE  h[i] <= low \/ h[i] >= high
<1> SUFFICES ASSUME h[i] > low, h[i] < high PROVE FALSE
  BY HistoryDomain
<1>1. \A j \in DOMAIN h : h[j] \in Nat
  BY HistoryDomain
<1>2. PICK U : U = AtMost(h, low)
  OBVIOUS
<1>3. i \notin U
  BY <1>1, <1>2 DEF AtMost
<1>4. U \cup {i} \in SUBSET Below(h, high)
  <2>1. \A j \in U : h[j] < high
    BY <1>1, <1>2 DEF AtMost
  <2>2. U \in SUBSET DOMAIN h
    BY <1>2 DEF AtMost
  <2> QED  BY <2>1, <2>2 DEF Below
<1>5. Below(h, high) \in SUBSET DOMAIN h
  BY DEF Below
<1>6. IsFiniteSet(U) /\ Cardinality(U) \in Nat
  <2>1. U \in SUBSET DOMAIN h
    BY <1>2 DEF AtMost
  <2> QED  BY <2>1, DomainCounts
<1>7. Cardinality(U \cup {i}) = Cardinality(U) + 1
  BY <1>3, <1>6, FS_AddElement
<1>8. Cardinality(U \cup {i}) <= Cardinality(Below(h, high)) /\ Cardinality(Below(h, high)) \in Nat
  BY <1>4, <1>5, DomainCounts
<1>9. Cardinality(U) >= q + 1 /\ Cardinality(Below(h, high)) < q + 2
  BY <1>2 DEF HasRank
<1> QED  BY <1>6, <1>7, <1>8, <1>9

(* The scores lie on either side of two neighbouring values, so their sums *)
(* do.                                                                     *)
LEMMA SumsOutside ==
    ASSUME NEW s \in Seq(Int), NEW low \in Int, NEW high \in Int, low <= high,
           \A i \in 1..Len(s) : s[i] <= low \/ s[i] >= high
    PROVE  Total(Product(s, s)) + (- (low + high)) * Total(s) + (low * high) * Len(s) >= 0
<1>1. PICK n, b, c : n = Len(s) /\ b = - (low + high) /\ c = low * high
  OBVIOUS
<1>2. n \in Nat /\ b \in Int /\ c \in Int /\ \A i \in 1..n : s[i] \in Int
  BY <1>1, IntSeq
<1>3. PICK p : p = Product(s, s)
  OBVIOUS
<1>4. p \in Seq(Int) /\ Len(p) = n /\ \A i \in 1..n : p[i] = s[i] * s[i]
  BY <1>1, <1>3, ProductType
<1>5. PICK u : u = [i \in 1..n |-> (s[i] - low) * (s[i] - high)]
  OBVIOUS
<1>6. ASSUME NEW i \in 1..n
      PROVE  u[i] = 1 * p[i] + b * s[i] + c /\ u[i] \in Int /\ u[i] >= 0
  <2>1. PICK x \in Int : x = s[i]
    BY <1>2
  <2>2. (x - low) * (x - high) = 1 * (x * x) + b * x + c
    <3>1. (x - low) * (x - high) = 1 * (x * x) + (- (low + high)) * x + low * high
      OBVIOUS
    <3> QED  BY <1>1, <3>1
  <2>3. (x - low) * (x - high) >= 0 /\ (x - low) * (x - high) \in Int
    <3>1. x <= low \/ x >= high
      BY <1>1, <2>1
    <3>2. \A y, z \in Int : (y >= 0 /\ z >= 0) \/ (y <= 0 /\ z <= 0) => y * z >= 0 /\ y * z \in Int
      OBVIOUS
    <3>3. x - low \in Int /\ x - high \in Int
      OBVIOUS
    <3>4. (x - low >= 0 /\ x - high >= 0) \/ (x - low <= 0 /\ x - high <= 0)
      BY <3>1
    <3> QED  BY <3>2, <3>3, <3>4
  <2> QED  BY <1>4, <1>5, <2>1, <2>2, <2>3
<1>7. u \in Seq(Int) /\ Len(u) = n
  <2>1. \A i \in 1..n : (s[i] - low) * (s[i] - high) \in Int
    BY <1>5, <1>6
  <2> QED  BY <1>2, <1>5, <2>1
<1>8. Combines(u, 1, p, b, s, c)
  BY <1>1, <1>4, <1>6, <1>7 DEF Combines
<1>9. Total(u) = 1 * Total(p) + b * Total(s) + c * Len(u)
  <2>1. TotalsCombine(u, 1, p, b, s, c)
    BY <1>2, <1>4, <1>7, <1>8, TotalLinear, 1 \in Int
  <2> QED  BY <2>1, Zenon DEF TotalsCombine
<1>10. Total(u) >= 0
  BY <1>6, <1>7, TotalNonnegative
<1>11. Total(p) \in Int
  BY <1>4, TotalType
<1> QED  BY <1>1, <1>3, <1>7, <1>9, <1>10, <1>11

(* When the score itself is the upper neighbour, the spread of the scores  *)
(* is at least what its distance from the lower one makes of it.           *)
LEMMA SpreadOfNeighbours ==
    ASSUME NEW h, IsHistory(h), NEW n \in Int, n = Len(h), NEW last \in Int, last = Last(h),
           NEW q, NEW m, NEW low, Interpolates(h, q, m, low, last), low < last,
           q + 2 <= Len(h),
           NEW Q \in Int, Q = Total(Product(h, h)), NEW S \in Int, S = Total(h)
    PROVE  /\ n * Q - S * S >= (last - low) * (n * last - S)
           /\ n * Q - S * S >= (n - 1) * ((last - low) * (last - low))
<1>1. /\ q \in Nat /\ q + 1 \in Nat /\ low \in Nat /\ HasRank(h, q + 1, low)
      /\ HasRank(h, q + 2, last) /\ last \in Nat
  BY DEF Interpolates
<1>a. low \in Int /\ n \in Int /\ last \in Int /\ Q \in Int /\ S \in Int
  BY <1>1
<1>2. n \in Nat /\ n >= 2 /\ DOMAIN h = 1..n /\ h[n] = last /\ n \in 1..n
  BY <1>1, HistoryDomain
<1>3. h \in Seq(Int)
  BY DEF IsHistory
<1>4. PICK j \in 1..n : h[j] = low
  BY <1>1, <1>2, RankOccurs
<1>5. (n - 1) * (n * Q - S * S) >= (n * h[n] - S) * (n * h[n] - S)
  BY <1>2, <1>3, Samuelson
<1>6. (n - 1) * (n * Q - S * S) >= (n * h[j] - S) * (n * h[j] - S)
  BY <1>2, <1>3, <1>4, Samuelson
<1>7. \A i \in 1..Len(h) : h[i] <= low \/ h[i] >= last
  BY <1>1, <1>2, NothingBetween
<1>8. Q + (- (low + last)) * S + (low * last) * n >= 0
  <2>1. low \in Int /\ last \in Int /\ low <= last
    BY <1>1
  <2> QED  BY <1>3, <1>7, <2>1, SumsOutside
<1>9. PICK d \in Int, V \in Int, W \in Int, X \in Int, Y \in Int :
         /\ d = last - low /\ V = n * Q - S * S /\ X = n * last - S /\ Y = S - n * low
         /\ W = Q + (- (low + last)) * S + (low * last) * n
  <2>1. PICK N \in Int, L \in Int, A \in Int, B \in Int, l \in Int :
          N = n /\ L = last /\ A = Q /\ B = S /\ l = low
    BY <1>a, Zenon
  <2>2. /\ L - l \in Int /\ N * A - B * B \in Int /\ N * L - B \in Int /\ B - N * l \in Int
        /\ A + (- (l + L)) * B + (l * L) * N \in Int
    OBVIOUS
  <2> QED  BY <2>1, <2>2
<1>10. V = n * W + X * Y
  <2>1. PICK N \in Int, L \in Int, A \in Int, B \in Int, l \in Int :
          N = n /\ L = last /\ A = Q /\ B = S /\ l = low
    BY <1>a, Zenon
  <2>2. N * A - B * B = N * (A + (- (l + L)) * B + (l * L) * N) + (N * L - B) * (B - N * l)
    OBVIOUS
  <2> QED  BY <1>9, <2>1, <2>2
<1>11. X + Y = n * d /\ d >= 1 /\ W >= 0
  <2>1. PICK N \in Int, L \in Int, B \in Int, l \in Int :
          N = n /\ L = last /\ B = S /\ l = low
    BY <1>a, Zenon
  <2>2. (N * L - B) + (B - N * l) = N * (L - l)
    OBVIOUS
  <2>3. d >= 1
    <3>1. d = L - l /\ l < L
      BY <1>9, <2>1
    <3> QED  BY <3>1
  <2> QED  BY <1>8, <1>9, <2>1, <2>2, <2>3
<1>12. (n - 1) * V >= X * X
  BY <1>2, <1>5, <1>9
<1>13. (n - 1) * V >= Y * Y
  <2>1. PICK l \in Int : l = low
    BY <1>1
  <2>2. (n * l - S) * (n * l - S) = (S - n * l) * (S - n * l)
    OBVIOUS
  <2> QED  BY <1>4, <1>6, <1>9, <2>1, <2>2
<1>14. V >= d * X /\ V >= (n - 1) * (d * d)
  BY <1>2, <1>10, <1>11, <1>12, <1>13, SpreadBound
<1> QED  BY <1>9, <1>14

(* A worse score on the same past stays an anomaly, and a critical one     *)
(* stays critical.                                                         *)
LEMMA WorseVerdict ==
    ASSUME NEW h, IsHistory(h), IsAnomaly(h)
    PROVE  IsAnomaly(Worse(h)) /\ (IsCritical(h) => IsCritical(Worse(h)))
<1>1. PICK n \in Int, last \in Int, Q \in Int, S \in Int, t \in Int :
        /\ n = Len(h) /\ last = Last(h) /\ Q = Total(Product(h, h)) /\ S = Total(h)
        /\ t = ScaledThreshold(h)
  <2>1. Len(h) \in Int /\ Last(h) \in Int
    BY HistoryDomain
  <2>2. Total(Product(h, h)) \in Int /\ Total(h) \in Int
    BY TotalType, ProductType DEF IsHistory
  <2> QED  BY <2>1, <2>2, ThresholdType
<1>2. PICK w : w = Worse(h)
  OBVIOUS
<1>3. IsHistory(w) /\ Len(w) = n /\ Last(w) = last + 1 /\ n >= 1
  BY <1>1, <1>2, WorseType, HistoryDomain
<1>4. n >= MinHistory /\ 100 * last > t
  BY <1>1 DEF IsAnomaly, HasThreshold
<1>5. PICK X \in Int, V \in Int, U \in Int :
        X = n * last - S /\ V = n * Q - S * S /\ U = V + 2 * X + (n - 1)
  OBVIOUS
<1>6. ScaledVariance(h) = V /\ ScaledVariance(w) = U
  <2>1. Moments(h, n, last, Q, S)
    BY <1>1 DEF Moments
  <2>2. /\ ScaledVariance(h) = n * Q - S * S
        /\ ScaledVariance(Worse(h)) = (n * Q - S * S) + 2 * (n * last - S) + (n - 1)
    BY <2>1, WorseVariance
  <2> QED  BY <1>2, <1>5, <2>2
<1>7. (n - 1) * V >= X * X
  <2>1. h \in Seq(Int) /\ n \in Nat /\ n \in 1..n /\ h[n] = last
    BY <1>1, <1>3, HistoryDomain DEF IsHistory
  <2>2. (n - 1) * (n * Q - S * S) >= (n * h[n] - S) * (n * h[n] - S)
    BY <1>1, <2>1, Samuelson
  <2> QED  BY <1>5, <2>1, <2>2
<1>8. PICK E \in Int : E = 100 * last - t
  <2>1. 100 * last - t \in Int
    OBVIOUS
  <2> QED  BY <2>1
<1>9. E >= 1
  BY <1>4, <1>8
<1>10. IsCritical(h) <=> (E * n) * (E * n) > 10000 * V
  BY <1>1, <1>6, <1>8 DEF IsCritical
<1>11. ASSUME NEW F \in Int, F = 100 * (last + 1) - ScaledThreshold(w), F >= 1,
              IsCritical(h) => (F * n) * (F * n) > 10000 * U
       PROVE  IsAnomaly(w) /\ (IsCritical(h) => IsCritical(w))
  <2>1. 100 * (last + 1) > ScaledThreshold(w)
    <3>1. PICK s \in Int : s = ScaledThreshold(w)
      BY <1>3, ThresholdType
    <3> QED  BY <1>11, <3>1
  <2>2. IsAnomaly(w)
    BY <1>3, <1>4, <2>1 DEF IsAnomaly, HasThreshold
  <2>3. IsCritical(w) <=> (F * n) * (F * n) > 10000 * U
    BY <1>3, <1>6, <1>11 DEF IsCritical
  <2> QED  BY <1>11, <2>2, <2>3
<1>12. CASE ScaledThreshold(w) = t
  <2>1. PICK F \in Int : F = E + 100
    OBVIOUS
  <2>2. F = 100 * (last + 1) - ScaledThreshold(w) /\ F >= 1
    BY <1>8, <1>9, <1>12, <2>1
  <2>3. ASSUME IsCritical(h) PROVE (F * n) * (F * n) > 10000 * U
    <3>1. (E * n) * (E * n) > 10000 * V
      BY <1>10, <2>3
    <3>2. ((E + 100) * n) * ((E + 100) * n) > 10000 * (V + 2 * X + n - 1)
      BY <1>3, <1>7, <1>9, <3>1, WorseByThresholdKept
    <3>3. V + 2 * X + n - 1 = U
      BY <1>5
    <3> QED  BY <2>1, <3>2, <3>3
  <2> QED  BY <1>2, <1>11, <2>2, <2>3
<1>13. ASSUME NEW q, NEW m, NEW low, Interpolates(h, q, m, low, last), low < last,
              q + 2 <= n, ScaledThreshold(w) = 100 * low + m * ((last + 1) - low)
       PROVE  IsAnomaly(w) /\ (IsCritical(h) => IsCritical(w))
  <2>1. m \in 0..99 /\ low \in Nat /\ q \in Nat /\ t = 100 * low + m * (last - low)
    BY <1>1, <1>13 DEF Interpolates
  <2>2. PICK l \in Int, k \in Int, c \in Int, d \in Int :
          l = low /\ k = m /\ c = 100 - m /\ d = last - low
    BY <2>1
  <2>3. c >= 1 /\ d >= 1 /\ c = 100 - k /\ d = last - l
    BY <1>13, <2>1, <2>2
  <2>4. n >= 2
    BY <1>13, <2>1
  <2>5. E = c * d
    <3>1. 100 * last - (100 * l + k * (last - l)) = (100 - k) * (last - l)
      OBVIOUS
    <3> QED  BY <1>8, <2>1, <2>2, <2>3, <3>1
  <2>6. PICK F \in Int : F = c * (d + 1)
    OBVIOUS
  <2>7. F = 100 * (last + 1) - ScaledThreshold(w)
    <3>1. 100 * (last + 1) - (100 * l + k * ((last + 1) - l)) = (100 - k) * ((last - l) + 1)
      OBVIOUS
    <3> QED  BY <1>13, <2>2, <2>3, <2>6, <3>1
  <2>8. F >= 1
    BY <2>3, <2>6
  <2>9. V >= d * X /\ V >= (n - 1) * (d * d)
    <3>1. /\ n * Q - S * S >= (last - low) * (n * last - S)
          /\ n * Q - S * S >= (n - 1) * ((last - low) * (last - low))
      BY <1>1, <1>13, SpreadOfNeighbours
    <3> QED  BY <1>5, <2>2, <3>1
  <2>10. ASSUME IsCritical(h) PROVE (F * n) * (F * n) > 10000 * U
    <3>1. Exceeds(E, n, V) /\ Spreads(n, d, X, V)
      BY <1>10, <2>9, <2>10 DEF Exceeds, Spreads
    <3>2. Exceeds(F, n, V + 2 * X + n - 1)
      BY <2>3, <2>4, <2>5, <2>6, <3>1, WorseByThresholdRaised
    <3>3. V + 2 * X + n - 1 = U
      BY <1>5
    <3> QED  BY <3>2, <3>3 DEF Exceeds
  <2> QED  BY <1>11, <2>7, <2>8, <2>10
<1> QED  BY <1>1, <1>2, <1>4, <1>12, <1>13, WorseThreshold

(* A history that is not empty is one of those the lemmas speak of.        *)
LEMMA HistoryIsOne ==
    ASSUME Inputs, history # <<>>
    PROVE  IsHistory(history)
<1>1. history \in Seq(Nat)
  BY DEF Inputs
<1>2. Len(history) \in Nat /\ Len(history) # 0
  BY <1>1, EmptySeq, LenProperties
<1> QED  BY <1>1, <1>2 DEF IsHistory

(* Verdict and severity depend on the host's own baseline only.            *)
LEMMA VerdictFollows == Inputs => VerdictFollowsBaseline
<1> SUFFICES ASSUME Inputs, history # <<>> PROVE VerdictFollowsBaseline
  BY DEF VerdictFollowsBaseline
<1>1. IsHistory(history)
  BY HistoryIsOne
<1>2. ASSUME NEW change \in Moves
      PROVE  LET moved == [i \in DOMAIN history |-> change[1] * history[i] + change[2]]
             IN  /\ IsAnomaly(moved) = IsAnomaly(history)
                 /\ IsAnomaly(history) => IsCritical(moved) = IsCritical(history)
  <2>1. change[1] \in Nat \ {0} /\ change[2] \in Nat
    BY <1>2, MovesAssumption
  <2>2. PICK a, b : a = change[1] /\ b = change[2]
    OBVIOUS
  <2>3. IsAnomaly(Moved(history, a, b)) = IsAnomaly(history)
        /\ IsCritical(Moved(history, a, b)) = IsCritical(history)
    BY <1>1, <2>1, <2>2, VerdictMoves
  <2> QED  BY <2>2, <2>3 DEF Moved
<1>3. LET worse == [history EXCEPT ![Len(history)] = @ + 1]
      IN  /\ IsAnomaly(history) => IsAnomaly(worse)
          /\ IsAnomaly(history) /\ IsCritical(history) => IsCritical(worse)
  BY <1>1, WorseVerdict DEF Worse
<1> QED  BY <1>2, <1>3, Zenon DEF VerdictFollowsBaseline

(* For every percentile and every history: moving or scaling its scores    *)
(* changes no verdict and no severity, and a worse score on the same past  *)
(* is judged at least as severely.                                         *)
THEOREM VerdictFollowsBaselineAlways == Spec => []VerdictFollowsBaseline
BY InputsAlways, VerdictFollows, PTL
-----------------------------------------------------------------------------
(* Covariances.                                                            *)
-----------------------------------------------------------------------------

(* The covariance in sums.                                                 *)
LEMMA CovarianceIs ==
    ASSUME NEW s, NEW t
    PROVE  Covariance(s, t) = Len(s) * Total(Product(s, t)) - Total(s) * Total(t)
BY DEF Covariance, Product

(* The covariance of integers is an integer.                               *)
LEMMA CovarianceType ==
    ASSUME NEW s \in Seq(Int), NEW t \in Seq(Int), Len(s) = Len(t)
    PROVE  Covariance(s, t) \in Int
<1>1. PICK n \in Int, P \in Int, S \in Int, T \in Int :
        n = Len(s) /\ P = Total(Product(s, t)) /\ S = Total(s) /\ T = Total(t)
  BY IntSeq, TotalType, ProductType
<1>2. n * P - S * T \in Int
  OBVIOUS
<1> QED  BY <1>1, <1>2, CovarianceIs

(* The covariance does not depend on the order of the two sequences.       *)
LEMMA CovarianceSymmetric ==
    ASSUME NEW s \in Seq(Int), NEW t \in Seq(Int), Len(s) = Len(t)
    PROVE  Covariance(s, t) = Covariance(t, s)
<1>1. PICK n : n = Len(s)
  OBVIOUS
<1>2. n \in Nat /\ DOMAIN s = 1..n /\ DOMAIN t = 1..n
      /\ \A i \in 1..n : s[i] \in Int /\ t[i] \in Int
  BY <1>1, IntSeq
<1>3. \A i \in 1..n : s[i] * t[i] = t[i] * s[i]
  <2>1. \A x, y \in Int : x * y = y * x
    OBVIOUS
  <2> QED  BY <1>2, <2>1
<1>4. Product(s, t) = Product(t, s)
  BY <1>2, <1>3 DEF Product
<1>5. PICK P \in Int, S \in Int, T \in Int :
        P = Total(Product(s, t)) /\ S = Total(s) /\ T = Total(t)
  BY TotalType, ProductType
<1>6. S * T = T * S
  OBVIOUS
<1>7. Covariance(s, t) = n * P - S * T /\ Covariance(t, s) = n * P - T * S
  BY <1>1, <1>4, <1>5, CovarianceIs
<1> QED  BY <1>6, <1>7

CovariancesCombine(v, u, a, s, b, t) ==
    Covariance(v, u) = a * Covariance(v, s) + b * Covariance(v, t)

(* Covariances are linear, whatever the constant that is added.            *)
LEMMA CovarianceLinear ==
    ASSUME NEW v \in Seq(Int), NEW s \in Seq(Int), NEW t \in Seq(Int), NEW u \in Seq(Int),
           Len(v) = Len(u), NEW a \in Int, NEW b \in Int, NEW c \in Int,
           Combines(u, a, s, b, t, c)
    PROVE  CovariancesCombine(v, u, a, s, b, t)
<1>1. PICK n \in Nat : n = Len(u)
  BY IntSeq
<1>2. Len(v) = n /\ Len(s) = n /\ Len(t) = n /\ Len(u) = n
      /\ \A i \in 1..n : u[i] = a * s[i] + b * t[i] + c
  BY <1>1 DEF Combines
<1>3. \A i \in 1..n : v[i] \in Int /\ s[i] \in Int /\ t[i] \in Int
  BY <1>2, IntSeq
<1>4. PICK p, q, r : p = Product(v, s) /\ q = Product(v, t) /\ r = Product(v, u)
  OBVIOUS
<1>5. /\ p \in Seq(Int) /\ Len(p) = n /\ q \in Seq(Int) /\ Len(q) = n
      /\ r \in Seq(Int) /\ Len(r) = n
      /\ \A i \in 1..n : p[i] = v[i] * s[i] /\ q[i] = v[i] * t[i] /\ r[i] = v[i] * u[i]
  <2>1. p \in Seq(Int) /\ Len(p) = n /\ \A i \in 1..n : p[i] = v[i] * s[i]
    <3>1. IsProduct(p, v, s)
      BY <1>2, <1>4, ProductIs
    <3> QED  BY <1>2, <3>1 DEF IsProduct
  <2>2. q \in Seq(Int) /\ Len(q) = n /\ \A i \in 1..n : q[i] = v[i] * t[i]
    <3>1. IsProduct(q, v, t)
      BY <1>2, <1>4, ProductIs
    <3> QED  BY <1>2, <3>1 DEF IsProduct
  <2>3. r \in Seq(Int) /\ Len(r) = n /\ \A i \in 1..n : r[i] = v[i] * u[i]
    <3>1. IsProduct(r, v, u)
      BY <1>2, <1>4, ProductIs
    <3> QED  BY <1>2, <3>1 DEF IsProduct
  <2> QED  BY <2>1, <2>2, <2>3
<1>6. \A i \in 1..n : p[i] \in Int /\ q[i] \in Int
  BY <1>5, IntSeq
<1>7. PICK z : z = [i \in 1..n |-> a * p[i] + b * q[i] + 0]
  OBVIOUS
<1>8. z \in Seq(Int) /\ Len(z) = n /\ \A i \in 1..n : z[i] = a * p[i] + b * q[i] + 0
  <2>1. ASSUME NEW i \in 1..n PROVE a * p[i] + b * q[i] + 0 \in Int
    <3>1. PICK x \in Int, y \in Int : x = p[i] /\ y = q[i]
      BY <1>6
    <3>2. a * x + b * y + 0 \in Int
      OBVIOUS
    <3> QED  BY <3>1, <3>2
  <2> QED  BY <1>7, <2>1
<1>9. Combines(z, a, p, b, q, 0)
  BY <1>5, <1>8 DEF Combines
<1>10. Combines(r, 1, z, c, v, 0)
  <2>1. ASSUME NEW i \in 1..n PROVE r[i] = 1 * z[i] + c * v[i] + 0
    <3>1. PICK x \in Int, y \in Int, w \in Int : x = v[i] /\ y = s[i] /\ w = t[i]
      BY <1>3
    <3>2. x * (a * y + b * w + c) = 1 * (a * (x * y) + b * (x * w) + 0) + c * x + 0
      OBVIOUS
    <3> QED  BY <1>2, <1>5, <1>8, <3>1, <3>2
  <2> QED  BY <1>2, <1>5, <1>8, <2>1 DEF Combines
<1>11. PICK P \in Int, Q \in Int, V \in Int, S \in Int, T \in Int :
         /\ P = Total(p) /\ Q = Total(q) /\ V = Total(v) /\ S = Total(s) /\ T = Total(t)
  BY <1>5, TotalType
<1>12. Total(z) = a * P + b * Q + 0 * n
  <2>1. TotalsCombine(z, a, p, b, q, 0)
    BY <1>5, <1>8, <1>9, TotalLinear, 0 \in Int
  <2> QED  BY <1>8, <1>11, <2>1 DEF TotalsCombine
<1>13. Total(r) = 1 * (a * P + b * Q + 0 * n) + c * V + 0 * n
  <2>1. TotalsCombine(r, 1, z, c, v, 0)
    BY <1>5, <1>8, <1>10, TotalLinear, 0 \in Int, 1 \in Int
  <2> QED  BY <1>5, <1>11, <1>12, <2>1 DEF TotalsCombine
<1>14. Total(u) = a * S + b * T + c * n
  <2>1. TotalsCombine(u, a, s, b, t, c)
    BY TotalLinear
  <2> QED  BY <1>1, <1>11, <2>1 DEF TotalsCombine
<1>15. n * (1 * (a * P + b * Q + 0 * n) + c * V + 0 * n) - V * (a * S + b * T + c * n)
         = a * (n * P - V * S) + b * (n * Q - V * T)
  OBVIOUS
<1>16. /\ Covariance(v, u) = n * Total(r) - V * Total(u)
       /\ Covariance(v, s) = n * P - V * S
       /\ Covariance(v, t) = n * Q - V * T
  BY <1>2, <1>4, <1>11, CovarianceIs
<1> QED  BY <1>13, <1>14, <1>15, <1>16 DEF CovariancesCombine

-----------------------------------------------------------------------------
(* The trend forecast.                                                     *)
-----------------------------------------------------------------------------

(* What a window of points is made of.                                     *)
LEMMA PointsType ==
    ASSUME NEW ps \in Seq(Point)
    PROVE  /\ Len(ps) \in Nat /\ DOMAIN ps = 1..Len(ps)
           /\ \A i \in 1..Len(ps) : ps[i].ts \in Int /\ ps[i].score \in Int
<1>1. Len(ps) \in Nat /\ DOMAIN ps = 1..Len(ps)
  BY LenProperties
<1>2. \A i \in 1..Len(ps) : ps[i] \in Point
  BY ElementOfSeq
<1> QED  BY <1>1, <1>2 DEF Point

(* How many points the smoothing leaves out.                               *)
Skipped(ps) == IF Smooths(ps) THEN SmoothingWindow - 1 ELSE 0

(* Smoothing skips no more points than there are.                          *)
LEMMA SkippedType ==
    ASSUME NEW ps \in Seq(Point)
    PROVE  Skipped(ps) \in Nat /\ Skipped(ps) <= Len(ps) /\ Len(ps) - Skipped(ps) \in Nat
<1>1. Len(ps) \in Nat
  BY PointsType
<1>2. CASE Smooths(ps)
  BY <1>1, <1>2, SmoothingAssumption DEF Skipped, Smooths
<1>3. CASE ~Smooths(ps)
  BY <1>1, <1>3 DEF Skipped
<1> QED  BY <1>2, <1>3

(* The times that are left after smoothing, counted from the first.        *)
LEMMA SmoothedTimesType ==
    ASSUME NEW ps \in Seq(Point)
    PROVE  /\ SmoothedTimes(ps) \in Seq(Int)
           /\ Len(SmoothedTimes(ps)) = Len(ps) - Skipped(ps)
           /\ \A i \in 1..(Len(ps) - Skipped(ps)) :
                SmoothedTimes(ps)[i] = ps[i + Skipped(ps)].ts - ps[1].ts
<1>1. PICK n, k : n = Len(ps) /\ k = Skipped(ps)
  OBVIOUS
<1>2. n \in Nat /\ k \in Nat /\ k <= n /\ n - k \in Nat
      /\ \A i \in 1..n : ps[i].ts \in Int
  BY <1>1, PointsType, SkippedType
<1>3. SmoothedTimes(ps) = [i \in 1..(n - k) |-> ps[i + k].ts - ps[1].ts]
  BY <1>1 DEF SmoothedTimes, Skipped
<1>4. ASSUME NEW i \in 1..(n - k) PROVE ps[i + k].ts - ps[1].ts \in Int
  <2>1. i + k \in 1..n /\ 1 \in 1..n
    BY <1>2
  <2>2. ps[i + k].ts \in Int /\ ps[1].ts \in Int
    BY <1>2, <2>1
  <2> QED  BY <2>2
<1>5. SmoothedTimes(ps) \in Seq(Int) /\ Len(SmoothedTimes(ps)) = n - k
  BY <1>2, <1>3, <1>4
<1> QED  BY <1>1, <1>3, <1>5

(* One window of scores.                                                   *)
Window(ps, i) == [j \in 1..SmoothingWindow |-> ps[i + j - 1].score]

(* What one smoothing window is made of.                                   *)
LEMMA WindowType ==
    ASSUME NEW ps \in Seq(Point), NEW i \in 1..(Len(ps) - SmoothingWindow + 1)
    PROVE  Window(ps, i) \in Seq(Int) /\ Len(Window(ps, i)) = SmoothingWindow
<1>1. PICK n \in Nat, w \in Nat : n = Len(ps) /\ w = SmoothingWindow
  BY PointsType, SmoothingAssumption
<1>2. ASSUME NEW j \in 1..w PROVE ps[i + j - 1].score \in Int
  <2>1. i + j - 1 \in 1..n
    BY <1>1
  <2> QED  BY <1>1, <2>1, PointsType
<1>3. Window(ps, i) = [j \in 1..w |-> ps[i + j - 1].score]
  BY <1>1, Zenon DEF Window
<1>4. Window(ps, i) \in [1..w -> Int]
  BY <1>2, <1>3, Zenon
<1>5. Window(ps, i) \in Seq(Int) /\ Len(Window(ps, i)) = w
  BY <1>1, <1>4
<1> QED  BY <1>1, <1>5

(* There are as many smoothed scores as times.                             *)
LEMMA SmoothedScoresType ==
    ASSUME NEW ps \in Seq(Point)
    PROVE  /\ SmoothedScores(ps) \in Seq(Int)
           /\ Len(SmoothedScores(ps)) = Len(ps) - Skipped(ps)
<1>1. PICK n \in Nat, w \in Nat : n = Len(ps) /\ w = SmoothingWindow
  BY PointsType, SmoothingAssumption
<1>2. CASE Smooths(ps)
  <2>1. SmoothedScores(ps) = [i \in 1..(n - w + 1) |-> Total(Window(ps, i))]
    BY <1>1, <1>2 DEF SmoothedScores, Window
  <2>2. \A i \in 1..(n - w + 1) : Total(Window(ps, i)) \in Int
    BY <1>1, WindowType, TotalType
  <2>3. n - w + 1 \in Nat /\ Skipped(ps) = w - 1 /\ n - (w - 1) = n - w + 1
    BY <1>1, <1>2 DEF Smooths, Skipped
  <2> QED  BY <1>1, <2>1, <2>2, <2>3
<1>3. CASE ~Smooths(ps)
  <2>1. SmoothedScores(ps) = [i \in 1..n |-> ps[i].score]
    BY <1>1, <1>3, PointsType DEF SmoothedScores
  <2>2. \A i \in 1..n : ps[i].score \in Int
    BY <1>1, PointsType
  <2>3. Skipped(ps) = 0 /\ n - 0 = n
    BY <1>3 DEF Skipped
  <2> QED  BY <1>1, <2>1, <2>2, <2>3
<1> QED  BY <1>2, <1>3

(* n times the residuals of the fitted line, squared and added up.         *)
Residual(xs, ys, i) ==
    Len(xs) * Covariance(xs, xs) * ys[i] - Len(xs) * Covariance(xs, ys) * xs[i]
      - (Covariance(xs, xs) * Total(ys) - Covariance(xs, ys) * Total(xs))

SquaresAddTo(xs, ys, n, total) ==
    Total([i \in 1..n |-> Residual(xs, ys, i) * Residual(xs, ys, i)]) = total

(* The squared residuals of the least-squares line add up to what the      *)
(* covariances say, cleared of denominators.                               *)
LEMMA SquaresOfResiduals ==
    ASSUME NEW xs \in Seq(Int), NEW ys \in Seq(Int), NEW n \in Int, n = Len(xs), n = Len(ys),
           n >= 1, NEW D \in Int, D = Covariance(xs, xs), NEW C \in Int, C = Covariance(xs, ys),
           NEW Y \in Int, Y = Covariance(ys, ys)
    PROVE  SquaresAddTo(xs, ys, n, (n * D) * (D * Y - C * C))
<1>1. PICK Sx \in Int, Sy \in Int : Sx = Total(xs) /\ Sy = Total(ys)
  BY TotalType
<1>2. PICK a \in Int, b \in Int, c \in Int :
        a = n * D /\ b = - (n * C) /\ c = - (D * Sy - C * Sx)
  <2>1. PICK N \in Int, E \in Int, F \in Int : N = n /\ E = D /\ F = C
    OBVIOUS
  <2>2. N * E \in Int /\ - (N * F) \in Int /\ - (E * Sy - F * Sx) \in Int
    OBVIOUS
  <2> QED  BY <2>1, <2>2
<1>3. PICK u : u = [i \in 1..n |-> Residual(xs, ys, i)]
  OBVIOUS
<1>4. n \in Nat /\ \A i \in 1..n : xs[i] \in Int /\ ys[i] \in Int
  BY IntSeq
<1>5. ASSUME NEW i \in 1..n PROVE u[i] = a * ys[i] + b * xs[i] + c /\ u[i] \in Int
  <2>1. PICK N \in Int, E \in Int, F \in Int, x \in Int, y \in Int :
          N = n /\ E = D /\ F = C /\ x = xs[i] /\ y = ys[i]
    BY <1>4
  <2>2. u[i] = N * E * y - N * F * x - (E * Sy - F * Sx)
    BY <1>1, <1>3, <2>1 DEF Residual
  <2>3. N * E * y - N * F * x - (E * Sy - F * Sx)
          = (N * E) * y + (- (N * F)) * x + (- (E * Sy - F * Sx))
        /\ N * E * y - N * F * x - (E * Sy - F * Sx) \in Int
    OBVIOUS
  <2> QED  BY <1>2, <2>1, <2>2, <2>3
<1>6. u \in Seq(Int) /\ Len(u) = n
  <2>1. \A i \in 1..n : Residual(xs, ys, i) \in Int
    BY <1>3, <1>5
  <2> QED  BY <1>3, <1>4, <2>1
<1>7. Combines(u, a, ys, b, xs, c)
  BY <1>5, <1>6 DEF Combines
<1>8. Total(u) = 0
  <2>1. TotalsCombine(u, a, ys, b, xs, c)
    BY <1>6, <1>7, TotalLinear
  <2>2. Total(u) = a * Sy + b * Sx + c * n
    BY <1>1, <1>6, <2>1 DEF TotalsCombine
  <2>3. PICK N \in Int, E \in Int, F \in Int : N = n /\ E = D /\ F = C
    OBVIOUS
  <2>4. (N * E) * Sy + (- (N * F)) * Sx + (- (E * Sy - F * Sx)) * N = 0
    OBVIOUS
  <2> QED  BY <1>2, <2>2, <2>3, <2>4
<1>9. Covariance(ys, u) = a * Y + b * C
  <2>1. CovariancesCombine(ys, u, a, ys, b, xs)
    BY <1>6, <1>7, CovarianceLinear
  <2>2. Covariance(ys, xs) = C
    BY CovarianceSymmetric
  <2> QED  BY <2>1, <2>2 DEF CovariancesCombine
<1>10. Covariance(xs, u) = a * C + b * D
  <2>1. CovariancesCombine(xs, u, a, ys, b, xs)
    BY <1>6, <1>7, CovarianceLinear
  <2> QED  BY <2>1 DEF CovariancesCombine
<1>11. Covariance(u, u) = a * (a * Y + b * C) + b * (a * C + b * D)
  <2>1. CovariancesCombine(u, u, a, ys, b, xs)
    BY <1>6, <1>7, CovarianceLinear
  <2>2. Covariance(u, ys) = a * Y + b * C /\ Covariance(u, xs) = a * C + b * D
    BY <1>6, <1>9, <1>10, CovarianceSymmetric
  <2> QED  BY <2>1, <2>2 DEF CovariancesCombine
<1>12. PICK s \in Int : s = Total(Product(u, u))
  BY <1>6, TotalType, ProductType
<1>13. Covariance(u, u) = n * s
  <2>1. Covariance(u, u) = n * s - 0 * 0
    BY <1>6, <1>8, <1>12, CovarianceIs
  <2>2. n * s \in Int
    OBVIOUS
  <2> QED  BY <2>1, <2>2
<1>14. a * (a * Y + b * C) + b * (a * C + b * D) = n * ((n * D) * (D * Y - C * C))
  <2>1. PICK N \in Int, E \in Int, F \in Int, G \in Int : N = n /\ E = D /\ F = C /\ G = Y
    OBVIOUS
  <2>2. (N * E) * ((N * E) * G + (- (N * F)) * F) + (- (N * F)) * ((N * E) * F + (- (N * F)) * E)
          = N * ((N * E) * (E * G - F * F))
    OBVIOUS
  <2> QED  BY <1>2, <2>1, <2>2
<1>15. s = (n * D) * (D * Y - C * C)
  <2>0. PICK N \in Int, E \in Int, F \in Int, G \in Int : N = n /\ E = D /\ F = C /\ G = Y
    OBVIOUS
  <2>a. (N * E) * (E * G - F * F) \in Int
    OBVIOUS
  <2>1. PICK r \in Int : r = (n * D) * (D * Y - C * C) /\ N = n
    BY <2>0, <2>a
  <2>2. N >= 1 /\ N * s = N * r
    BY <1>11, <1>13, <1>14, <2>1
  <2>3. N * (s - r) = 0
    BY <2>2
  <2>4. s = r
    BY <2>2, <2>3
  <2> QED  BY <2>1, <2>4
<1>16. [i \in 1..n |-> Residual(xs, ys, i) * Residual(xs, ys, i)] = Product(u, u)
  <2>1. DOMAIN u = 1..n /\ \A i \in 1..n : u[i] = Residual(xs, ys, i)
    BY <1>3
  <2> QED  BY <2>1 DEF Product
<1> QED  BY <1>12, <1>15, <1>16 DEF SquaresAddTo

(* The two forms of the limit on R^2.                                      *)
LEMMA GateArithmetic ==
    ASSUME NEW n \in Int, n >= 1, NEW D \in Int, D >= 1, NEW C \in Int, NEW Y \in Int, NEW R \in Int
    PROVE  100 * C * C >= R * D * Y
             <=> 100 * ((n * D) * (D * Y - C * C)) <= (100 - R) * Y * n * D * D
<1>1. PICK k \in Int, g \in Int : k = n * D /\ g = 100 * C * C - R * D * Y
  <2>1. n * D \in Int /\ 100 * C * C - R * D * Y \in Int
    OBVIOUS
  <2> QED  BY <2>1
<1>2. k >= 1
  <2>1. \A a, b \in Int : a >= 1 /\ b >= 1 => a * b >= 1
    OBVIOUS
  <2> QED  BY <1>1, <2>1
<1>3. (100 - R) * Y * n * D * D - 100 * ((n * D) * (D * Y - C * C)) = k * g
  BY <1>1
<1>4. k * g >= 0 <=> g >= 0
  BY <1>2
<1>5. /\ 100 * ((n * D) * (D * Y - C * C)) \in Int /\ (100 - R) * Y * n * D * D \in Int
      /\ 100 * C * C \in Int /\ R * D * Y \in Int /\ k * g \in Int
  OBVIOUS
<1> QED  BY <1>1, <1>3, <1>4, <1>5

(* The gate decides by the residuals.                                      *)
LEMMA GateMatches == Inputs => GateMatchesResiduals
<1> SUFFICES ASSUME Inputs PROVE GateMatchesResiduals
  OBVIOUS
<1>1. PICK xs, ys : xs = Xs /\ ys = Ys
  OBVIOUS
<1>2. xs \in Seq(Int) /\ ys \in Seq(Int) /\ Len(xs) = Len(ys)
  BY <1>1, SmoothedTimesType, SmoothedScoresType DEF Inputs, Xs, Ys
<1>3. PICK n \in Int, D \in Int, C \in Int, Y \in Int :
        n = Len(xs) /\ D = Covariance(xs, xs) /\ C = Covariance(xs, ys) /\ Y = Covariance(ys, ys)
  BY <1>2, IntSeq, CovarianceType
<1>4. ASSUME n >= 2, D > 0, Y > 0
      PROVE  FitsWell(xs, ys)
               <=> 100 * Total([i \in 1..n |-> Residual(xs, ys, i) * Residual(xs, ys, i)])
                     <= (100 - MinRSquared) * Y * n * D * D
  <2>1. n >= 1 /\ D >= 1
    BY <1>4
  <2>2. Total([i \in 1..n |-> Residual(xs, ys, i) * Residual(xs, ys, i)])
          = (n * D) * (D * Y - C * C)
    <3>1. SquaresAddTo(xs, ys, n, (n * D) * (D * Y - C * C))
      BY <1>2, <1>3, <2>1, SquaresOfResiduals
    <3> QED  BY <3>1, Zenon DEF SquaresAddTo
  <2>3. MinRSquared \in Int
    BY MinRSquaredAssumption
  <2>4. 100 * C * C >= MinRSquared * D * Y
          <=> 100 * ((n * D) * (D * Y - C * C)) <= (100 - MinRSquared) * Y * n * D * D
    BY <2>1, <2>3, GateArithmetic
  <2>5. FitsWell(xs, ys) <=> 100 * C * C >= MinRSquared * D * Y
    BY <1>3, <1>4 DEF FitsWell
  <2> QED  BY <2>2, <2>4, <2>5
<1>5. n >= 2 /\ D > 0 /\ Y > 0 =>
        (FitsWell(xs, ys)
           <=> 100 * Total([i \in 1..n |-> Residual(xs, ys, i) * Residual(xs, ys, i)])
                 <= (100 - MinRSquared) * Y * n * D * D)
  BY <1>4
<1> QED  BY <1>1, <1>3, <1>5, Zenon DEF GateMatchesResiduals, Residual

(* For every window of points and every limit: the gate on R^2 decides by  *)
(* the squared residuals of the fitted line.                               *)
THEOREM GateMatchesResidualsAlways == Spec => []GateMatchesResiduals
BY InputsAlways, GateMatches, PTL
-----------------------------------------------------------------------------
(* The dominant metric.                                                    *)
-----------------------------------------------------------------------------

(* f lists the results of the first k steps of an iteration.               *)
Runs(F, base, n, f) == f[0] = base /\ \A k \in 1..n : f[k] = F[<<f[k - 1], k>>]

(* g obeys F wherever its value for the smaller set is known to be in V.   *)
Follows(V, F, base, n, g) ==
    /\ g[{}] = base
    /\ \A t \in SUBSET (1..n) :
         t # {} /\ g[t \ {Max(t)}] \in V => g[t] = F[<<g[t \ {Max(t)}], Max(t)>>]

Reaches(V, F, base, n, g) ==
    \E f \in [0..n -> V] : Runs(F, base, n, f) /\ g[1..n] = f[n]

(* A function that follows the fold on the values of V runs through them   *)
(* one index at a time.                                                    *)
LEMMA IterationRuns ==
    ASSUME NEW V, NEW n \in Nat, NEW base \in V, NEW F \in [V \X (1..n) -> V],
           NEW g, Follows(V, F, base, n, g)
    PROVE  Reaches(V, F, base, n, g)
<1>1. g[{}] = base
  BY DEF Follows
<1>2. ASSUME NEW k \in 1..n, g[1..(k - 1)] \in V PROVE g[1..k] = F[<<g[1..(k - 1)], k>>]
  <2>a. k \in Nat /\ k \in 1..k /\ \A y \in 1..k : k >= y /\ y \in 1..n
    OBVIOUS
  <2>b. (1..k) \ {k} = 1..(k - 1)
    <3>1. \A y : y \in (1..k) \ {k} <=> y \in 1..(k - 1)
      BY <2>a
    <3> QED  BY <3>1
  <2>1. 1..k \in SUBSET (1..n) /\ 1..k # {}
    BY <2>a
  <2>2. Max(1..k) = k
    BY <2>a, MaxIs
  <2>3. g[1..k] = F[<<g[(1..k) \ {Max(1..k)}], Max(1..k)>>]
    BY <1>2, <2>1, <2>b, <2>2 DEF Follows
  <2> QED  BY <2>b, <2>2, <2>3
<1> DEFINE f == [k \in 0..n |-> g[1..k]]
           Good == {k \in 0..n : g[1..k] \in V}
<1>3. 0 \in Good
  <2>1. 1..0 = {} /\ 0 \in 0..n
    OBVIOUS
  <2> QED  BY <1>1, <2>1
<1>4. \A k \in 0..(n - 1) : k \in Good => k + 1 \in Good
  <2>1. SUFFICES ASSUME NEW k \in 0..(n - 1), g[1..k] \in V
                 PROVE  k + 1 \in 0..n /\ g[1..(k + 1)] \in V
    OBVIOUS
  <2>2. k + 1 \in 1..n /\ (k + 1) - 1 = k /\ k + 1 \in 0..n
    OBVIOUS
  <2>3. g[1..(k + 1)] = F[<<g[1..k], k + 1>>]
    BY <1>2, <2>1, <2>2
  <2>4. <<g[1..k], k + 1>> \in V \X (1..n)
    BY <2>1, <2>2
  <2> QED  BY <2>2, <2>3, <2>4
<1> HIDE DEF Good
<1>5. \A k \in 0..n : k \in Good
  BY <1>3, <1>4, UpTo
<1>6. \A k \in 0..n : g[1..k] \in V
  BY <1>5 DEF Good
<1>7. f \in [0..n -> V]
  BY <1>6
<1>8. f[0] = base
  <2>1. 1..0 = {} /\ 0 \in 0..n
    OBVIOUS
  <2> QED  BY <1>1, <2>1
<1>9. ASSUME NEW k \in 1..n PROVE f[k] = F[<<f[k - 1], k>>]
  <2>1. k \in 0..n /\ k - 1 \in 0..n
    OBVIOUS
  <2> QED  BY <2>1, <1>2, <1>6
<1>10. g[1..n] = f[n]
  BY n \in 0..n
<1> HIDE DEF f
<1> QED  BY <1>7, <1>8, <1>9, <1>10 DEF Runs, Reaches

Better(ws, best, m) == IF MoreDeviant(ws[m], ws[best]) THEN m ELSE best

(* The loop of _compute_dominant_metric, one metric at a time.             *)
DominanceStep(ws) ==
    [p \in Metrics \X (1..4) |-> Better(ws, p[1], METRIC_NAMES[p[2]])]

Dominates(ws, g) ==
    g = [t \in SUBSET DOMAIN METRIC_NAMES |->
           IF t = {} THEN METRIC_NAMES[1]
           ELSE Better(ws, g[t \ {Max(t)}], METRIC_NAMES[Max(t)])]

(* The four names and their positions.                                     *)
LEMMA MetricNames ==
    /\ DOMAIN METRIC_NAMES = 1..4
    /\ \A k \in 1..4 : METRIC_NAMES[k] \in Metrics
    /\ \A m \in Metrics : \E k \in 1..4 : m = METRIC_NAMES[k]
BY DEF METRIC_NAMES, Metrics, Range

(* The dominant metric as the value of the function the fold chooses.      *)
LEMMA DominantIsFolded ==
    ASSUME NEW ws, \E m \in Metrics : ws[m] # <<>>
    PROVE  DominantMetric(ws) = LET g == CHOOSE g : Dominates(ws, g) IN g[DOMAIN METRIC_NAMES]
BY Zenon DEF DominantMetric, FoldLeft, MapThenFoldSet, Dominates, Better

(* There is a function as the fold describes it.                           *)
LEMMA DominanceExists ==
    ASSUME NEW ws
    PROVE  \E g : Dominates(ws, g)
<1>1. DominanceStep(ws) \in [Metrics \X (1..4) -> Metrics]
  BY MetricNames DEF DominanceStep, Better
<1>2. METRIC_NAMES[1] \in Metrics /\ 4 \in Nat
  BY MetricNames
<1>3. PICK g \in [SUBSET (1..4) -> Metrics] : Iterates(DominanceStep(ws), METRIC_NAMES[1], 4, g)
  BY <1>1, <1>2, IterationExists
<1>5. ASSUME NEW t \in SUBSET (1..4), t # {}
      PROVE  g[t] = Better(ws, g[t \ {Max(t)}], METRIC_NAMES[Max(t)])
  <2>1. g[t] = DominanceStep(ws)[<<g[t \ {Max(t)}], Max(t)>>]
    BY <1>3, <1>5 DEF Iterates
  <2>2. Max(t) \in 1..4 /\ t \ {Max(t)} \in SUBSET (1..4)
    BY <1>2, <1>5, MaxIndex
  <2>3. <<g[t \ {Max(t)}], Max(t)>> \in Metrics \X (1..4)
    BY <2>2
  <2> QED  BY <2>1, <2>3 DEF DominanceStep
<1>6. \A t \in SUBSET (1..4) :
        g[t] = IF t = {} THEN METRIC_NAMES[1]
               ELSE Better(ws, g[t \ {Max(t)}], METRIC_NAMES[Max(t)])
  BY <1>3, <1>5 DEF Iterates
<1>7. g = [t \in SUBSET (1..4) |-> g[t]]
  OBVIOUS
<1>8. Dominates(ws, g)
  BY <1>6, <1>7, MetricNames, Zenon DEF Dominates
<1> QED  BY <1>8

(* f lists the best metric so far.                                         *)
RunningBest(ws, f) ==
    /\ f \in [0..4 -> Metrics]
    /\ f[0] = METRIC_NAMES[1]
    /\ \A k \in 1..4 : f[k] = Better(ws, f[k - 1], METRIC_NAMES[k])

(* The loop of _compute_dominant_metric, turn by turn.                     *)
LEMMA DominantRuns ==
    ASSUME NEW ws, \E m \in Metrics : ws[m] # <<>>
    PROVE  \E f : RunningBest(ws, f) /\ DominantMetric(ws) = f[4]
<1>1. PICK g : Dominates(ws, g) /\ DominantMetric(ws) = g[1..4]
  BY DominanceExists, DominantIsFolded, MetricNames
<1>2. DominanceStep(ws) \in [Metrics \X (1..4) -> Metrics]
  BY MetricNames DEF DominanceStep, Better
<1>3. METRIC_NAMES[1] \in Metrics /\ 4 \in Nat
  BY MetricNames
<1>4. g[{}] = METRIC_NAMES[1]
  BY <1>1 DEF Dominates
<1>5. ASSUME NEW t \in SUBSET (1..4), t # {}, g[t \ {Max(t)}] \in Metrics
      PROVE  g[t] = DominanceStep(ws)[<<g[t \ {Max(t)}], Max(t)>>]
  <2>1. g[t] = Better(ws, g[t \ {Max(t)}], METRIC_NAMES[Max(t)])
    BY <1>1, <1>5, MetricNames DEF Dominates
  <2>2. Max(t) \in 1..4
    BY <1>3, <1>5, MaxIndex
  <2>3. <<g[t \ {Max(t)}], Max(t)>> \in Metrics \X (1..4)
    BY <1>5, <2>2
  <2> QED  BY <2>1, <2>3 DEF DominanceStep
<1>6. Follows(Metrics, DominanceStep(ws), METRIC_NAMES[1], 4, g)
  BY <1>4, <1>5 DEF Follows
<1>7. PICK f \in [0..4 -> Metrics] : Runs(DominanceStep(ws), METRIC_NAMES[1], 4, f) /\ g[1..4] = f[4]
  <2>1. Reaches(Metrics, DominanceStep(ws), METRIC_NAMES[1], 4, g)
    BY <1>2, <1>3, <1>6, IterationRuns
  <2> QED  BY <2>1 DEF Reaches
<1>8. ASSUME NEW k \in 1..4 PROVE f[k] = Better(ws, f[k - 1], METRIC_NAMES[k])
  <2>1. k - 1 \in 0..4
    OBVIOUS
  <2>2. <<f[k - 1], k>> \in Metrics \X (1..4)
    BY <2>1
  <2>3. f[k] = DominanceStep(ws)[<<f[k - 1], k>>]
    BY <1>7 DEF Runs
  <2> QED  BY <2>2, <2>3 DEF DominanceStep
<1> QED  BY <1>1, <1>7, <1>8 DEF RunningBest, Runs

(* Scaling every window of ws by a factor of its own leaves the comparison *)
(* of any two, and with them the dominant metric, as they are.             *)
Compares(D, E, S, T) == D > 0 /\ (E = 0 \/ D * D * T > E * E * S)

(* Deviations times k and l, spreads times their squares: the comparison   *)
(* of the quotients stays.                                                 *)
LEMMA ComparisonScales ==
    ASSUME NEW D \in Int, NEW E \in Int, NEW S \in Int, NEW T \in Int,
           NEW k \in Int, k >= 1, NEW l \in Int, l >= 1
    PROVE  Compares(k * D, l * E, k * k * S, l * l * T) <=> Compares(D, E, S, T)
<1>1. k * D > 0 <=> D > 0
  OBVIOUS
<1>2. l * E = 0 <=> E = 0
  OBVIOUS
<1>3. PICK p, q, c : p = D * D * T /\ q = E * E * S /\ c = (k * l) * (k * l)
  OBVIOUS
<1>4. p \in Int /\ q \in Int /\ c \in Int
  BY <1>3
<1>5. c >= 1
  <2>1. k * l >= 1 /\ k * l \in Int
    OBVIOUS
  <2>2. \A x \in Int : x >= 1 => x * x >= 1
    OBVIOUS
  <2> QED  BY <1>3, <2>1, <2>2
<1>6. (k * D) * (k * D) * (l * l * T) = c * p
  BY <1>3
<1>7. (l * E) * (l * E) * (k * k * S) = c * q
  BY <1>3
<1>8. c * p > c * q <=> p > q
  <2>1. PICK d : d = p - q
    OBVIOUS
  <2>2. d \in Int /\ (d > 0 <=> p > q)
    BY <1>4, <2>1
  <2>3. c * d > 0 <=> d > 0
    BY <1>4, <1>5, <2>2
  <2>4. c * p - c * q = c * d /\ c * p \in Int /\ c * q \in Int /\ c * d \in Int
    BY <1>4, <2>1, <2>2
  <2> QED  BY <2>2, <2>3, <2>4
<1> QED  BY <1>1, <1>2, <1>3, <1>6, <1>7, <1>8 DEF Compares

(* The deviation and the spread of a window, moved and scaled.             *)
LEMMA SpreadIs ==
    ASSUME NEW s \in Seq(Int)
    PROVE  Spread(s) = ScaledVariance(s)
<1>1. \A u : AddUp(u) = SumSeq(u)
  BY SumsAgree
<1> QED  BY <1>1 DEF Spread, ScaledVariance

Scales(t, s, k) ==
    /\ Deviation(s) \in Int /\ Spread(s) \in Int
    /\ Deviation(t) = k * Deviation(s) /\ Spread(t) = k * k * Spread(s)

Magnitude(a) == IF a < 0 THEN -a ELSE a

(* Another unit scales the deviation by its magnitude and the spread by    *)
(* its square.                                                             *)
LEMMA DeviationScales ==
    ASSUME NEW s \in Seq(Int), NEW t \in Seq(Int), NEW a \in Int, NEW b \in Int,
           IsMoved(t, s, a, b), Len(s) >= 1
    PROVE  Scales(t, s, Magnitude(a))
<1>1. PICK n, S, last : n = Len(s) /\ S = Total(s) /\ last = s[n]
  OBVIOUS
<1>2. n \in Nat /\ n >= 1 /\ S \in Int /\ last \in Int /\ Len(t) = n /\ t[n] = a * last + b
  BY <1>1, IntSeq, TotalType DEF IsMoved
<1>3. Last(s) = last /\ Last(t) = a * last + b
  BY <1>1, <1>2 DEF Last
<1>4. Total(t) = a * S + b * n
  BY <1>1, MovedSums DEF SumsMove
<1>5. AddUp(s) = S /\ AddUp(t) = a * S + b * n
  BY <1>1, <1>4, SumsAgree
<1>6. PICK d : d = n * last - S
  OBVIOUS
<1>7. d \in Int /\ n * (a * last + b) - (a * S + b * n) = a * d
  BY <1>2, <1>6
<1>8. Deviation(s) = IF d < 0 THEN -d ELSE d
  BY <1>1, <1>3, <1>5, <1>6 DEF Deviation
<1>9. Deviation(t) = IF a * d < 0 THEN -(a * d) ELSE a * d
  BY <1>2, <1>3, <1>5, <1>7 DEF Deviation
<1>10. Deviation(s) \in Int
  BY <1>7, <1>8
<1>11. Deviation(t) = Magnitude(a) * Deviation(s)
  <2>1. \A x \in Int : a >= 0 /\ x >= 0 => a * x >= 0
    OBVIOUS
  <2>2. CASE a >= 0 /\ d >= 0
    <3>1. a * d >= 0 /\ a * d \in Int
      BY <1>7, <2>1, <2>2
    <3> QED  BY <1>7, <1>8, <1>9, <2>2, <3>1 DEF Magnitude
  <2>3. CASE a >= 0 /\ d < 0
    <3>1. a * (-d) >= 0 /\ a * (-d) = -(a * d) /\ a * d \in Int
      BY <1>7, <2>1, <2>3
    <3> QED  BY <1>7, <1>8, <1>9, <2>3, <3>1 DEF Magnitude
  <2>4. CASE a < 0 /\ d >= 0
    <3>1. (-a) * d >= 0 /\ (-a) * d = -(a * d) /\ a * d \in Int
      BY <1>7, <2>4
    <3> QED  BY <1>7, <1>8, <1>9, <2>4, <3>1 DEF Magnitude
  <2>5. CASE a < 0 /\ d < 0
    <3>1. (-a) * (-d) = a * d /\ (-a) * (-d) >= 0 /\ a * d \in Int
      BY <1>7, <2>5
    <3> QED  BY <1>7, <1>8, <1>9, <2>5, <3>1 DEF Magnitude
  <2> QED  BY <1>7, <2>2, <2>3, <2>4, <2>5
<1>12. Spread(s) \in Int /\ Spread(t) = a * a * Spread(s)
  BY MovedVariance, SpreadIs
<1>13. Magnitude(a) * Magnitude(a) = a * a
  BY DEF Magnitude
<1> QED  BY <1>10, <1>11, <1>12, <1>13 DEF Scales

(* The comparison of two windows in terms of their four numbers.           *)
LEMMA MoreDeviantIs ==
    ASSUME NEW v, NEW w
    PROVE  MoreDeviant(v, w) <=> Compares(Deviation(v), Deviation(w), Spread(v), Spread(w))
BY DEF MoreDeviant, Compares

(* Units do not matter to the comparison of two windows.                   *)
LEMMA MoreDeviantScales ==
    ASSUME NEW v, NEW w, NEW x, NEW y, NEW k \in Int, k >= 1, NEW l \in Int, l >= 1,
           Scales(x, v, k), Scales(y, w, l)
    PROVE  MoreDeviant(x, y) <=> MoreDeviant(v, w)
<1>1. PICK D, E, S, T : /\ D = Deviation(v) /\ E = Deviation(w) /\ S = Spread(v)
                        /\ T = Spread(w)
  OBVIOUS
<1>2. /\ D \in Int /\ E \in Int /\ S \in Int /\ T \in Int
      /\ Deviation(x) = k * D /\ Spread(x) = k * k * S
      /\ Deviation(y) = l * E /\ Spread(y) = l * l * T
  BY <1>1 DEF Scales
<1>3. Compares(k * D, l * E, k * k * S, l * l * T) <=> Compares(D, E, S, T)
  BY <1>2, ComparisonScales
<1> QED  BY <1>1, <1>2, <1>3, MoreDeviantIs

(* us are the windows ws, each in another unit.                            *)
LEMMA DominanceKept ==
    ASSUME NEW ws, NEW us, \E m \in Metrics : ws[m] # <<>>, \E m \in Metrics : us[m] # <<>>,
           \A m \in Metrics : \E k \in Int : k >= 1 /\ Scales(us[m], ws[m], k)
    PROVE  DominantMetric(us) = DominantMetric(ws)
<1>1. ASSUME NEW best \in Metrics, NEW m \in Metrics
      PROVE  Better(us, best, m) = Better(ws, best, m)
  <2>1. PICK k \in Int : k >= 1 /\ Scales(us[m], ws[m], k)
    OBVIOUS
  <2>2. PICK l \in Int : l >= 1 /\ Scales(us[best], ws[best], l)
    OBVIOUS
  <2>3. MoreDeviant(us[m], us[best]) <=> MoreDeviant(ws[m], ws[best])
    BY <2>1, <2>2, MoreDeviantScales
  <2> QED  BY <2>3 DEF Better
<1>2. PICK f : RunningBest(ws, f) /\ DominantMetric(ws) = f[4]
  BY DominantRuns
<1>3. PICK g : RunningBest(us, g) /\ DominantMetric(us) = g[4]
  BY DominantRuns
<1> DEFINE Good == {k \in 0..4 : g[k] = f[k]}
<1>4. 0 \in Good
  BY <1>2, <1>3 DEF RunningBest
<1>5. ASSUME NEW k \in 0..(4 - 1), k \in Good PROVE k + 1 \in Good
  <2>1. k + 1 \in 1..4 /\ (k + 1) - 1 = k /\ k \in 0..4 /\ k + 1 \in 0..4
    OBVIOUS
  <2>2. f[k] \in Metrics /\ g[k] = f[k] /\ METRIC_NAMES[k + 1] \in Metrics
    BY <1>2, <1>5, <2>1, MetricNames DEF RunningBest
  <2>3. f[k + 1] = Better(ws, f[k], METRIC_NAMES[k + 1])
    BY <1>2, <2>1 DEF RunningBest
  <2>4. g[k + 1] = Better(us, g[k], METRIC_NAMES[k + 1])
    BY <1>3, <2>1 DEF RunningBest
  <2> QED  BY <1>1, <2>1, <2>2, <2>3, <2>4
<1> HIDE DEF Good
<1>6. 4 \in Good
  BY <1>4, <1>5, UpTo, 4 \in Nat, 4 \in 0..4
<1> QED  BY <1>2, <1>3, <1>6 DEF Good

(* Changing one metric's unit changes no choice.                           *)
LEMMA DominanceIgnores == Inputs => DominanceIgnoresUnits
<1> SUFFICES ASSUME Inputs, windows # NoWindows, NEW m \in Metrics,
                    NEW change \in Units
             PROVE  LET moved == [windows EXCEPT ![m] =
                                    [i \in DOMAIN @ |-> change[1] * @[i] + change[2]]]
                    IN  DominantMetric(moved) = DominantMetric(windows)
  BY Zenon DEF DominanceIgnoresUnits
<1> DEFINE new == [i \in DOMAIN windows[m] |-> change[1] * windows[m][i] + change[2]]
           moved == [windows EXCEPT ![m] = [i \in DOMAIN @ |-> change[1] * @[i] + change[2]]]
<1>0. windows \in [Metrics -> Seq(Nat)]
      /\ \E n \in Nat \ {0} : \A x \in Metrics : Len(windows[x]) = n
  BY DEF Inputs
<1>1. windows \in [Metrics -> Seq(Nat)] /\ \A x \in Metrics : Len(windows[x]) >= 1
  BY <1>0
<1>2. \A x \in Metrics : windows[x] \in Seq(Int)
  BY <1>1, NatSeqIsInt
<1>3. PICK a \in Int, b \in Int : a = change[1] /\ b = change[2] /\ Magnitude(a) >= 1
  <2>1. change[1] \in Int \ {0} /\ change[2] \in Int
    BY UnitsAssumption
  <2> QED  BY <2>1 DEF Magnitude
<1>4. moved[m] = new /\ \A x \in Metrics : x # m => moved[x] = windows[x]
  BY <1>1
<1>5. new \in Seq(Int) /\ IsMoved(new, windows[m], a, b)
  <2>1. PICK w : w = windows[m]
    OBVIOUS
  <2>2. w \in Seq(Int) /\ DOMAIN w = 1..Len(w) /\ Len(w) \in Nat /\ \A i \in 1..Len(w) : w[i] \in Int
    BY <1>2, <2>1, IntSeq
  <2>3. \A i \in 1..Len(w) : a * w[i] + b \in Int
    BY <2>2
  <2>4. new = [i \in 1..Len(w) |-> a * w[i] + b]
    BY <1>3, <2>1, <2>2
  <2> HIDE DEF new
  <2>5. new \in Seq(Int) /\ Len(new) = Len(w) /\ \A i \in 1..Len(w) : new[i] = a * w[i] + b
    BY <2>2, <2>3, <2>4
  <2> QED  BY <2>1, <2>5 DEF IsMoved
<1> HIDE DEF new, moved
<1>6. ASSUME NEW x \in Metrics
      PROVE  \E k \in Int : k >= 1 /\ Scales(moved[x], windows[x], k)
  <2>1. CASE x = m
    <3>1. Scales(moved[m], windows[m], Magnitude(a))
      BY <1>1, <1>2, <1>4, <1>5, DeviationScales
    <3>2. Magnitude(a) \in Int
      BY DEF Magnitude
    <3> QED  BY <1>3, <2>1, <3>1, <3>2
  <2>2. CASE x # m
    <3>1. PICK w : w = windows[x]
      OBVIOUS
    <3>2. w \in Seq(Int) /\ Len(w) >= 1
      BY <1>1, <1>2, <3>1
    <3>3. \A i \in 1..Len(w) : w[i] = 1 * w[i] + 0
      BY <3>2, IntSeq
    <3>4. IsMoved(w, w, 1, 0)
      BY <3>3 DEF IsMoved
    <3>5. Scales(w, w, Magnitude(1))
      BY <3>2, <3>4, DeviationScales, 1 \in Int, 0 \in Int
    <3>6. Magnitude(1) = 1
      BY DEF Magnitude
    <3> QED  BY <1>4, <2>2, <3>1, <3>5, <3>6
  <2> QED  BY <2>1, <2>2
<1>7. \A x \in Metrics : windows[x] # <<>> /\ moved[x] # <<>>
  <2>1. ASSUME NEW x \in Metrics PROVE windows[x] # <<>> /\ moved[x] # <<>>
    <3>1. Len(windows[x]) >= 1 /\ Len(windows[m]) >= 1
      BY <1>1
    <3>2. Len(moved[x]) >= 1
      BY <1>4, <1>5, <3>1 DEF IsMoved
    <3> QED  BY <3>1, <3>2
  <2> QED  BY <2>1
<1>8. DominantMetric(moved) = DominantMetric(windows)
  BY <1>6, <1>7, DominanceKept
<1> QED  BY <1>8 DEF moved

(* For every value of the parameters: neither the unit nor the sign of one *)
(* metric's values changes which metric an alert is said to be about.      *)
THEOREM DominanceIgnoresUnitsAlways == Spec => []DominanceIgnoresUnits
BY InputsAlways, DominanceIgnores, PTL
-----------------------------------------------------------------------------
(* An incident.                                                            *)
-----------------------------------------------------------------------------

(* The names of the metrics differ.                                        *)
LEMMA NamesDiffer == \A j, k \in 1..4 : METRIC_NAMES[j] = METRIC_NAMES[k] => j = k
BY DEF METRIC_NAMES

(* A window without variation.                                             *)
Flat(w) == \A i \in 1..Len(w) : w[i] = w[1]

(* Its first and its last value are its mean.                              *)
LEMMA FlatWindow ==
    ASSUME NEW w \in Seq(Int), Len(w) >= 1, Flat(w)
    PROVE  /\ AddUp(w) = Len(w) * Latest(w) /\ AddUp(w) \in Int
           /\ Deviation(w) = 0 /\ Latest(w) \in Int
<1>1. PICK n, v : n = Len(w) /\ v = w[1]
  OBVIOUS
<1>2. n \in Nat /\ n >= 1 /\ v \in Int /\ DOMAIN w = 1..n
  BY <1>1, IntSeq
<1>3. \A i \in 1..n : w[i] = v
  BY <1>1, <1>2 DEF Flat
<1>4. Last(w) = v
  BY <1>1, <1>2, <1>3 DEF Last
<1>5. Combines(w, 0, w, 0, w, v)
  <2>1. \A i \in 1..n : w[i] \in Int /\ w[i] = 0 * w[i] + 0 * w[i] + v
    BY <1>2, <1>3
  <2> QED  BY <1>1, <2>1 DEF Combines
<1>6. Total(w) = 0 * Total(w) + 0 * Total(w) + v * n
  BY <1>1, <1>2, <1>5, TotalLinear, 0 \in Int DEF TotalsCombine
<1>7. AddUp(w) = n * v
  BY <1>2, <1>6, TotalType, SumsAgree
<1>8. Deviation(w) = 0
  <2>1. n * v \in Int /\ n * v - n * v = 0
    BY <1>2
  <2> QED  BY <1>1, <1>4, <1>7, <2>1 DEF Deviation
<1>9. Latest(w) = v /\ n * v \in Int
  BY <1>1, <1>2 DEF Latest
<1> QED  BY <1>1, <1>2, <1>7, <1>8, <1>9

(* A total of numbers that are not negative, one of them positive.         *)
LEMMA TotalPositive ==
    ASSUME NEW s \in Seq(Int), \A i \in 1..Len(s) : s[i] >= 0,
           NEW p \in 1..Len(s), s[p] > 0
    PROVE  Total(s) > 0
<1>1. PICK n : n = Len(s)
  OBVIOUS
<1>2. n \in Nat /\ p \in 1..n /\ \A i \in 1..n : s[i] \in Int /\ s[i] >= 0
  BY <1>1, IntSeq
<1>3. PICK f : RunningSum(s, f) /\ Total(s) = f[n]
  BY <1>1, TotalRuns
<1>4. f[0] = 0 /\ \A k \in 1..n : f[k] = f[k - 1] + s[k]
  BY <1>1, <1>3 DEF RunningSum
<1>5. \A k \in 0..n : f[k] \in Int
  BY <1>1, <1>3 DEF RunningSum
<1> DEFINE Good == {k \in 0..n : f[k] >= 0 /\ (k >= p => f[k] > 0)}
<1>6. 0 \in Good
  BY <1>2, <1>4
<1>7. ASSUME NEW k \in 0..(n - 1), k \in Good PROVE k + 1 \in Good
  <2>1. k + 1 \in 1..n /\ (k + 1) - 1 = k /\ k + 1 \in 0..n /\ k \in 0..n
    BY <1>2
  <2>2. f[k + 1] = f[k] + s[k + 1] /\ f[k] \in Int /\ f[k] >= 0 /\ (k >= p => f[k] > 0)
        /\ s[k + 1] \in Int /\ s[k + 1] >= 0
    BY <1>2, <1>4, <1>5, <1>7, <2>1
  <2>3. k + 1 = p => s[k + 1] > 0
    OBVIOUS
  <2>4. k + 1 >= p => k >= p \/ k + 1 = p
    BY <1>2, <2>1
  <2>5. f[k + 1] >= 0 /\ (k + 1 >= p => f[k + 1] > 0)
    BY <2>2, <2>3, <2>4
  <2> QED  BY <2>1, <2>5
<1> HIDE DEF Good
<1>8. n \in Good
  BY <1>2, <1>6, <1>7, UpTo, n \in 0..n
<1> QED  BY <1>2, <1>3, <1>8 DEF Good

(* A window that reaches its greatest value and has a smaller one: its mean*)
(* is positive and below the greatest.                                     *)
LEMMA RisenWindow ==
    ASSUME NEW w \in Seq(Nat), NEW p \in 1..Len(w), NEW q \in 1..Len(w),
           w[q] < w[p], \A i \in 1..Len(w) : w[i] <= w[p]
    PROVE  AddUp(w) \in Int /\ AddUp(w) > 0 /\ Len(w) * w[p] > AddUp(w)
<1>1. PICK n, top, S : n = Len(w) /\ top = w[p] /\ S = Total(w)
  OBVIOUS
<1>2. w \in Seq(Int) /\ n \in Nat /\ n >= 1
  BY <1>1, NatSeqIsInt, IntSeq
<1>3. \A i \in 1..n : w[i] \in Nat /\ w[i] <= top
  BY <1>1, <1>2, IntSeq
<1>4. top \in Nat /\ top > 0 /\ S \in Int /\ AddUp(w) = S
  <2>1. top \in Nat /\ w[q] \in Nat
    BY <1>1, <1>3
  <2>2. S \in Int /\ AddUp(w) = S
    BY <1>1, <1>2, TotalType, SumsAgree
  <2> QED  BY <1>1, <2>1, <2>2
<1>5. S > 0
  BY <1>1, <1>2, <1>3, <1>4, TotalPositive
<1> DEFINE u == [i \in 1..n |-> top - w[i]]
<1>6. u \in Seq(Int) /\ Len(u) = n /\ \A i \in 1..n : u[i] = top - w[i]
  <2>1. \A i \in 1..n : top - w[i] \in Int
    BY <1>3, <1>4
  <2> QED  BY <1>2, <2>1
<1> HIDE DEF u
<1>7. Combines(u, -1, w, 0, w, top)
  <2>1. ASSUME NEW i \in 1..n PROVE u[i] = (-1) * w[i] + 0 * w[i] + top
    <3>1. PICK x \in Int, y \in Int : x = w[i] /\ y = top
      BY <1>3, <1>4
    <3>2. y - x = (-1) * x + 0 * x + y
      OBVIOUS
    <3> QED  BY <1>6, <3>1, <3>2, Zenon
  <2> QED  BY <1>1, <1>6, <2>1 DEF Combines
<1>8. Total(u) = (-1) * S + 0 * S + top * n
  <2>1. PICK a \in Int, b \in Int, c \in Int : a = -1 /\ b = 0 /\ c = top
    BY <1>4
  <2>2. TotalsCombine(u, a, w, b, w, c)
    BY <1>1, <1>2, <1>6, <1>7, <2>1, TotalLinear
  <2> QED  BY <1>1, <1>6, <2>1, <2>2 DEF TotalsCombine
<1>9. Total(u) > 0
  <2>1. ASSUME NEW i \in 1..n PROVE u[i] >= 0
    <3>1. w[i] \in Nat /\ w[i] <= top /\ u[i] = top - w[i]
      BY <1>3, <1>6
    <3> QED  BY <1>4, <3>1
  <2>2. u[q] > 0
    <3>1. q \in 1..n /\ w[q] < top /\ w[q] \in Nat
      BY <1>1, <1>2, <1>3
    <3> QED  BY <1>2, <1>3, <1>4, <1>6, <3>1
  <2> QED  BY <1>1, <1>6, <2>1, <2>2, TotalPositive
<1>10. n * top > S
  <2>1. PICK z \in Int : z = top * n
    BY <1>2, <1>4
  <2>2. n * top = z
    BY <1>2, <1>4, <2>1
  <2>3. (-1) * S + 0 * S + z > 0
    BY <1>8, <1>9, <2>1
  <2> QED  BY <1>4, <2>2, <2>3
<1> QED  BY <1>1, <1>4, <1>5, <1>10

(* If its greatest value is the last one, that one deviates.               *)
LEMMA RisenDeviates ==
    ASSUME NEW w \in Seq(Nat), Len(w) * Last(w) > AddUp(w), AddUp(w) \in Int, Last(w) \in Nat
    PROVE  Deviation(w) > 0
<1>1. PICK z : z = Len(w) * Last(w)
  OBVIOUS
<1>2. PICK S \in Int : S = AddUp(w)
  OBVIOUS
<1>3. Len(w) \in Nat
  BY LenProperties
<1>4. z \in Int /\ z > S
  BY <1>1, <1>2, <1>3
<1>5. z - S > 0 /\ ~(z - S < 0)
  BY <1>4
<1>6. Deviation(w) = IF z - S < 0 THEN -(z - S) ELSE z - S
  BY <1>1, <1>2, Zenon DEF Deviation
<1> QED  BY <1>5, <1>6

(* From the turn of the loop that meets a metric more deviant than all     *)
(* others, whose deviation is 0, it stays the dominant one.                *)
LEMMA OnlyDeviantDominates ==
    ASSUME NEW ws, NEW m \in Metrics, \E x \in Metrics : ws[x] # <<>>,
           Deviation(ws[m]) \in Int, Spread(ws[m]) \in Int, Deviation(ws[m]) > 0,
           \A x \in Metrics \ {m} : Deviation(ws[x]) = 0
    PROVE  DominantMetric(ws) = m
<1>1. PICK f : RunningBest(ws, f) /\ DominantMetric(ws) = f[4]
  BY DominantRuns
<1>2. PICK j \in 1..4 : m = METRIC_NAMES[j]
  BY MetricNames
<1>3. ASSUME NEW best \in Metrics PROVE Better(ws, best, m) = m
  <2>1. CASE best = m
    BY <2>1 DEF Better
  <2>2. CASE best # m
    <3>1. MoreDeviant(ws[m], ws[best])
      BY <2>2 DEF MoreDeviant
    <3> QED  BY <3>1 DEF Better
  <2> QED  BY <2>1, <2>2
<1>4. ASSUME NEW x \in Metrics PROVE Better(ws, m, x) = m
  <2>1. CASE x = m
    BY <2>1 DEF Better
  <2>2. CASE x # m
    <3>1. ~MoreDeviant(ws[x], ws[m])
      BY <2>2 DEF MoreDeviant
    <3> QED  BY <3>1 DEF Better
  <2> QED  BY <2>1, <2>2
<1> DEFINE Good == {k \in 0..4 : k >= j => f[k] = m}
<1>5. 0 \in Good
  OBVIOUS
<1>6. ASSUME NEW k \in 0..(4 - 1), k \in Good PROVE k + 1 \in Good
  <2>1. k + 1 \in 1..4 /\ (k + 1) - 1 = k /\ k \in 0..4 /\ k + 1 \in 0..4
    OBVIOUS
  <2>2. f[k] \in Metrics /\ METRIC_NAMES[k + 1] \in Metrics
    BY <1>1, <2>1, MetricNames DEF RunningBest
  <2>3. f[k + 1] = Better(ws, f[k], METRIC_NAMES[k + 1])
    BY <1>1, <2>1 DEF RunningBest
  <2>4. CASE k + 1 = j
    <3>1. f[k + 1] = m
      BY <1>2, <1>3, <2>2, <2>3, <2>4
    <3> QED  BY <2>1, <3>1
  <2>5. CASE k + 1 > j
    <3>1. f[k] = m
      BY <1>6, <2>5
    <3>2. f[k + 1] = m
      BY <1>4, <2>2, <2>3, <3>1
    <3> QED  BY <2>1, <3>2
  <2>6. CASE k + 1 < j
    BY <2>1, <2>6
  <2> QED  BY <2>4, <2>5, <2>6
<1> HIDE DEF Good
<1>7. 4 \in Good
  BY <1>5, <1>6, UpTo, 4 \in Nat, 4 \in 0..4
<1> QED  BY <1>1, <1>7 DEF Good

(* The loop of _infer_dominant_metric.                                     *)
Guesses == {<<>>} \cup {<<m>> : m \in Metrics}

InferenceStep(ws) ==
    [p \in Guesses \X (1..4) |-> BetterRatio(ws, p[1], METRIC_NAMES[p[2]])]

Infers(ws, g) ==
    g = [t \in SUBSET DOMAIN METRIC_NAMES |->
           IF t = {} THEN <<>>
           ELSE BetterRatio(ws, g[t \ {Max(t)}], METRIC_NAMES[Max(t)])]

(* The inferred metric as the value of the function the fold chooses.      *)
LEMMA InferredIsFolded ==
    ASSUME NEW ws
    PROVE  InferredMetric(ws) =
             LET best == LET g == CHOOSE g : Infers(ws, g) IN g[DOMAIN METRIC_NAMES]
             IN  IF best = <<>> THEN "latency_ms" ELSE best[1]
BY Zenon DEF InferredMetric, FoldLeft, MapThenFoldSet, Infers

(* A turn of the mock's loop leaves a guess or none.                       *)
LEMMA InferenceStepType ==
    ASSUME NEW ws
    PROVE  InferenceStep(ws) \in [Guesses \X (1..4) -> Guesses]
<1>1. ASSUME NEW b \in Guesses, NEW k \in 1..4
      PROVE  BetterRatio(ws, b, METRIC_NAMES[k]) \in Guesses
  BY MetricNames DEF BetterRatio, Guesses
<1>2. \A p \in Guesses \X (1..4) : BetterRatio(ws, p[1], METRIC_NAMES[p[2]]) \in Guesses
  BY <1>1
<1> QED  BY <1>2 DEF InferenceStep

(* There is a function as the fold describes it.                           *)
LEMMA InferenceExists ==
    ASSUME NEW ws
    PROVE  \E g : Infers(ws, g)
<1>1. InferenceStep(ws) \in [Guesses \X (1..4) -> Guesses]
  BY InferenceStepType
<1>2. <<>> \in Guesses /\ 4 \in Nat
  BY DEF Guesses
<1>3. PICK g \in [SUBSET (1..4) -> Guesses] : Iterates(InferenceStep(ws), <<>>, 4, g)
  BY <1>1, <1>2, IterationExists
<1>4. ASSUME NEW t \in SUBSET (1..4), t # {}
      PROVE  g[t] = BetterRatio(ws, g[t \ {Max(t)}], METRIC_NAMES[Max(t)])
  <2>1. g[t] = InferenceStep(ws)[<<g[t \ {Max(t)}], Max(t)>>]
    BY <1>3, <1>4 DEF Iterates
  <2>2. Max(t) \in 1..4 /\ t \ {Max(t)} \in SUBSET (1..4)
    BY <1>2, <1>4, MaxIndex
  <2>3. <<g[t \ {Max(t)}], Max(t)>> \in Guesses \X (1..4)
    BY <2>2
  <2> QED  BY <2>1, <2>3 DEF InferenceStep
<1>5. \A t \in SUBSET (1..4) :
        g[t] = IF t = {} THEN <<>>
               ELSE BetterRatio(ws, g[t \ {Max(t)}], METRIC_NAMES[Max(t)])
  BY <1>3, <1>4 DEF Iterates
<1>6. g = [t \in SUBSET (1..4) |-> g[t]]
  OBVIOUS
<1>7. Infers(ws, g)
  BY <1>5, <1>6, MetricNames, Zenon DEF Infers
<1> QED  BY <1>7

(* f lists the guess so far.                                               *)
RunningGuess(ws, f) ==
    /\ f \in [0..4 -> Guesses]
    /\ f[0] = <<>>
    /\ \A k \in 1..4 : f[k] = BetterRatio(ws, f[k - 1], METRIC_NAMES[k])

(* The loop of _infer_dominant_metric, turn by turn.                       *)
LEMMA InferenceRuns ==
    ASSUME NEW ws
    PROVE  \E f : /\ RunningGuess(ws, f)
                  /\ InferredMetric(ws) = IF f[4] = <<>> THEN "latency_ms" ELSE f[4][1]
<1>1. PICK g : Infers(ws, g) /\ InferredMetric(ws) = IF g[1..4] = <<>> THEN "latency_ms"
                                                     ELSE g[1..4][1]
  BY InferenceExists, InferredIsFolded, MetricNames
<1>2. InferenceStep(ws) \in [Guesses \X (1..4) -> Guesses]
  BY InferenceStepType
<1>3. <<>> \in Guesses /\ 4 \in Nat
  BY DEF Guesses
<1>4. g[{}] = <<>>
  BY <1>1 DEF Infers
<1>5. ASSUME NEW t \in SUBSET (1..4), t # {}, g[t \ {Max(t)}] \in Guesses
      PROVE  g[t] = InferenceStep(ws)[<<g[t \ {Max(t)}], Max(t)>>]
  <2>1. g[t] = BetterRatio(ws, g[t \ {Max(t)}], METRIC_NAMES[Max(t)])
    BY <1>1, <1>5, MetricNames DEF Infers
  <2>2. Max(t) \in 1..4
    BY <1>3, <1>5, MaxIndex
  <2>3. <<g[t \ {Max(t)}], Max(t)>> \in Guesses \X (1..4)
    BY <1>5, <2>2
  <2> QED  BY <2>1, <2>3 DEF InferenceStep
<1>6. Follows(Guesses, InferenceStep(ws), <<>>, 4, g)
  BY <1>4, <1>5 DEF Follows
<1>7. PICK f \in [0..4 -> Guesses] : Runs(InferenceStep(ws), <<>>, 4, f) /\ g[1..4] = f[4]
  <2>1. Reaches(Guesses, InferenceStep(ws), <<>>, 4, g)
    BY <1>2, <1>3, <1>6, IterationRuns
  <2> QED  BY <2>1 DEF Reaches
<1>8. ASSUME NEW k \in 1..4 PROVE f[k] = BetterRatio(ws, f[k - 1], METRIC_NAMES[k])
  <2>1. k - 1 \in 0..4
    OBVIOUS
  <2>2. <<f[k - 1], k>> \in Guesses \X (1..4)
    BY <2>1
  <2>3. f[k] = InferenceStep(ws)[<<f[k - 1], k>>]
    BY <1>7 DEF Runs
  <2> QED  BY <2>2, <2>3 DEF InferenceStep
<1> QED  BY <1>1, <1>7, <1>8 DEF RunningGuess, Runs

(* From the turn that meets the one metric above its mean it is the guess, *)
(* when all others stand at theirs.                                        *)
LEMMA OnlyRisenIsInferred ==
    ASSUME NEW ws, NEW m \in Metrics, NEW n \in Nat, n >= 1,
           \A x \in Metrics : AddUp(ws[x]) \in Int /\ Latest(ws[x]) \in Int,
           AddUp(ws[m]) > 0, n * Latest(ws[m]) > AddUp(ws[m]),
           \A x \in Metrics \ {m} : AddUp(ws[x]) = n * Latest(ws[x])
    PROVE  InferredMetric(ws) = m
<1>1. PICK f : /\ RunningGuess(ws, f)
               /\ InferredMetric(ws) = IF f[4] = <<>> THEN "latency_ms" ELSE f[4][1]
  BY InferenceRuns
<1>2. PICK j \in 1..4 : m = METRIC_NAMES[j]
  BY MetricNames
<1>3. ASSUME NEW x \in Metrics \ {m}, AddUp(ws[x]) > 0
      PROVE  GreaterRatio(ws[m], ws[x]) /\ ~GreaterRatio(ws[x], ws[m])
  <2>1. PICK L, A, M, B : L = Latest(ws[m]) /\ A = AddUp(ws[m]) /\ M = Latest(ws[x])
                          /\ B = AddUp(ws[x])
    OBVIOUS
  <2>2. L \in Int /\ A \in Int /\ M \in Int /\ B \in Int /\ n * L > A /\ B = n * M /\ B > 0
    BY <1>3, <2>1
  <2>3. M > 0
    <3>1. M <= 0 => n * M <= 0
      BY <2>2
    <3> QED  BY <2>2, <3>1
  <2>4. PICK d : d = n * L - A
    OBVIOUS
  <2>5. d \in Int /\ d > 0
    BY <2>2, <2>4
  <2>6. M * d > 0
    BY <2>2, <2>3, <2>5
  <2>7. L * (n * M) - M * A = M * d /\ L * (n * M) \in Int /\ M * A \in Int /\ M * d \in Int
    BY <2>2, <2>4
  <2>8. L * B > M * A
    BY <2>2, <2>6, <2>7
  <2>9. ~(M * A > L * B)
    BY <2>2, <2>7, <2>8
  <2> QED  BY <2>1, <2>8, <2>9 DEF GreaterRatio
(* The guess before is none, or another measured metric, or m itself.      *)
<1> DEFINE Good == {k \in 0..4 :
                      IF k >= j THEN f[k] = <<m>>
                      ELSE f[k] = <<>> \/ \E x \in Metrics \ {m} : f[k] = <<x>> /\ AddUp(ws[x]) > 0}
<1>4. 0 \in Good
  BY <1>1 DEF RunningGuess
<1>5. ASSUME NEW k \in 0..(4 - 1), k \in Good PROVE k + 1 \in Good
  <2>1. k + 1 \in 1..4 /\ (k + 1) - 1 = k /\ k \in 0..4 /\ k + 1 \in 0..4
    OBVIOUS
  <2>2. METRIC_NAMES[k + 1] \in Metrics
    BY <2>1, MetricNames
  <2>3. f[k + 1] = BetterRatio(ws, f[k], METRIC_NAMES[k + 1])
    BY <1>1, <2>1 DEF RunningGuess
  <2>4. CASE k + 1 = j
    <3>1. METRIC_NAMES[k + 1] = m
      BY <1>2, <2>4
    <3>2. f[k] = <<>> \/ \E x \in Metrics \ {m} : f[k] = <<x>> /\ AddUp(ws[x]) > 0
      BY <1>5, <2>4
    <3>3. f[k] # <<>> => GreaterRatio(ws[m], ws[f[k][1]])
      BY <1>3, <3>2
    <3>4. f[k + 1] = <<m>>
      BY <2>3, <3>1, <3>3 DEF BetterRatio
    <3> QED  BY <2>1, <2>4, <3>4
  <2>5. CASE k + 1 > j
    <3>1. f[k] = <<m>>
      BY <1>5, <2>5
    <3>2. PICK x \in Metrics : x = METRIC_NAMES[k + 1]
      BY <2>2
    <3>3. x # m
      BY <1>2, <2>1, <2>5, <3>2, NamesDiffer
    <3>4. AddUp(ws[x]) > 0 => ~GreaterRatio(ws[x], ws[m])
      BY <1>3, <3>3
    <3>5. <<m>> # <<>> /\ <<m>>[1] = m
      OBVIOUS
    <3>6. f[k + 1] = <<m>>
      BY <2>3, <3>1, <3>2, <3>4, <3>5 DEF BetterRatio
    <3> QED  BY <2>1, <2>5, <3>6
  <2>6. CASE k + 1 < j
    <3>1. f[k] = <<>> \/ \E x \in Metrics \ {m} : f[k] = <<x>> /\ AddUp(ws[x]) > 0
      BY <1>5, <2>6
    <3>2. PICK x \in Metrics : x = METRIC_NAMES[k + 1]
      BY <2>2
    <3>3. x # m
      BY <1>2, <2>1, <2>6, <3>2, NamesDiffer
    <3>4. f[k + 1] = f[k] \/ (f[k + 1] = <<x>> /\ AddUp(ws[x]) > 0)
      BY <2>3, <3>2 DEF BetterRatio
    <3>5. f[k + 1] = <<>> \/ \E y \in Metrics \ {m} : f[k + 1] = <<y>> /\ AddUp(ws[y]) > 0
      BY <3>1, <3>3, <3>4
    <3>6. k + 1 \in 0..4 /\ ~(k + 1 >= j)
      BY <2>1, <2>6
    <3> QED  BY <3>5, <3>6
  <2> QED  BY <2>4, <2>5, <2>6
<1> HIDE DEF Good
<1>6. 4 \in Good
  BY <1>4, <1>5, UpTo, 4 \in Nat, 4 \in 0..4
<1>7. f[4] = <<m>>
  BY <1>6 DEF Good
<1> QED  BY <1>1, <1>7

(* The values of one metric in a sequence of rows.                         *)
LEMMA ValuesType ==
    ASSUME NEW rows \in Seq(MetricsRow), NEW m \in Metrics
    PROVE  /\ ValuesOf(rows)[m] \in Seq(Nat) /\ Len(ValuesOf(rows)[m]) = Len(rows)
           /\ \A i \in 1..Len(rows) : ValuesOf(rows)[m][i] = rows[i].value[m]
<1>1. PICK n \in Nat : n = Len(rows) /\ DOMAIN rows = 1..n
  BY LenProperties
<1>2. \A i \in 1..n : rows[i].value[m] \in Nat
  <2>1. \A i \in 1..n : rows[i] \in MetricsRow
    BY <1>1, ElementOfSeq
  <2> QED  BY <2>1 DEF MetricsRow
<1>3. ValuesOf(rows)[m] = [i \in 1..n |-> rows[i].value[m]]
  BY <1>1 DEF ValuesOf
<1> QED  BY <1>1, <1>2, <1>3

(* Among the rows, m is greatest in row p and less in row q, and no other  *)
(* metric moves.                                                           *)
Stands(rows, m, p, q) ==
    /\ p \in 1..Len(rows) /\ q \in 1..Len(rows)
    /\ rows[q].value[m] < rows[p].value[m]
    /\ \A i \in 1..Len(rows) : rows[i].value[m] <= rows[p].value[m]
    /\ \A other \in Metrics \ {m} : \A i \in 1..Len(rows) :
          rows[i].value[other] = rows[1].value[other]

(* Then m alone is off its mean, at the row where it is greatest.          *)
LEMMA StandsOut ==
    ASSUME NEW rows \in Seq(MetricsRow), NEW m \in Metrics, NEW p, NEW q, Stands(rows, m, p, q)
    PROVE  LET ws == ValuesOf(rows)
           IN  /\ Len(rows) \in Nat /\ Len(rows) >= 1 /\ p \in 1..Len(rows)
               /\ \A x \in Metrics : ws[x] \in Seq(Nat) /\ Len(ws[x]) = Len(rows)
               /\ AddUp(ws[m]) \in Int /\ AddUp(ws[m]) > 0
               /\ Len(rows) * ws[m][p] > AddUp(ws[m])
               /\ \A x \in Metrics \ {m} :
                    /\ AddUp(ws[x]) = Len(rows) * Latest(ws[x]) /\ AddUp(ws[x]) \in Int
                    /\ Deviation(ws[x]) = 0 /\ Latest(ws[x]) \in Int
<1> DEFINE ws == ValuesOf(rows)
<1>1. PICK n \in Nat : n = Len(rows)
  BY LenProperties
<1>2. p \in 1..n /\ q \in 1..n /\ n >= 1 /\ 1 \in 1..n
  BY <1>1 DEF Stands
<1>3. \A x \in Metrics : /\ ws[x] \in Seq(Nat) /\ Len(ws[x]) = n
                         /\ \A i \in 1..n : ws[x][i] = rows[i].value[x]
  BY <1>1, ValuesType
<1> HIDE DEF ws
<1>4. ws[m][q] < ws[m][p] /\ \A i \in 1..n : ws[m][i] <= ws[m][p]
  <2>1. /\ rows[q].value[m] < rows[p].value[m]
        /\ \A i \in 1..n : rows[i].value[m] <= rows[p].value[m]
    BY <1>1 DEF Stands
  <2> QED  BY <1>2, <1>3, <2>1
<1>5. AddUp(ws[m]) \in Int /\ AddUp(ws[m]) > 0 /\ n * ws[m][p] > AddUp(ws[m])
  <2>1. PICK w \in Seq(Nat) : w = ws[m] /\ Len(w) = n
    BY <1>3
  <2>2. AddUp(w) \in Int /\ AddUp(w) > 0 /\ Len(w) * w[p] > AddUp(w)
    BY <1>2, <1>4, <2>1, RisenWindow
  <2> QED  BY <2>1, <2>2
<1>6. ASSUME NEW x \in Metrics \ {m}
      PROVE  /\ AddUp(ws[x]) = n * Latest(ws[x]) /\ AddUp(ws[x]) \in Int
             /\ Deviation(ws[x]) = 0 /\ Latest(ws[x]) \in Int
  <2>1. PICK w \in Seq(Nat) : w = ws[x] /\ Len(w) = n /\ \A i \in 1..n : w[i] = rows[i].value[x]
    BY <1>3
  <2>2. \A i \in 1..n : w[i] = w[1]
    <3>1. \A i \in 1..n : rows[i].value[x] = rows[1].value[x]
      BY <1>1 DEF Stands
    <3> QED  BY <1>2, <2>1, <3>1
  <2>3. w \in Seq(Int)
    BY <2>1, NatSeqIsInt
  <2>4. Flat(w)
    BY <2>1, <2>2 DEF Flat
  <2> QED  BY <1>2, <2>1, <2>3, <2>4, FlatWindow
<1> QED  BY <1>1, <1>2, <1>3, <1>5, <1>6 DEF ws

(* The mock names the metric that stands out in its first row.             *)
LEMMA StandingIsInferred ==
    ASSUME NEW rows \in Seq(MetricsRow), NEW m \in Metrics, NEW q, Stands(rows, m, 1, q)
    PROVE  InferredMetric(ValuesOf(rows)) = m
<1> DEFINE ws == ValuesOf(rows)
<1>1. PICK n \in Nat : n = Len(rows) /\ n >= 1
  BY StandsOut
<1>2. /\ \A x \in Metrics : ws[x] \in Seq(Nat) /\ Len(ws[x]) = n
      /\ AddUp(ws[m]) \in Int /\ AddUp(ws[m]) > 0 /\ n * ws[m][1] > AddUp(ws[m])
      /\ \A x \in Metrics \ {m} :
           /\ AddUp(ws[x]) = n * Latest(ws[x]) /\ AddUp(ws[x]) \in Int /\ Latest(ws[x]) \in Int
  BY <1>1, StandsOut
<1> HIDE DEF ws
<1>3. Latest(ws[m]) = ws[m][1] /\ Latest(ws[m]) \in Int
  <2>1. PICK w \in Seq(Nat) : w = ws[m] /\ Len(w) = n
    BY <1>2
  <2>2. w[1] \in Nat
    BY <1>1, <2>1, ElementOfSeq
  <2> QED  BY <2>1, <2>2 DEF Latest
<1>4. \A x \in Metrics : AddUp(ws[x]) \in Int /\ Latest(ws[x]) \in Int
  BY <1>2, <1>3
<1>5. InferredMetric(ws) = m
  BY <1>1, <1>2, <1>3, <1>4, OnlyRisenIsInferred
<1> QED  BY <1>5 DEF ws

(* The tools are given the metric that stands out in the alert's own row.  *)
LEMMA StandingDominates ==
    ASSUME NEW rows \in Seq(MetricsRow), NEW m \in Metrics, NEW q,
           Stands(rows, m, Len(rows), q)
    PROVE  DominantMetric(ValuesOf(rows)) = m
<1> DEFINE ws == ValuesOf(rows)
<1>1. PICK n \in Nat : n = Len(rows) /\ n >= 1
  BY StandsOut
<1>2. /\ \A x \in Metrics : ws[x] \in Seq(Nat) /\ Len(ws[x]) = n
      /\ AddUp(ws[m]) \in Int /\ n * ws[m][n] > AddUp(ws[m])
      /\ \A x \in Metrics \ {m} : Deviation(ws[x]) = 0
  BY <1>1, StandsOut
<1> HIDE DEF ws
<1>3. PICK w \in Seq(Nat) : w = ws[m] /\ Len(w) = n
  BY <1>2
<1>4. w \in Seq(Int) /\ Last(w) = w[n] /\ w[n] \in Nat /\ w # <<>>
  <2>1. w[n] \in Nat
    BY <1>1, <1>3, ElementOfSeq
  <2>2. w \in Seq(Int)
    BY <1>3, NatSeqIsInt
  <2>3. w # <<>>
    BY <1>1, <1>3
  <2> QED  BY <1>3, <2>1, <2>2, <2>3 DEF Last
<1>5. Deviation(w) > 0
  BY <1>2, <1>3, <1>4, RisenDeviates
<1>6. Deviation(w) \in Int /\ Spread(w) \in Int
  <2>1. Len(w) >= 1 /\ \A i \in 1..Len(w) : w[i] = 1 * w[i] + 0
    BY <1>1, <1>3, <1>4, IntSeq
  <2>2. IsMoved(w, w, 1, 0)
    BY <2>1 DEF IsMoved
  <2>3. Scales(w, w, Magnitude(1))
    BY <1>4, <2>1, <2>2, DeviationScales, 1 \in Int, 0 \in Int
  <2> QED  BY <2>3 DEF Scales
<1>7. DominantMetric(ws) = m
  <2>1. \E x \in Metrics : ws[x] # <<>>
    BY <1>3, <1>4
  <2> QED  BY <1>2, <1>3, <1>5, <1>6, <2>1, OnlyDeviantDominates
<1> QED  BY <1>7 DEF ws

(* The result is the newest rows of the table, newest first, k of them.    *)
NewestFirst(rows, t, k) ==
    /\ rows = [i \in 1..k |-> t[(Len(t) - i) + 1]]
    /\ k \in 1..Len(t)

(* The query returns the newest rows in their reverse order, down to any   *)
(* row within its interval and its limit at least.                         *)
LEMMA QueryIsNewest ==
    ASSUME NEW t \in Seq(MetricsRow), Ascending(t), NEW now \in Int,
           NEW r \in 1..Len(t), t[r].ts >= now - QuerySeconds, Len(t) - r < QueryLimit
    PROVE  \E k \in Nat : NewestFirst(QueryRecentMetrics(t, now), t, k) /\ (Len(t) - r) + 1 <= k
<1>1. PICK n \in Nat : n = Len(t) /\ DOMAIN t = 1..n
  BY LenProperties
<1>2. \A i \in 1..n : t[i].ts \in Nat
  <2>1. \A i \in 1..n : t[i] \in MetricsRow
    BY <1>1, ElementOfSeq
  <2> QED  BY <2>1 DEF MetricsRow
<1>3. \A i, j \in 1..n : i < j => t[i].ts < t[j].ts
  BY <1>1 DEF Ascending
<1>4. QuerySeconds \in Nat /\ QueryLimit \in Nat
  BY QueryAssumption
<1> DEFINE fresh == FreshRows(t, now)
<1>5. /\ fresh \subseteq 1..n
      /\ \A i, j \in 1..n : i \in fresh /\ i < j => j \in fresh
      /\ r..n \subseteq fresh
  <2>1. fresh = {i \in 1..n : t[i].ts >= now - QuerySeconds}
    BY <1>1 DEF FreshRows
  <2>2. ASSUME NEW i \in 1..n, NEW j \in 1..n, i \in fresh, i < j PROVE j \in fresh
    <3>1. t[i].ts >= now - QuerySeconds /\ t[i].ts < t[j].ts
      BY <1>3, <2>1, <2>2
    <3>2. PICK a \in Nat, b \in Nat, c \in Int :
             a = t[i].ts /\ b = t[j].ts /\ c = now - QuerySeconds
      BY <1>2, <1>4
    <3>3. b >= c
      BY <3>1, <3>2
    <3>4. t[j].ts >= now - QuerySeconds
      BY <3>2, <3>3
    <3> QED  BY <2>1, <3>4
  <2>3. r \in fresh
    BY <1>1, <2>1
  <2>4. \A j \in r..n : j \in fresh
    <3>1. \A j \in r..n : j \in 1..n /\ (j = r \/ r < j)
      BY <1>1
    <3> QED  BY <1>1, <2>2, <2>3, <3>1
  <2> QED  BY <2>1, <2>2, <2>4
<1>6. ASSUME NEW i \in fresh
      PROVE  ReturnedBefore(t, now, i) = (i + 1)..n /\ Cardinality((i + 1)..n) = n - i
  <2>1. i \in 1..n
    BY <1>5
  <2>2. \A j : j \in ReturnedBefore(t, now, i) <=> j \in fresh /\ t[j].ts > t[i].ts
    BY DEF ReturnedBefore
  <2>3. ASSUME NEW j PROVE j \in ReturnedBefore(t, now, i) <=> j \in (i + 1)..n
    <3>1. CASE j \in 1..n
      <4>1. j < i \/ j = i \/ i < j
        BY <2>1, <3>1
      <4>2. j < i => t[j].ts < t[i].ts
        BY <1>3, <2>1, <3>1
      <4>3. i < j => t[i].ts < t[j].ts
        BY <1>3, <2>1, <3>1
      <4>4. t[i].ts \in Nat /\ t[j].ts \in Nat
        BY <1>2, <2>1, <3>1
      <4>5. t[j].ts > t[i].ts <=> i < j
        BY <2>1, <3>1, <4>1, <4>2, <4>3, <4>4
      <4>6. i < j => j \in fresh
        BY <1>5, <2>1, <3>1
      <4>7. j \in (i + 1)..n <=> i < j
        BY <2>1, <3>1
      <4> QED  BY <2>2, <4>5, <4>6, <4>7
    <3>2. CASE j \notin 1..n
      <4>1. j \notin (i + 1)..n
        BY <2>1, <3>2
      <4>2. j \notin fresh
        BY <1>5, <3>2
      <4> QED  BY <2>2, <4>1, <4>2
    <3> QED  BY <3>1, <3>2
  <2>4. Cardinality((i + 1)..n) = n - i
    <3>1. Cardinality((i + 1)..n) = IF i + 1 > n THEN 0 ELSE (n - (i + 1)) + 1
      BY <2>1, FS_Interval, i + 1 \in Int, n \in Int
    <3> QED  BY <2>1, <3>1
  <2> QED  BY <2>3, <2>4
<1> HIDE DEF fresh
<1>7. IsFiniteSet(fresh) /\ Cardinality(fresh) \in Nat /\ Cardinality(fresh) <= n
      /\ (n - r) + 1 <= Cardinality(fresh)
  <2>1. IsFiniteSet(1..n) /\ Cardinality(1..n) = n
    <3>1. Cardinality(1..n) = IF 1 > n THEN 0 ELSE (n - 1) + 1
      BY FS_Interval, 1 \in Int, n \in Int
    <3> QED  BY <3>1, FS_Interval, 1 \in Int, n \in Int
  <2>2. IsFiniteSet(fresh) /\ Cardinality(fresh) <= n
    BY <1>5, <2>1, FS_Subset
  <2>3. Cardinality(r..n) = (n - r) + 1
    <3>1. Cardinality(r..n) = IF r > n THEN 0 ELSE (n - r) + 1
      BY <1>1, FS_Interval, r \in Int, n \in Int
    <3> QED  BY <1>1, <3>1
  <2>4. Cardinality(r..n) <= Cardinality(fresh)
    BY <1>5, <2>2, FS_Subset
  <2> QED  BY <2>2, <2>3, <2>4, FS_CardinalityType
<1>8. PICK c \in Nat : c = Cardinality(fresh)
  BY <1>7
<1>9. PICK k \in Nat : /\ k = Min({QueryLimit, c})
                       /\ k <= c /\ (n - r) + 1 <= k
  <2>1. Min({QueryLimit, c}) = IF QueryLimit <= c THEN QueryLimit ELSE c
    <3> DEFINE S == {QueryLimit, c}
    <3>1. \E x \in S : \A y \in S : x <= y
      <4>1. QueryLimit <= c \/ c <= QueryLimit
        BY <1>4
      <4>2. QueryLimit <= QueryLimit /\ c <= c
        BY <1>4
      <4> QED  BY <4>1, <4>2
    <3>2. Min(S) \in S /\ \A y \in S : Min(S) <= y
      BY <3>1 DEF Min
    <3>3. Min(S) <= QueryLimit /\ Min(S) <= c /\ (Min(S) = QueryLimit \/ Min(S) = c)
      BY <3>2
    <3> QED  BY <1>4, <3>3
  <2> QED  BY <1>1, <1>4, <1>7, <1>8, <2>1
<1>10. ASSUME NEW i \in 1..k
       PROVE  (CHOOSE x \in fresh : Cardinality(ReturnedBefore(t, now, x)) = i - 1)
                = (n - i) + 1
  <2>1. (n - i) + 1 \in 1..n
    BY <1>7, <1>8, <1>9
  <2>2. (n - i) + 1 \in fresh
    <3>1. SUFFICES ASSUME (n - i) + 1 \notin fresh PROVE FALSE
      OBVIOUS
    <3>2. fresh \subseteq ((n - i) + 2)..n
      <4>1. ASSUME NEW x \in fresh PROVE x \in ((n - i) + 2)..n
        <5>1. x \in 1..n
          BY <1>5
        <5>2. ~(x < (n - i) + 1) /\ x # (n - i) + 1
          BY <1>5, <2>1, <3>1, <5>1
        <5> QED  BY <2>1, <5>1, <5>2
      <4> QED  BY <4>1
    <3>3. /\ IsFiniteSet(((n - i) + 2)..n)
          /\ Cardinality(((n - i) + 2)..n) =
               IF (n - i) + 2 > n THEN 0 ELSE (n - ((n - i) + 2)) + 1
      BY <2>1, FS_Interval, (n - i) + 2 \in Int, n \in Int
    <3>4. Cardinality(((n - i) + 2)..n) = i - 1
      BY <2>1, <3>3
    <3>5. c <= i - 1
      BY <1>8, <3>2, <3>3, <3>4, FS_Subset
    <3> QED  BY <1>9, <3>5
  <2>3. \A x \in fresh : Cardinality(ReturnedBefore(t, now, x)) = n - x
    BY <1>6
  <2>4. \A x \in fresh : n - x = i - 1 <=> x = (n - i) + 1
    BY <1>5
  <2>5. \A x \in fresh : Cardinality(ReturnedBefore(t, now, x)) = i - 1 <=> x = (n - i) + 1
    BY <2>3, <2>4
  <2> QED  BY <2>2, <2>5
<1>11. QueryRecentMetrics(t, now) = [i \in 1..k |-> t[(n - i) + 1]]
  <2>1. QueryRecentMetrics(t, now) =
          [i \in 1..k |->
             t[CHOOSE x \in fresh : Cardinality(ReturnedBefore(t, now, x)) = i - 1]]
    BY <1>8, <1>9 DEF QueryRecentMetrics, fresh
  <2> QED  BY <1>10, <2>1
<1>12. k \in 1..n
  BY <1>1, <1>7, <1>8, <1>9
<1> QED  BY <1>1, <1>9, <1>11, <1>12 DEF NewestFirst

(* Such an incident stands out in the last row of a table, and in any row  *)
(* of it when only the rows up to that one are looked at.                  *)
LEMMA IncidentStands ==
    ASSUME table \in Seq(MetricsRow), NEW m \in Metrics, NEW start \in 2..Len(table),
           OnlyMover(m), RisesAt(m, start), NEW a \in start..Len(table)
    PROVE  /\ \A i \in 1..a : table[i].value[m] <= table[a].value[m]
           /\ table[start - 1].value[m] < table[a].value[m]
<1>1. PICK n \in Nat : n = Len(table) /\ DOMAIN table = 1..n
  BY LenProperties
<1>2. \A i \in 1..n : table[i].value[m] \in Nat
  <2>1. \A i \in 1..n : table[i] \in MetricsRow
    BY <1>1, ElementOfSeq
  <2> QED  BY <2>1 DEF MetricsRow
<1>3. \A i, j \in 1..n :
        i < j => IF i < start /\ start <= j THEN table[i].value[m] < table[j].value[m]
                 ELSE start <= i => table[i].value[m] <= table[j].value[m]
  BY <1>1 DEF RisesAt
<1>4. a \in 1..n /\ start \in 2..n /\ start <= a /\ start - 1 \in 1..n
  BY <1>1
<1>5. ASSUME NEW i \in 1..a PROVE table[i].value[m] <= table[a].value[m]
  <2>1. i \in 1..n
    BY <1>4
  <2>2. CASE i = a
    BY <1>2, <1>4, <2>2
  <2>3. CASE i < start
    BY <1>2, <1>3, <1>4, <2>1, <2>3
  <2>4. CASE i < a /\ start <= i
    BY <1>2, <1>3, <1>4, <2>1, <2>4
  <2> QED  BY <1>4, <2>2, <2>3, <2>4
<1>6. table[start - 1].value[m] < table[a].value[m]
  BY <1>3, <1>4
<1> QED  BY <1>5, <1>6

(* Both choices name the metric that made the incident.                    *)
LEMMA IncidentTells == Inputs => IncidentTellsOneStory
<1> SUFFICES ASSUME Inputs, NEW m \in Metrics, NEW start \in DOMAIN table \ {1},
                    NEW delay \in Delays, OnlyMover(m), RisesAt(m, start),
                    InReach(start - 1, Last(table).ts + delay)
             PROVE  /\ InferredMetric(ValuesOf(QueryRecentMetrics(table, Last(table).ts + delay)))
                         = m
                    /\ \A a \in start..Len(table) : \A n \in (a - start + 2)..a :
                         DominantMetric(ValuesOf(RecentMetrics(table, a, n))) = m
  BY Zenon DEF IncidentTellsOneStory
<1>1. table \in Seq(MetricsRow) /\ Ascending(table)
  BY DEF Inputs
<1>2. PICK size \in Nat : size = Len(table) /\ DOMAIN table = 1..size
  BY <1>1, LenProperties
<1>3. start \in 2..size /\ start - 1 \in 1..size /\ size \in 1..size /\ size \in start..size
  BY <1>2
<1>4. PICK now \in Int : now = Last(table).ts + delay
  <2>1. table[size] \in MetricsRow
    BY <1>1, <1>2, <1>3, ElementOfSeq
  <2>2. Last(table).ts \in Nat
    BY <1>2, <2>1 DEF Last, MetricsRow
  <2>3. delay \in Int
    BY DelaysAssumption
  <2> QED  BY <2>2, <2>3
<1>5. \A other \in Metrics \ {m} : \A i \in 1..size :
        table[i].value[other] = table[1].value[other]
  BY <1>2 DEF OnlyMover
<1>6. InferredMetric(ValuesOf(QueryRecentMetrics(table, now))) = m
  <2>1. table[start - 1].ts >= now - QuerySeconds /\ size - (start - 1) < QueryLimit
    BY <1>2, <1>4 DEF InReach
  <2>2. PICK k \in Nat : /\ NewestFirst(QueryRecentMetrics(table, now), table, k)
                         /\ (size - (start - 1)) + 1 <= k
    BY <1>1, <1>2, <1>3, <2>1, QueryIsNewest
  <2>3. PICK rows : rows = QueryRecentMetrics(table, now)
    OBVIOUS
  <2>4. rows = [i \in 1..k |-> table[(size - i) + 1]] /\ k \in 1..size
    BY <1>2, <2>2, <2>3 DEF NewestFirst
  <2>5. \A i \in 1..k : (size - i) + 1 \in 1..size /\ rows[i] = table[(size - i) + 1]
    BY <2>4
  <2>6. rows \in Seq(MetricsRow) /\ Len(rows) = k
    <3>1. \A i \in 1..k : table[(size - i) + 1] \in MetricsRow
      BY <1>1, <1>2, <2>5, ElementOfSeq
    <3> QED  BY <2>4, <3>1
  <2>7. PICK q : q = (size - (start - 1)) + 1
    OBVIOUS
  <2>8. 1 \in 1..k /\ q \in 1..k /\ rows[1] = table[size] /\ rows[q] = table[start - 1]
    <3>1. 1 \in 1..k /\ q \in 1..k /\ (size - 1) + 1 = size /\ (size - q) + 1 = start - 1
      BY <1>3, <2>2, <2>4, <2>7
    <3> QED  BY <2>5, <3>1
  <2>9. /\ \A i \in 1..size : table[i].value[m] <= table[size].value[m]
        /\ table[start - 1].value[m] < table[size].value[m]
    BY <1>1, <1>2, <1>3, IncidentStands
  <2>10. \A i \in 1..k : rows[i].value[m] <= rows[1].value[m]
    BY <2>5, <2>8, <2>9
  <2>11. \A other \in Metrics \ {m} : \A i \in 1..k :
           rows[i].value[other] = rows[1].value[other]
    BY <1>3, <1>5, <2>5, <2>8
  <2>12. Stands(rows, m, 1, q)
    BY <2>6, <2>8, <2>9, <2>10, <2>11 DEF Stands
  <2> QED  BY <2>3, <2>6, <2>12, StandingIsInferred
<1>7. ASSUME NEW a \in start..Len(table), NEW n \in (a - start + 2)..a
      PROVE  DominantMetric(ValuesOf(RecentMetrics(table, a, n))) = m
  <2>1. a \in 1..size /\ n \in 1..a /\ start <= a /\ (a - start) + 2 <= n
    BY <1>2, <1>3
  <2>2. PICK rows : rows = RecentMetrics(table, a, n)
    OBVIOUS
  <2>3. \A i \in 1..n : ((a - n) + 1) + i - 1 = (a - n) + i /\ (a - n) + i \in 1..a
    BY <2>1
  <2>4. \A i \in ((a - n) + 1)..a : table[i] \in MetricsRow
    <3>1. \A i \in ((a - n) + 1)..a : i \in 1..size
      BY <2>1
    <3> QED  BY <1>1, <1>2, <3>1, ElementOfSeq
  <2>5. /\ rows \in Seq(MetricsRow) /\ Len(rows) = n
        /\ \A i \in 1..n : rows[i] = table[(a - n) + i]
    <3>1. (a - n) + 1 \in Int /\ a \in Int /\ (a - n) + 1 <= a
          /\ (a - ((a - n) + 1)) + 1 = n /\ a - n + 1 = (a - n) + 1
      BY <2>1
    <3>2. /\ SubSeq(table, (a - n) + 1, a) \in Seq(MetricsRow)
          /\ Len(SubSeq(table, (a - n) + 1, a)) = n
          /\ \A i \in 1..n :
               SubSeq(table, (a - n) + 1, a)[i] = table[((a - n) + 1) + i - 1]
      BY <2>4, <3>1, SubSeqProperties
    <3>3. rows = SubSeq(table, (a - n) + 1, a)
      BY <2>2, <3>1 DEF RecentMetrics
    <3> QED  BY <2>3, <3>2, <3>3
  <2>6. PICK q : q = (n - a) + (start - 1)
    OBVIOUS
  <2>7. n \in 1..n /\ q \in 1..n /\ 1 \in 1..n
        /\ rows[n] = table[a] /\ rows[q] = table[start - 1]
    <3>1. n \in 1..n /\ q \in 1..n /\ 1 \in 1..n /\ (a - n) + n = a /\ (a - n) + q = start - 1
      BY <1>3, <2>1, <2>6
    <3> QED  BY <2>5, <3>1
  <2>8. /\ \A i \in 1..a : table[i].value[m] <= table[a].value[m]
        /\ table[start - 1].value[m] < table[a].value[m]
    BY <1>1, <1>2, <1>3, <1>7, IncidentStands
  <2>9. \A i \in 1..n : rows[i].value[m] <= rows[n].value[m]
    BY <2>3, <2>5, <2>7, <2>8
  <2>10. \A other \in Metrics \ {m} : \A i \in 1..n :
           rows[i].value[other] = rows[1].value[other]
    <3>1. ASSUME NEW other \in Metrics \ {m}, NEW i \in 1..n
          PROVE  rows[i].value[other] = table[1].value[other]
      <4>1. (a - n) + i \in 1..size
        BY <2>1, <2>3
      <4> QED  BY <1>5, <2>5, <4>1
    <3> QED  BY <2>7, <3>1
  <2>11. Stands(rows, m, Len(rows), q)
    BY <2>5, <2>7, <2>8, <2>9, <2>10 DEF Stands
  <2> QED  BY <2>2, <2>5, <2>11, StandingDominates
<1> QED  BY <1>4, <1>6, <1>7

(* For every table of a host, interval and limit of the query, length of   *)
(* the alert's own history and delay of the tool: about an incident that   *)
(* one metric makes and that lasts, the z-scores of the tools and the      *)
(* ratios of the mock name that metric, as long as the alert and the query *)
(* each see a row from before it.                                          *)
THEOREM IncidentTellsOneStoryAlways == Spec => []IncidentTellsOneStory
BY InputsAlways, IncidentTells, PTL
-----------------------------------------------------------------------------
(* A ramp.                                                                 *)
-----------------------------------------------------------------------------

Ramps(s, a, d) == \A i \in 1..Len(s) : s[i] = a + (i - 1) * d

RampTotal(s, a, d) == 2 * Total(s) = Len(s) * (2 * a + (Len(s) - 1) * d)

(* Twice the sum of an arithmetic progression.                             *)
LEMMA TotalOfRamp ==
    ASSUME NEW s \in Seq(Int), NEW a \in Int, NEW d \in Int, Ramps(s, a, d)
    PROVE  RampTotal(s, a, d)
<1>1. PICK n \in Nat : n = Len(s)
  BY IntSeq
<1>2. PICK f : RunningSum(s, f) /\ Total(s) = f[n]
  BY <1>1, TotalRuns
<1>3. /\ f[0] = 0 /\ \A k \in 1..n : f[k] = f[k - 1] + s[k]
      /\ \A k \in 0..n : f[k] \in Int
  BY <1>1, <1>2 DEF RunningSum
<1>4. \A k \in 1..n : s[k] = a + (k - 1) * d
  BY <1>1 DEF Ramps
<1> DEFINE Good == {k \in 0..n : 2 * f[k] = k * (2 * a + (k - 1) * d)}
<1>5. 0 \in Good
  <2>1. 2 * 0 = 0 * (2 * a + (0 - 1) * d)
    OBVIOUS
  <2> QED  BY <1>3, <2>1
<1>6. ASSUME NEW k \in 0..(n - 1), k \in Good PROVE k + 1 \in Good
  <2>1. k + 1 \in 1..n /\ (k + 1) - 1 = k /\ k + 1 \in 0..n /\ k \in 0..n /\ k \in Int
    OBVIOUS
  <2>2. PICK x \in Int : x = f[k]
    BY <1>3, <2>1
  <2>3. 2 * x = k * (2 * a + (k - 1) * d)
    BY <1>6, <2>2
  <2>4. f[k + 1] = x + (a + k * d)
    BY <1>3, <1>4, <2>1, <2>2
  <2>5. 2 * (x + (a + k * d)) = (k + 1) * (2 * a + k * d)
    <3>1. k * (2 * a + (k - 1) * d) + 2 * (a + k * d) = (k + 1) * (2 * a + k * d)
      BY <2>1
    <3>2. k * d \in Int /\ k * (2 * a + (k - 1) * d) \in Int
      BY <2>1
    <3> QED  BY <2>3, <3>1, <3>2
  <2> QED  BY <2>1, <2>4, <2>5
<1> HIDE DEF Good
<1>7. n \in Good
  BY <1>5, <1>6, UpTo, n \in 0..n
<1> QED  BY <1>1, <1>2, <1>7 DEF Good, RampTotal

Indices(n) == [i \in 1..n |-> i]

(* Two ramps vary together as the indices do.                              *)
LEMMA IndicesType ==
    ASSUME NEW n \in Nat
    PROVE  Indices(n) \in Seq(Int) /\ Len(Indices(n)) = n /\ \A i \in 1..n : Indices(n)[i] = i
<1>1. \A i \in 1..n : i \in Int
  OBVIOUS
<1> QED  BY <1>1 DEF Indices

(* Two or more indices have a positive variance.                           *)
LEMMA IndicesVary ==
    ASSUME NEW n \in Nat, n >= 2
    PROVE  Covariance(Indices(n), Indices(n)) \in Int /\ Covariance(Indices(n), Indices(n)) > 0
<1>1. PICK s : s = Indices(n)
  OBVIOUS
<1>2. s \in Seq(Int) /\ Len(s) = n /\ \A i \in 1..n : s[i] = i
  BY <1>1, IndicesType
<1>3. PICK Q, S : Q = Total(Product(s, s)) /\ S = Total(s)
  OBVIOUS
<1>4. /\ Q \in Int /\ S \in Int
      /\ (n - 1) * (n * Q - S * S) >= (n * s[1] - S) * (n * s[1] - S)
  BY <1>2, <1>3, Samuelson, 1 \in 1..n
<1>5. Ramps(s, 1, 1)
  <2>1. \A i \in 1..n : i = 1 + (i - 1) * 1
    OBVIOUS
  <2> QED  BY <1>2, <2>1 DEF Ramps
<1>6. 2 * S = n * (2 * 1 + (n - 1) * 1)
  BY <1>2, <1>3, <1>5, TotalOfRamp, 1 \in Int DEF RampTotal
<1>7. n - S < 0
  <2>1. PICK z \in Int : z = n * n
    <3>1. n * n \in Int
      OBVIOUS
    <3> QED  BY <3>1
  <2>2. n * (2 * 1 + (n - 1) * 1) = z + n
    BY <2>1
  <2>3. z >= 2 * n
    BY <2>1
  <2>4. 2 * S = z + n
    BY <1>6, <2>2
  <2> QED  BY <1>4, <2>3, <2>4
<1>8. PICK e \in Int, V \in Int : e = n - S /\ V = n * Q - S * S
  <2>1. n - S \in Int /\ n * Q - S * S \in Int
    BY <1>4
  <2> QED  BY <2>1
<1>9. (n - 1) * V >= e * e
  <2>1. n * s[1] - S = e
    BY <1>2, <1>4, <1>8
  <2> QED  BY <1>4, <1>8, <2>1, Zenon
<1>10. e * e > 0
  BY <1>7, <1>8
<1>11. V > 0
  <2>1. PICK k \in Nat : k = n - 1
    OBVIOUS
  <2>2. k * V > 0
    BY <1>9, <1>10, <2>1
  <2>3. V <= 0 => k * V <= 0
    BY <2>1
  <2> QED  BY <2>2, <2>3
<1>12. Covariance(s, s) = V
  BY <1>2, <1>3, <1>8, CovarianceIs
<1> QED  BY <1>1, <1>8, <1>11, <1>12

VaryTogether(s, t, d, e, n) ==
    Covariance(s, t) = d * e * Covariance(Indices(n), Indices(n))

(* The covariance of two ramps is that of the indices times both slopes.   *)
LEMMA RampsVary ==
    ASSUME NEW n \in Nat, n >= 2,
           NEW s \in Seq(Int), NEW a \in Int, NEW d \in Int, Len(s) = n, Ramps(s, a, d),
           NEW t \in Seq(Int), NEW b \in Int, NEW e \in Int, Len(t) = n, Ramps(t, b, e)
    PROVE  VaryTogether(s, t, d, e, n)
<1>1. PICK x : x = Indices(n)
  OBVIOUS
<1>2. x \in Seq(Int) /\ Len(x) = n /\ \A i \in 1..n : x[i] = i
  BY <1>1, IndicesType
<1>3. PICK K \in Int, C \in Int, X \in Int :
        K = Covariance(x, x) /\ C = Covariance(s, x) /\ X = Covariance(x, s)
  BY <1>2, CovarianceType
<1>4. C = X
  BY <1>2, <1>3, CovarianceSymmetric
<1>5. PICK zero \in Int, a0 \in Int, b0 \in Int : zero = 0 /\ a0 = a - d /\ b0 = b - e
  OBVIOUS
<1>6. Combines(s, d, x, zero, x, a0)
  <2>1. \A i \in 1..n : s[i] = d * x[i] + zero * x[i] + a0
    <3>1. \A i \in Int : a + (i - 1) * d = d * i + 0 * i + (a - d)
      OBVIOUS
    <3> QED  BY <1>2, <1>5, <3>1 DEF Ramps
  <2> QED  BY <1>2, <2>1 DEF Combines
<1>7. Combines(t, e, x, zero, x, b0)
  <2>1. \A i \in 1..n : t[i] = e * x[i] + zero * x[i] + b0
    <3>1. \A i \in Int : b + (i - 1) * e = e * i + 0 * i + (b - e)
      OBVIOUS
    <3> QED  BY <1>2, <1>5, <3>1 DEF Ramps
  <2> QED  BY <1>2, <2>1 DEF Combines
<1>8. CovariancesCombine(x, s, d, x, zero, x)
  BY <1>2, <1>6, CovarianceLinear
<1>9. CovariancesCombine(s, t, e, x, zero, x)
  BY <1>2, <1>7, CovarianceLinear
<1>10. X = d * K + zero * K
  BY <1>3, <1>8 DEF CovariancesCombine
<1>11. Covariance(s, t) = e * C + zero * C
  BY <1>3, <1>9 DEF CovariancesCombine
<1>12. e * C + 0 * C = e * C /\ d * K + 0 * K = d * K
  OBVIOUS
<1>13. Covariance(s, t) = e * (d * K)
  BY <1>4, <1>5, <1>10, <1>11, <1>12
<1>14. e * (d * K) = d * e * K
  OBVIOUS
<1> QED  BY <1>1, <1>3, <1>13, <1>14 DEF VaryTogether

(* Neighbouring points of ps are a constant step apart.                    *)
Steady(ps, step, tick) ==
    \A i \in 1..(Len(ps) - 1) :
        /\ ps[i + 1].ts - ps[i].ts = tick
        /\ ps[i + 1].score - ps[i].score = step

(* The points of a steady window in closed form.                           *)
LEMMA SteadyPoints ==
    ASSUME NEW ps \in Seq(Point), NEW step \in Int, NEW tick \in Int, Steady(ps, step, tick)
    PROVE  \A i \in 1..Len(ps) : /\ ps[i].ts = ps[1].ts + (i - 1) * tick
                                 /\ ps[i].score = ps[1].score + (i - 1) * step
<1>1. PICK n \in Nat : n = Len(ps)
  BY PointsType
<1>2. \A i \in 1..n : ps[i].ts \in Int /\ ps[i].score \in Int
  BY <1>1, PointsType
<1> DEFINE At(i) == /\ ps[i].ts = ps[1].ts + (i - 1) * tick
                    /\ ps[i].score = ps[1].score + (i - 1) * step
<1>3. CASE n = 0
  BY <1>1, <1>3
<1>4. CASE n >= 1
  <2> DEFINE Good == {k \in 0..(n - 1) : At(k + 1)}
  <2>1. 0 \in Good
    <3>1. ps[1].ts \in Int /\ ps[1].score \in Int
      BY <1>2, <1>4
    <3>2. 0 + 1 = 1 /\ (1 - 1) * tick = 0 /\ (1 - 1) * step = 0
      OBVIOUS
    <3>3. At(1)
      BY <3>1, <3>2
    <3> QED  BY <1>4, <3>2, <3>3
  <2>2. ASSUME NEW k \in 0..((n - 1) - 1), k \in Good PROVE k + 1 \in Good
    <3>1. k + 1 \in 1..(n - 1) /\ k + 1 \in 1..n /\ (k + 1) + 1 \in 1..n /\ 1 \in 1..n
          /\ k + 1 \in 0..(n - 1)
      BY <1>4
    <3>2. PICK s0, s1, s2, t0, t1, t2 :
            /\ t0 = ps[1].ts /\ t1 = ps[k + 1].ts /\ t2 = ps[(k + 1) + 1].ts
            /\ s0 = ps[1].score /\ s1 = ps[k + 1].score /\ s2 = ps[(k + 1) + 1].score
      OBVIOUS
    <3>3. /\ s0 \in Int /\ s1 \in Int /\ s2 \in Int /\ t0 \in Int /\ t1 \in Int /\ t2 \in Int
      BY <1>2, <3>1, <3>2
    <3>4. t2 - t1 = tick /\ s2 - s1 = step
      BY <1>1, <3>1, <3>2 DEF Steady
    <3>5. t1 = t0 + ((k + 1) - 1) * tick /\ s1 = s0 + ((k + 1) - 1) * step
      BY <2>2, <3>2
    <3>6. t2 = t0 + (((k + 1) + 1) - 1) * tick /\ s2 = s0 + (((k + 1) + 1) - 1) * step
      <4>1. /\ (((k + 1) + 1) - 1) * tick = ((k + 1) - 1) * tick + tick
            /\ (((k + 1) + 1) - 1) * step = ((k + 1) - 1) * step + step
        OBVIOUS
      <4>2. ((k + 1) - 1) * tick \in Int /\ ((k + 1) - 1) * step \in Int
        OBVIOUS
      <4> QED  BY <3>3, <3>4, <3>5, <4>1, <4>2
    <3>7. At((k + 1) + 1)
      BY <3>2, <3>6
    <3> QED  BY <3>1, <3>7
  <2> HIDE DEF Good
  <2>3. n - 1 \in Nat
    BY <1>4
  <2>4. \A k \in 0..(n - 1) : k \in Good
    BY <2>1, <2>2, <2>3, UpTo
  <2>5. ASSUME NEW i \in 1..n PROVE At(i)
    <3>1. i - 1 \in 0..(n - 1) /\ (i - 1) + 1 = i
      OBVIOUS
    <3>2. At((i - 1) + 1)
      BY <2>4, <3>1 DEF Good
    <3> QED  BY <3>1, <3>2
  <2> QED  BY <1>1, <2>5
<1> QED  BY <1>3, <1>4

(* The smoothed times and scores of a steady ramp are ramps again; the last*)
(* smoothed score trails the last score by half the smoothing window.      *)
SmoothRamps(ps, step, tick, c) ==
    /\ \E a \in Int : Ramps(SmoothedTimes(ps), a, tick)
    /\ \E a \in Int : Ramps(SmoothedScores(ps), a, c * step)
    /\ 2 * Last(SmoothedScores(ps)) = c * (2 * Last(ps).score - (c - 1) * step)

(* The times left after smoothing are a ramp.                              *)
LEMMA TimesRamp ==
    ASSUME NEW ps \in Seq(Point), NEW step \in Int, NEW tick \in Int, Steady(ps, step, tick)
    PROVE  \E a \in Int : Ramps(SmoothedTimes(ps), a, tick)
<1>1. PICK n \in Nat, k \in Nat : n = Len(ps) /\ k = Skipped(ps) /\ k <= n
  BY PointsType, SkippedType
<1>2. PICK a \in Int : a = k * tick
  <2>1. k * tick \in Int
    OBVIOUS
  <2> QED  BY <2>1
<1>3. ASSUME NEW i \in 1..(n - k) PROVE SmoothedTimes(ps)[i] = a + (i - 1) * tick
  <2>1. i + k \in 1..n /\ 1 \in 1..n
    BY <1>1
  <2>2. PICK t0 \in Int : t0 = ps[1].ts
    BY <1>1, <2>1, PointsType
  <2>3. ps[i + k].ts = t0 + ((i + k) - 1) * tick
    <3>1. \A j \in 1..Len(ps) : ps[j].ts = ps[1].ts + (j - 1) * tick
      BY SteadyPoints
    <3>2. PICK j \in 1..n : j = i + k
      BY <2>1
    <3>3. ps[j].ts = t0 + (j - 1) * tick
      BY <1>1, <2>2, <3>1
    <3> QED  BY <3>2, <3>3
  <2>4. SmoothedTimes(ps)[i] = (t0 + ((i + k) - 1) * tick) - t0
    BY <1>1, <2>2, <2>3, SmoothedTimesType
  <2>5. (t0 + ((i + k) - 1) * tick) - t0 = k * tick + (i - 1) * tick
    OBVIOUS
  <2> QED  BY <1>2, <2>4, <2>5
<1>4. Len(SmoothedTimes(ps)) = n - k
  BY <1>1, SmoothedTimesType
<1>5. Ramps(SmoothedTimes(ps), a, tick)
  BY <1>3, <1>4 DEF Ramps
<1> QED  BY <1>5

WindowsRamp(ps, step, w, s0) ==
    \A i \in 1..(Len(ps) - w + 1) :
        2 * Total(Window(ps, i)) = w * (2 * (s0 + (i - 1) * step) + (w - 1) * step)

(* The sum of each smoothing window of a steady ramp.                      *)
LEMMA WindowRamps ==
    ASSUME NEW ps \in Seq(Point), NEW step \in Int, NEW tick \in Int, Steady(ps, step, tick),
           NEW s0 \in Int, s0 = ps[1].score, NEW w \in Nat, w = SmoothingWindow
    PROVE  WindowsRamp(ps, step, w, s0)
<1> SUFFICES ASSUME NEW i \in 1..(Len(ps) - w + 1)
             PROVE  2 * Total(Window(ps, i)) = w * (2 * (s0 + (i - 1) * step) + (w - 1) * step)
  BY DEF WindowsRamp
<1>1. PICK n \in Nat : n = Len(ps)
  BY PointsType
<1>2. Window(ps, i) \in Seq(Int) /\ Len(Window(ps, i)) = w
  BY WindowType
<1>3. PICK a \in Int : a = s0 + (i - 1) * step
  <2>1. s0 + (i - 1) * step \in Int
    OBVIOUS
  <2> QED  BY <2>1
<1>4. ASSUME NEW j \in 1..w PROVE Window(ps, i)[j] = a + (j - 1) * step
  <2>1. i + j - 1 \in 1..n
    BY <1>1
  <2>2. ps[i + j - 1].score = s0 + ((i + j - 1) - 1) * step
    BY <1>1, <2>1, SteadyPoints
  <2>3. s0 + ((i + j - 1) - 1) * step = s0 + (i - 1) * step + (j - 1) * step
    OBVIOUS
  <2>4. Window(ps, i)[j] = ps[i + j - 1].score
    BY DEF Window
  <2> QED  BY <1>3, <2>2, <2>3, <2>4
<1>5. Ramps(Window(ps, i), a, step)
  BY <1>2, <1>4 DEF Ramps
<1>6. RampTotal(Window(ps, i), a, step)
  BY <1>2, <1>5, TotalOfRamp
<1> QED  BY <1>2, <1>3, <1>6 DEF RampTotal

(* Smoothed or not, times and scores of a steady window are ramps, and     *)
(* the last score lags by half the smoothing window.                       *)
LEMMA ScoresRamp ==
    ASSUME NEW ps \in Seq(Point), NEW step \in Int, NEW tick \in Int, Steady(ps, step, tick),
           Len(ps) >= 2
    PROVE  SmoothRamps(ps, step, tick, SmoothingScale(ps))
<1>0. PICK n \in Nat, w \in Nat : n = Len(ps) /\ w = SmoothingWindow
  BY PointsType, SmoothingAssumption
<1>1. PICK s0, ys : /\ n = Len(ps) /\ w = SmoothingWindow
                    /\ s0 = ps[1].score /\ ys = SmoothedScores(ps)
  BY <1>0
<1>2. /\ n >= 2 /\ \A i \in 1..n : ps[i].score \in Int
      /\ \A i \in 1..n : ps[i].score = s0 + (i - 1) * step
  BY <1>1, PointsType, SteadyPoints
<1>3. s0 \in Int /\ Last(ps).score = s0 + (n - 1) * step
  BY <1>1, <1>2, 1 \in 1..n, n \in 1..n DEF Last
<1>4. ys \in Seq(Int) /\ Len(ys) = n - Skipped(ps)
  BY <1>1, SmoothedScoresType
<1>5. ASSUME Smooths(ps)
      PROVE  /\ \E a \in Int : Ramps(ys, a, w * step)
             /\ 2 * Last(ys) = w * (2 * Last(ps).score - (w - 1) * step)
  <2>1. w >= 2 /\ n >= w /\ Skipped(ps) = w - 1
    BY <1>1, <1>5 DEF Smooths, Skipped
  <2>2. PICK k \in Nat : k = n - w + 1 /\ k >= 1
    BY <2>1
  <2>3. Len(ys) = k
    BY <1>4, <2>1, <2>2
  <2>4. \A i \in 1..k : ys[i] = Total(Window(ps, i))
    BY <1>1, <1>5, <2>2 DEF SmoothedScores, Window
  <2>5. ASSUME NEW i \in 1..k
        PROVE  2 * ys[i] = w * (2 * (s0 + (i - 1) * step) + (w - 1) * step)
    <3>1. i \in 1..(Len(ps) - w + 1)
      BY <1>1, <2>2
    <3>2. WindowsRamp(ps, step, w, s0)
      BY <1>1, <1>3, WindowRamps
    <3>3. 2 * Total(Window(ps, i)) = w * (2 * (s0 + (i - 1) * step) + (w - 1) * step)
      BY <3>1, <3>2 DEF WindowsRamp
    <3> QED  BY <2>4, <3>3
  <2>6. PICK a \in Int : a = ys[1]
    BY <1>4, <2>2, <2>3, IntSeq
  <2>7. ASSUME NEW i \in 1..k PROVE ys[i] = a + (i - 1) * (w * step)
    <3>1. 2 * a = w * (2 * (s0 + (1 - 1) * step) + (w - 1) * step)
      BY <2>2, <2>5, <2>6, 1 \in 1..k
    <3>2. PICK y \in Int : y = ys[i]
      BY <1>4, <2>3, IntSeq
    <3>3. 2 * y = w * (2 * (s0 + (i - 1) * step) + (w - 1) * step)
      BY <2>5, <3>2
    <3>4. w * (2 * (s0 + (i - 1) * step) + (w - 1) * step)
            = w * (2 * (s0 + (1 - 1) * step) + (w - 1) * step) + 2 * ((i - 1) * (w * step))
      BY <1>3
    <3>5. (i - 1) * (w * step) \in Int
      OBVIOUS
    <3>6. y = a + (i - 1) * (w * step)
      BY <3>1, <3>3, <3>4, <3>5
    <3> QED  BY <3>2, <3>6
  <2>8. Ramps(ys, a, w * step)
    BY <2>3, <2>7 DEF Ramps
  <2>9. 2 * Last(ys) = w * (2 * (s0 + (k - 1) * step) + (w - 1) * step)
    BY <2>2, <2>3, <2>5, k \in 1..k DEF Last
  <2>10. w * (2 * (s0 + ((n - w + 1) - 1) * step) + (w - 1) * step)
           = w * (2 * (s0 + (n - 1) * step) - (w - 1) * step)
    BY <1>3
  <2> QED  BY <1>3, <2>2, <2>8, <2>9, <2>10
<1>6. ASSUME ~Smooths(ps)
      PROVE  /\ \E a \in Int : Ramps(ys, a, 1 * step)
             /\ 2 * Last(ys) = 1 * (2 * Last(ps).score - (1 - 1) * step)
  <2>1. Len(ys) = n
    BY <1>4, <1>6 DEF Skipped
  <2>2. \A i \in 1..n : ys[i] = ps[i].score
    BY <1>1, <1>6, PointsType DEF SmoothedScores
  <2>3. 1 * step = step /\ (1 - 1) * step = 0
    OBVIOUS
  <2>4. Ramps(ys, s0, 1 * step)
    BY <1>2, <2>1, <2>2, <2>3 DEF Ramps
  <2>5. Last(ys) = Last(ps).score /\ Last(ys) \in Int
    BY <1>1, <1>2, <2>1, <2>2, n \in 1..n DEF Last
  <2> QED  BY <1>3, <2>3, <2>4, <2>5
<1>7. \E a \in Int : Ramps(SmoothedTimes(ps), a, tick)
  BY TimesRamp
<1>8. CASE Smooths(ps)
  <2>1. SmoothingScale(ps) = w
    BY <1>1, <1>8 DEF SmoothingScale
  <2> QED  BY <1>1, <1>5, <1>7, <1>8, <2>1 DEF SmoothRamps
<1>9. CASE ~Smooths(ps)
  <2>1. SmoothingScale(ps) = 1
    BY <1>9 DEF SmoothingScale
  <2> QED  BY <1>1, <1>6, <1>7, <1>9, <2>1 DEF SmoothRamps
<1> QED  BY <1>8, <1>9

(* The forecast of a ramp in integers: K is the spread of the indices.     *)
RampRises(tick, step, d, K, R) ==
    /\ tick * tick * K > 0
    /\ tick * d * K > 0 <=> step > 0
    /\ step > 0 =>
         /\ d * d * K > 0
         /\ 100 * (tick * d * K) * (tick * d * K) >= R * (tick * tick * K) * (d * d * K)

(* With tick * tick * K, tick * d * K and d * d * K for the covariances,   *)
(* the fitted line rises exactly when the ramp does, and then passes any   *)
(* gate.                                                                   *)
LEMMA RisesArithmetic ==
    ASSUME NEW tick \in Int, tick >= 1, NEW c \in Int, c >= 1, NEW step \in Int,
           NEW K \in Int, K > 0, NEW R \in Int, R <= 100, NEW d, d = c * step
    PROVE  RampRises(tick, step, d, K, R)
<1>0. \A x, y \in Int : x > 0 /\ y > 0 => x * y > 0
  OBVIOUS
<1>1. PICK p \in Int, q \in Int : p = tick * K /\ q = tick * c * K
  <2>1. tick * K \in Int /\ tick * c * K \in Int
    OBVIOUS
  <2> QED  BY <2>1
<1>2. p > 0 /\ q > 0
  <2>1. tick * K > 0
    BY <1>0
  <2>2. c * (tick * K) > 0
    BY <1>0, <2>1, tick * K \in Int
  <2>3. c * (tick * K) = tick * c * K
    OBVIOUS
  <2> QED  BY <1>1, <2>1, <2>2, <2>3
<1>3. tick * tick * K = tick * p
  BY <1>1
<1>4. tick * p > 0
  BY <1>0, <1>2
<1>5. tick * (c * step) * K = q * step
  BY <1>1
<1>6. q * step > 0 <=> step > 0
  BY <1>2
<1>7. ASSUME step > 0
      PROVE  /\ (c * step) * (c * step) * K > 0
             /\ 100 * (tick * (c * step) * K) * (tick * (c * step) * K)
                  >= R * (tick * tick * K) * ((c * step) * (c * step) * K)
  <2>1. PICK e \in Int : e = c * step
    <3>1. c * step \in Int
      OBVIOUS
    <3> QED  BY <3>1
  <2>2. e > 0
    BY <1>0, <1>7, <2>1
  <2>3. e * e > 0 /\ e * e \in Int
    BY <1>0, <2>2
  <2>4. e * e * K > 0
    BY <1>0, <2>3
  <2>5. PICK z \in Int : z = (tick * e * K) * (tick * e * K)
    <3>1. (tick * e * K) * (tick * e * K) \in Int
      OBVIOUS
    <3> QED  BY <3>1
  <2>6. z >= 0
    <3>1. \A x \in Int : x * x >= 0
      OBVIOUS
    <3>2. tick * e * K \in Int
      OBVIOUS
    <3> QED  BY <2>5, <3>1, <3>2
  <2>7. 100 * (tick * e * K) * (tick * e * K) = 100 * z
    BY <2>5
  <2>8. R * (tick * tick * K) * (e * e * K) = R * z
    BY <2>5
  <2>9. 100 * z - R * z = (100 - R) * z /\ (100 - R) * z >= 0
        /\ 100 * z \in Int /\ R * z \in Int
    BY <2>6
  <2>10. 100 * z >= R * z
    BY <2>9
  <2> QED  BY <2>1, <2>4, <2>7, <2>8, <2>10
<1> QED  BY <1>3, <1>4, <1>5, <1>6, <1>7 DEF RampRises

RampBreaches(g, gap, tick, step, d, K, H) ==
    /\ g >= 0 <=> gap >= 0
    /\ g * (tick * tick * K) <= 100 * H * (tick * d * K) <=> gap * tick <= 200 * step * H

(* The same for the horizon: c is the number of scores in a smoothed one,  *)
(* g the gap to the threshold the code computes.                           *)
LEMMA BreachArithmetic ==
    ASSUME NEW tick \in Int, tick >= 1, NEW c \in Int, c >= 1, NEW step \in Int,
           NEW K \in Int, K > 0, NEW H \in Int, NEW g \in Int, NEW gap \in Int,
           2 * g = c * gap, NEW d, d = c * step
    PROVE  RampBreaches(g, gap, tick, step, d, K, H)
<1>1. g >= 0 <=> gap >= 0
  <2>1. c * gap >= 0 <=> gap >= 0
    OBVIOUS
  <2>2. c * gap \in Int
    OBVIOUS
  <2> QED  BY <2>1, <2>2
<1>2. PICK x \in Int, e \in Int : x = 200 * step * H - gap * tick
                                  /\ e = 100 * H * (tick * (c * step) * K) - g * (tick * tick * K)
  <2>1. 200 * step * H - gap * tick \in Int
        /\ 100 * H * (tick * (c * step) * K) - g * (tick * tick * K) \in Int
    OBVIOUS
  <2> QED  BY <2>1
<1>3. PICK f \in Int : f = c * (tick * K) /\ f >= 1
  <2>1. \A v, w \in Int : v >= 1 /\ w >= 1 => v * w >= 1
    OBVIOUS
  <2>2. tick * K \in Int /\ tick * K >= 1
    BY <2>1
  <2>3. c * (tick * K) \in Int /\ c * (tick * K) >= 1
    BY <2>1, <2>2
  <2> QED  BY <2>3
<1>4. 2 * e = f * x
  <2>1. 2 * (100 * H * (tick * (c * step) * K) - g * (tick * tick * K))
          = 200 * H * (tick * (c * step) * K) - (2 * g) * (tick * tick * K)
    OBVIOUS
  <2>2. 200 * H * (tick * (c * step) * K) - (c * gap) * (tick * tick * K)
          = (c * (tick * K)) * (200 * step * H - gap * tick)
    OBVIOUS
  <2> QED  BY <1>2, <1>3, <2>1, <2>2
<1>5. e >= 0 <=> x >= 0
  <2>1. f * x >= 0 <=> x >= 0
    BY <1>3
  <2> QED  BY <1>4, <2>1
<1>6. /\ gap * tick \in Int /\ 200 * step * H \in Int
      /\ g * (tick * tick * K) \in Int /\ 100 * H * (tick * (c * step) * K) \in Int
  OBVIOUS
<1>7. gap * tick <= 200 * step * H <=> x >= 0
  BY <1>2, <1>6
<1>8. g * (tick * tick * K) <= 100 * H * (tick * (c * step) * K) <=> e >= 0
  BY <1>2, <1>6
<1> QED  BY <1>1, <1>5, <1>7, <1>8 DEF RampBreaches

(* The forecast of a steady ramp, in closed form.                          *)
RampForecast(ps, step, tick, threshold) ==
    LET gap == 2 * threshold - 200 * Last(ps).score + 100 * step * (SmoothingScale(ps) - 1)
    IN  PredictsBreach(ps, threshold)
          <=> step > 0 /\ gap >= 0 /\ gap * tick <= 200 * step * HorizonSeconds

(* A steady ramp is forecast exactly when it rises and meets the           *)
(* threshold in time.                                                      *)
LEMMA RampIsForecast ==
    ASSUME NEW ps \in Seq(Point), NEW step \in Int, NEW tick \in Int, tick >= 1,
           Steady(ps, step, tick), NEW threshold \in Int,
           Len(ps) >= MinPoints, Len(ps) >= 2, Len(ps) > SmoothingWindow
    PROVE  RampForecast(ps, step, tick, threshold)
<1>1. PICK xs, ys : xs = SmoothedTimes(ps) /\ ys = SmoothedScores(ps)
  OBVIOUS
<1>2. PICK c \in Int, n \in Nat : c = SmoothingScale(ps) /\ c >= 1 /\ n = Len(ys) /\ n >= 2
                                  /\ n = Len(xs)
  <2>1. Len(ps) \in Nat /\ SmoothingWindow \in Nat
    BY PointsType, SmoothingAssumption
  <2>2. Len(ys) = Len(ps) - Skipped(ps) /\ Len(xs) = Len(ps) - Skipped(ps)
    BY <1>1, SmoothedTimesType, SmoothedScoresType
  <2>3. CASE Smooths(ps)
    <3>1. SmoothingScale(ps) = SmoothingWindow /\ Skipped(ps) = SmoothingWindow - 1
          /\ SmoothingWindow > 1
      BY <2>3 DEF SmoothingScale, Skipped, Smooths
    <3>2. PICK l \in Nat, w \in Nat : l = Len(ps) /\ w = SmoothingWindow
      BY <2>1
    <3>3. l - (w - 1) \in Nat /\ l - (w - 1) >= 2 /\ w \in Int /\ w >= 1
      BY <3>1, <3>2
    <3> QED  BY <2>2, <3>1, <3>2, <3>3
  <2>4. CASE ~Smooths(ps)
    <3>1. SmoothingScale(ps) = 1 /\ Skipped(ps) = 0
      BY <2>4 DEF SmoothingScale, Skipped
    <3> QED  BY <2>1, <2>2, <3>1
  <2> QED  BY <2>3, <2>4
<1>3. xs \in Seq(Int) /\ ys \in Seq(Int)
  BY <1>1, SmoothedTimesType, SmoothedScoresType
<1>4. PICK d \in Int : d = c * step
  <2>1. c * step \in Int
    OBVIOUS
  <2> QED  BY <2>1
<1>5. SmoothRamps(ps, step, tick, c)
  BY <1>2, ScoresRamp
<1>6. PICK a \in Int, b \in Int : Ramps(xs, a, tick) /\ Ramps(ys, b, d)
  BY <1>1, <1>4, <1>5 DEF SmoothRamps
<1>7. PICK K \in Int : K = Covariance(Indices(n), Indices(n)) /\ K > 0
  BY <1>2, IndicesVary
<1>8. VaryTogether(xs, xs, tick, tick, n)
  BY <1>2, <1>3, <1>6, RampsVary
<1>9. VaryTogether(xs, ys, tick, d, n)
  BY <1>2, <1>3, <1>6, RampsVary
<1>10. VaryTogether(ys, ys, d, d, n)
  BY <1>2, <1>3, <1>6, RampsVary
<1>11. /\ Covariance(xs, xs) = tick * tick * K
       /\ Covariance(xs, ys) = tick * d * K
       /\ Covariance(ys, ys) = d * d * K
  BY <1>7, <1>8, <1>9, <1>10 DEF VaryTogether
<1>12. MinRSquared \in Int /\ MinRSquared <= 100 /\ HorizonSeconds \in Int
  BY MinRSquaredAssumption, HorizonAssumption
<1>13. RampRises(tick, step, d, K, MinRSquared)
  BY <1>2, <1>4, <1>7, <1>12, RisesArithmetic
<1>14. Rising(xs, ys) <=> step > 0
  BY <1>11, <1>13 DEF Rising, RampRises
<1>15. step > 0 => FitsWell(xs, ys)
  BY <1>11, <1>13 DEF FitsWell, RampRises
<1>16. PICK L \in Int, M \in Int : L = Last(ps).score /\ M = Last(ys)
  <2>1. Len(ps) \in 1..Len(ps)
    BY PointsType
  <2>2. Last(ps).score \in Int
    BY <2>1, PointsType DEF Last
  <2>3. Last(ys) \in Int
    BY <1>2, <1>3, IntSeq, n \in 1..n DEF Last
  <2> QED  BY <2>2, <2>3
<1>17. 2 * M = c * (2 * L - (c - 1) * step)
  BY <1>1, <1>5, <1>16 DEF SmoothRamps
<1>18. PICK g \in Int, gap \in Int : /\ g = c * threshold - 100 * M
                                     /\ gap = 2 * threshold - 200 * L + 100 * step * (c - 1)
  <2>1. c * threshold - 100 * M \in Int /\ 2 * threshold - 200 * L + 100 * step * (c - 1) \in Int
    OBVIOUS
  <2> QED  BY <2>1
<1>19. 2 * g = c * gap
  <2>1. 2 * (c * threshold - 100 * M) = 2 * (c * threshold) - 100 * (2 * M)
    OBVIOUS
  <2>2. 2 * (c * threshold) - 100 * (c * (2 * L - (c - 1) * step))
          = c * (2 * threshold - 200 * L + 100 * step * (c - 1))
    OBVIOUS
  <2> QED  BY <1>17, <1>18, <2>1, <2>2
<1>20. RampBreaches(g, gap, tick, step, d, K, HorizonSeconds)
  BY <1>2, <1>4, <1>7, <1>12, <1>19, BreachArithmetic
<1>21. BreachesWithinHorizon(xs, ys, c, threshold)
         <=> gap >= 0 /\ gap * tick <= 200 * step * HorizonSeconds
  BY <1>11, <1>16, <1>18, <1>20 DEF BreachesWithinHorizon, RampBreaches
<1>22. PredictsBreach(ps, threshold)
         <=> Rising(xs, ys) /\ FitsWell(xs, ys) /\ BreachesWithinHorizon(xs, ys, c, threshold)
  BY <1>1, <1>2 DEF PredictsBreach
<1>23. PredictsBreach(ps, threshold)
         <=> step > 0 /\ gap >= 0 /\ gap * tick <= 200 * step * HorizonSeconds
  BY <1>14, <1>15, <1>21, <1>22
<1> QED  BY <1>2, <1>16, <1>18, <1>23 DEF RampForecast

(* So it is for the ramps among the reachable windows.                     *)
LEMMA RampsAreForecast == Inputs => RampIsForecastExactly
<1> SUFFICES ASSUME Inputs, NEW step \in Steps, NEW tick \in Ticks, NEW threshold \in Thresholds,
                    Len(points) >= MinPoints, Len(points) >= 2, Len(points) > SmoothingWindow,
                    SteadyRamp(step, tick)
             PROVE  RampForecast(points, step, tick, threshold)
  BY Zenon DEF RampIsForecastExactly, RampForecast
<1>1. points \in Seq(Point) /\ Steady(points, step, tick)
  BY DEF Inputs, SteadyRamp, Steady
<1>2. step \in Int /\ tick \in Int /\ tick >= 1 /\ threshold \in Int
  BY ThresholdsAssumption, StepsAssumption, TicksAssumption
<1> QED  BY <1>1, <1>2, RampIsForecast

(* For every smoothing window, gate and horizon: a steady ramp of enough   *)
(* points is forecast exactly when it rises and meets the threshold in     *)
(* time.                                                                   *)
THEOREM RampIsForecastExactlyAlways == Spec => []RampIsForecastExactly
BY InputsAlways, RampsAreForecast, PTL
=============================================================================
