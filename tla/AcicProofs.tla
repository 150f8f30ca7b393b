----------------------------- MODULE AcicProofs -----------------------------
(***************************************************************************)
(* The solver with its scheduling, for any graph, number of PEs, buckets   *)
(* and thresholds.                                                         *)
(***************************************************************************)
EXTENDS Acic, SumProofs

-----------------------------------------------------------------------------
(* Why the histogram survives a merge of its buckets while updates are in   *)
(* flight, for every number of buckets, width, scale and factor             *)

\* Dividing by the scale and then by the factor of a merge is dividing by the
\* scale after the merge: the merge loses no precision.
LEMMA DivDiv ==
  ASSUME NEW d \in Nat, NEW s \in Nat \ {0}, NEW k \in Nat \ {0}
  PROVE  (d \div s) \div k = d \div (s * k)
<1> DEFINE q == d \div s
           r == d % s
           t == q \div k
           x == q % k
<1>1. q \in Nat /\ r \in 0..s-1 /\ d = s * q + r
  OBVIOUS
<1>2. t \in Nat /\ x \in 0..k-1 /\ q = k * t + x
  BY <1>1
<1> QED BY <1>1, <1>2

LEMMA DivMonotone ==
  ASSUME NEW a \in Nat, NEW b \in Nat, NEW s \in Nat \ {0}, a <= b
  PROVE  a \div s \in Nat /\ a \div s <= b \div s
OBVIOUS

\* Multiplying by the truncated inverse and dropping the low word divides: the
\* inverse is too large by less than one part in M, and an index this small
\* does not make a bucket of the excess.
LEMMA QuotientByInverseIsExact ==
  ASSUME NEW M \in Nat, NEW s \in Nat \ {0}, NEW n \in Nat, (n + s) * s <= M
  PROVE  QuotientByInverse(n, s, M) = n \div s
<1> DEFINE q == (M - 1) \div s
           r == (M - 1) % s
           i == q + 1
           e == s - 1 - r
           a == n \div s
           b == n % s
           c == a * e + i * b
<1>0. n + s >= 1 /\ (n + s) * s >= 1
  OBVIOUS
<1>1. q \in Nat /\ r \in 0..s-1 /\ M - 1 = s * q + r
  BY <1>0
<1>2. a \in Nat /\ b \in 0..s-1 /\ n = s * a + b
  OBVIOUS
<1> HIDE DEF q, r, a, b
<1>3. i \in Nat /\ e \in 0..s-1 /\ i * s = M + e
  BY <1>1
<1> HIDE DEF i, e
<1>4. i >= n + s
  <2>1. i * s >= (n + s) * s
    BY <1>3
  <2> QED BY <1>3, <2>1
<1>5. c \in Nat /\ i * n = a * M + c
  <2>1. i * n = (i * s) * a + i * b
    BY <1>2, <1>3
  <2> QED BY <1>2, <1>3, <2>1
<1>6. c < M
  <2>1. i * b <= i * (s - 1) /\ i * (s - 1) = M + e - i
    BY <1>2, <1>3
  <2>2. (a + 1) * e <= (a + 1) * (s - 1) /\ (a + 1) * e = a * e + e
    BY <1>2, <1>3
  <2>3. (a + 1) * (s - 1) = s * a + s - (a + 1)
    BY <1>2
  <2>4. a * e + e < n + s
    BY <1>2, <1>3, <2>2, <2>3
  <2> QED BY <1>2, <1>3, <1>4, <2>1, <2>4
<1> HIDE DEF c
<1>7. (a * M + c) \div M = a
  BY <1>2, <1>5, <1>6
<1> QED BY <1>5, <1>7 DEF QuotientByInverse, ScaleInverse, i, q, a

\* get_histo_bucket() never charges an update one bucket away from where the
\* division would: with H = 2^32, every index below H is divided exactly by the
\* inverse in words of H * H values, for every scale an int can hold.
THEOREM InverseIsExact ==
  ASSUME NEW H \in Nat, NEW s \in Nat \ {0}, 2 * s <= H, NEW n \in 0..H-1
  PROVE  QuotientByInverse(n, s, H * H) = n \div s
<1> DEFINE M == H * H
<1>1. /\ (n + s) * s <= (2 * H) * s /\ (2 * H) * s = H * (2 * s)
      /\ H * (2 * s) <= M
  OBVIOUS
<1>2. (n + s) * s <= M /\ M \in Nat /\ n \in Nat
  BY <1>1
<1> HIDE DEF M
<1>3. QuotientByInverse(n, s, M) = n \div s
  BY <1>2, QuotientByInverseIsExact
<1> QED BY <1>3 DEF M

\* A clamp at or below B * scale keeps every index inside the array, and a
\* merge or an extension keeps it there.
Fits(scale, limit) == limit <= B * scale

\* get_histo_bucket() never reads past the end of the histogram.
THEOREM BucketInRange ==
  ASSUME NEW d \in Nat, NEW s \in Nat \ {0}, NEW l \in Nat, Fits(s, l)
  PROVE  HistoBucket(d, s, l) \in Bucket
<1> DEFINE n == d \div Width
<1>1. n \in Nat
  BY BucketAssumption
<1>2. CASE n >= l
  BY <1>2, BucketAssumption DEF HistoBucket, Beyond, Bucket, Top
<1>3. CASE ~(n >= l)
  <2>1. B \in Nat /\ l <= B * s /\ n < l
    BY <1>1, <1>3, BucketAssumption DEF Fits
  <2>2. n < B * s
    BY <1>1, <2>1
  <2>3. n \div s \in Nat /\ n \div s < B
    BY <1>1, <2>1, <2>2
  <2> QED BY <1>3, <2>1, <2>3 DEF HistoBucket, Beyond, Bucket, Top
<1> QED BY <1>2, <1>3

\* The clamp keeps fitting when buckets merge, whether or not the merge buys
\* range with the index space it frees.
THEOREM MergeFits ==
  ASSUME NEW s \in Nat \ {0}, NEW l \in Nat, NEW k \in Nat \ {0},
         NEW extend \in BOOLEAN, Fits(s, l)
  PROVE  /\ MergedLimit(l, s, k, extend) \in Nat
         /\ Fits(s * k, MergedLimit(l, s, k, extend))
<1>1. B \in Nat /\ l <= B * s
  BY BucketAssumption DEF Fits
<1>2. l * k <= B * (s * k) /\ l <= l * k
  BY <1>1
<1>3. B * s * k = B * (s * k) /\ B * s * k \in Nat /\ l * k \in Nat
  BY <1>1
<1> QED BY <1>1, <1>2, <1>3 DEF MergedLimit, Fits

\* With the clamp frozen, coarsen_buckets() moves every update's charge exactly
\* where its retirement will look for it: the overflow slot for a flagged
\* update, the merged index for one its creator did not flag.
THEOREM MergeExact ==
  ASSUME ClampFreeze,
         NEW u, u.d \in Nat, u.ovf \in BOOLEAN,
         NEW s \in Nat \ {0}, NEW l \in Nat, NEW k \in Nat \ {0},
         NEW extend \in BOOLEAN,
         ~u.ovf => HistoBucket(u.d, s, l) # Top
  PROVE  MergedIndex(BucketOf(u, s, l), k)
           = BucketOf(u, s * k, MergedLimit(l, s, k, extend))
<1> DEFINE n == u.d \div Width
           m == MergedLimit(l, s, k, extend)
<1>1. CASE u.ovf
  BY <1>1 DEF BucketOf, MergedIndex
<1>2. CASE ~u.ovf
  <2>1. n \in Nat
    BY BucketAssumption
  <2>2. ~Beyond(u.d, l) /\ HistoBucket(u.d, s, l) = n \div s /\ n \div s # Top
    BY <1>2 DEF HistoBucket
  <2>3. m \in Nat /\ l <= m
    <3>1. l * k \in Nat /\ l <= l * k
      OBVIOUS
    <3> QED BY <3>1 DEF MergedLimit
  <2>4. ~Beyond(u.d, m)
    BY <2>1, <2>2, <2>3 DEF Beyond
  <2>5. (n \div s) \div k = n \div (s * k)
    BY <2>1, DivDiv
  <2>6. MergedIndex(BucketOf(u, s, l), k) = n \div (s * k)
    BY <1>2, <2>2, <2>5 DEF BucketOf, MergedIndex
  <2> QED BY <1>2, <2>4, <2>6 DEF BucketOf, HistoBucket
<1> QED BY <1>1, <1>2

\* With --pq-overflow-last the bucket never falls along the queue's order, so
\* process_heap() may stop at the first top above the threshold: this is what
\* NothingHidden rests on.
THEOREM QueueOrderMonotone ==
  ASSUME PqOverflowLast,
         NEW u, u.d \in Nat, u.ovf \in BOOLEAN,
         NEW w, w.d \in Nat, w.ovf \in BOOLEAN,
         NEW s \in Nat \ {0}, NEW l \in Nat, Fits(s, l),
         NotAfter(u, w)
  PROVE  BucketOf(u, s, l) <= BucketOf(w, s, l)
<1>0. Top \in Int /\ \A d \in Nat : /\ HistoBucket(d, s, l) \in Int
                                    /\ HistoBucket(d, s, l) <= Top
  BY BucketInRange, BucketAssumption DEF Bucket, Top
<1>1. CASE w.ovf
  BY <1>0, <1>1 DEF BucketOf
<1>2. CASE ~w.ovf
  <2>1. ~u.ovf /\ u.d <= w.d
    BY <1>2 DEF NotAfter
  <2>2. CASE Beyond(w.d, l)
    BY <1>0, <1>2, <2>1, <2>2 DEF BucketOf, HistoBucket
  <2>3. CASE ~Beyond(w.d, l)
    <3>1. /\ u.d \div Width \in Nat /\ w.d \div Width \in Nat
          /\ u.d \div Width <= w.d \div Width
      BY <2>1, DivMonotone, BucketAssumption
    <3>2. ~Beyond(u.d, l)
      BY <2>3, <3>1 DEF Beyond
    <3>3. (u.d \div Width) \div s <= (w.d \div Width) \div s
      BY <3>1, DivMonotone
    <3> QED BY <1>2, <2>1, <2>3, <3>2, <3>3 DEF BucketOf, HistoBucket
  <2> QED BY <2>2, <2>3
<1> QED BY <1>1, <1>2

-----------------------------------------------------------------------------
(* Minima, maxima and folds *)

LEMMA MinIs ==
  ASSUME NEW T \in SUBSET Nat, T # {}
  PROVE  Min(T) \in T /\ \A x \in T : Min(T) <= x
BY LeastNatural DEF Min

LEMMA MaxIs ==
  ASSUME NEW m \in Nat, NEW T \in SUBSET (0..m), T # {}
  PROVE  Max(T) \in T /\ \A x \in T : Max(T) >= x
<1> DEFINE Gaps == {n \in Nat : \E x \in T : n = m - x}
<1>1. \A x \in T : m - x \in Gaps
  OBVIOUS
<1>2. PICK n \in Gaps : \A k \in Gaps : n <= k
  BY <1>1, LeastNatural
<1>3. PICK x \in T : n = m - x
  OBVIOUS
<1>4. \A y \in T : x >= y
  BY <1>1, <1>2, <1>3
<1> QED BY <1>4 DEF Max

\* The states a PE goes through as it processes one update after the other.
LEMMA FoldSteps ==
  ASSUME NEW X, NEW q \in Seq(X), NEW s
  PROVE  \E r : /\ r[0] = s
                /\ \A i \in 1..Len(q) : r[i] = ProcessUpdate(r[i - 1], q[i])
                /\ FoldLeft(ProcessUpdate, s, q) = r[Len(q)]
<1> DEFINE Folds(m, g) ==
             g = [T \in SUBSET (1..m) |->
                    IF T = {} THEN s ELSE ProcessUpdate(g[T \ {Max(T)}], q[Max(T)])]
           Bad == {m \in Nat : ~ \E g : Folds(m, g)}
           iter == CHOOSE g : Folds(Len(q), g)
<1>0. Len(q) \in Nat /\ DOMAIN q = 1..Len(q)
  OBVIOUS
<1>1. \E g : Folds(0, g)
  <2>1. 1..0 = {}
    OBVIOUS
  <2>2. Folds(0, [T \in SUBSET (1..0) |-> s])
    BY <2>1
  <2> QED BY <2>2
<1>2. ASSUME NEW m \in Nat, \E g : Folds(m, g) PROVE \E g : Folds(m + 1, g)
  <2>1. PICK g : Folds(m, g)
    BY <1>2
  <2> DEFINE f == [T \in SUBSET (1..(m + 1)) |->
                     IF m + 1 \in T THEN ProcessUpdate(g[T \ {m + 1}], q[m + 1]) ELSE g[T]]
  <2>2. ASSUME NEW T \in SUBSET (1..(m + 1)), m + 1 \in T
        PROVE  Max(T) = m + 1 /\ T \ {m + 1} \in SUBSET (1..m)
    <3>1. T \in SUBSET (0..(m + 1)) /\ \A x \in T : x \in Nat /\ x <= m + 1
      OBVIOUS
    <3>2. Max(T) \in T /\ Max(T) >= m + 1
      BY <2>2, <3>1, MaxIs
    <3>3. Max(T) = m + 1
      <4>1. \A x \in T : x >= m + 1 => x = m + 1
        BY <3>1
      <4> QED BY <3>2, <4>1
    <3>4. T \ {m + 1} \in SUBSET (1..m)
      BY <3>1
    <3> QED BY <3>3, <3>4
  <2>3. ASSUME NEW T \in SUBSET (1..(m + 1)), m + 1 \notin T
        PROVE  T \in SUBSET (1..m) /\ \A U \in SUBSET T : f[U] = g[U]
    BY <2>3
  <2>4. ASSUME NEW T \in SUBSET (1..(m + 1))
        PROVE  f[T] = IF T = {} THEN s ELSE ProcessUpdate(f[T \ {Max(T)}], q[Max(T)])
    <3>1. CASE m + 1 \in T
      <4>1. m + 1 \notin T \ {m + 1} /\ T \ {m + 1} \in SUBSET (1..(m + 1))
        OBVIOUS
      <4>2. f[T \ {m + 1}] = g[T \ {m + 1}]
        BY <4>1
      <4> QED BY <2>2, <3>1, <4>2
    <3>2. CASE m + 1 \notin T
      <4>1. T \in SUBSET (1..m) /\ T \ {Max(T)} \in SUBSET T
        BY <2>3, <3>2
      <4>2. g[T] = IF T = {} THEN s ELSE ProcessUpdate(g[T \ {Max(T)}], q[Max(T)])
        BY <2>1, <4>1
      <4> QED BY <2>3, <3>2, <4>1, <4>2
    <3> QED BY <3>1, <3>2
  <2>5. Folds(m + 1, f)
    BY <2>4
  <2> QED BY <2>5
<1> HIDE DEF Folds
<1>3. Bad = {}
  <2> SUFFICES ASSUME Bad # {} PROVE FALSE
    OBVIOUS
  <2>1. PICK n \in Bad : \A m \in Bad : n <= m
    BY LeastNatural
  <2>2. n \in Nat /\ n # 0
    BY <1>1
  <2>3. n - 1 \in Nat /\ ~(n <= n - 1) /\ n - 1 + 1 = n
    BY <2>2
  <2>4. n - 1 \notin Bad
    BY <2>1, <2>3
  <2> QED BY <1>2, <2>1, <2>3, <2>4
<1>4. Folds(Len(q), iter)
  BY <1>0, <1>3
<1>5. FoldLeft(ProcessUpdate, s, q) = iter[1..Len(q)]
  BY <1>0 DEF FoldLeft, MapThenFoldSet, Folds
<1> HIDE DEF iter
<1> DEFINE r == [i \in 0..Len(q) |-> iter[1..i]]
<1>6. r[0] = s
  <2>1. 1..0 = {} /\ 1..0 \in SUBSET (1..Len(q))
    OBVIOUS
  <2> QED BY <1>0, <1>4, <2>1 DEF Folds
<1>7. ASSUME NEW i \in 1..Len(q) PROVE r[i] = ProcessUpdate(r[i - 1], q[i])
  <2>0. i \in Nat /\ 1 <= i
    BY <1>0
  <2>1. 1..i \in SUBSET (0..i) /\ 1..i # {} /\ i \in 1..i /\ i \in Nat
    BY <2>0
  <2>2. Max(1..i) = i
    <3>1. Max(1..i) \in 1..i /\ Max(1..i) >= i
      BY <2>1, MaxIs
    <3> QED BY <2>1, <3>1
  <2>3. (1..i) \ {i} = 1..(i - 1) /\ 1..i \in SUBSET (1..Len(q)) /\ i - 1 \in 0..Len(q) /\ i \in 0..Len(q)
    BY <1>0
  <2>4. iter[1..i] = ProcessUpdate(iter[(1..i) \ {Max(1..i)}], q[Max(1..i)])
    BY <1>4, <2>1, <2>3 DEF Folds
  <2> QED BY <2>2, <2>3, <2>4
<1>8. FoldLeft(ProcessUpdate, s, q) = r[Len(q)]
  BY <1>0, <1>5
<1> HIDE DEF r
<1> QED BY <1>6, <1>7, <1>8

-----------------------------------------------------------------------------
(* One chare *)

Mine(p) == {u \in Update : Owner[u.to] = p}

Chare(p) ==
  [dist : [{v \in Vertex : Owner[v] = p} -> Distance], histogram : [Bucket -> Int],
   created : SUBSET Update, processed : SUBSET Update,
   scale : Nat \ {0}, limit : Nat \ {0}, heap : Bucket, tram : Bucket,
   pq : SUBSET Mine(p), hold : [Bucket -> SUBSET Mine(p)], deferred : Seq(Mine(p)),
   tramHold : [Bucket -> SUBSET Update]]

\* What process_update() leaves alone.
SameRules(s, t) ==
  /\ t.scale = s.scale /\ t.limit = s.limit /\ t.heap = s.heap /\ t.tram = s.tram
  /\ t.created = s.created /\ t.tramHold = s.tramHold

LEMMA BucketType == Top \in Nat /\ Top \in Bucket /\ Bucket \subseteq Nat /\ 0 \in Bucket
BY BucketAssumption DEF Top, Bucket

LEMMA ChargedType ==
  ASSUME NEW p, NEW s \in Chare(p), NEW u \in Update
  PROVE  Charged(s, u) \in Update
BY DEF Charged, Update

RetiredCounts(h, s, u) == [h EXCEPT ![BucketAt(s, u)] = @ - 1]

LEMMA RetireIs ==
  ASSUME NEW p, NEW s \in Chare(p), NEW u \in Update
  PROVE  LET t == Retire(s, u) IN
         /\ t \in Chare(p)
         /\ SameRules(s, t) /\ t.dist = s.dist /\ t.deferred = s.deferred
         /\ t.pq = s.pq /\ t.hold = s.hold
         /\ t.processed = s.processed \cup {u}
         /\ t.histogram = RetiredCounts(s.histogram, s, u)
<1> DEFINE h == RetiredCounts(s.histogram, s, u)
<1>1. h \in [Bucket -> Int]
  <2>1. s.histogram \in [Bucket -> Int]
    BY DEF Chare
  <2>2. CASE BucketAt(s, u) \in Bucket
    BY <2>1, <2>2 DEF RetiredCounts
  <2>3. CASE BucketAt(s, u) \notin Bucket
    BY <2>1, <2>3 DEF RetiredCounts
  <2> QED BY <2>2, <2>3
<1>2. s.processed \cup {u} \in SUBSET Update
  BY DEF Chare
<1>3. Retire(s, u) = [s EXCEPT !.processed = s.processed \cup {u}, !.histogram = h]
  BY DEF Retire, Chare, RetiredCounts
<1> HIDE DEF h
<1>4. [s EXCEPT !.processed = s.processed \cup {u}, !.histogram = h] \in Chare(p)
  BY <1>1, <1>2 DEF Chare
<1>5. Retire(s, u).histogram = h
  BY <1>3 DEF Chare
<1>6. LET t == Retire(s, u) IN
      /\ SameRules(s, t) /\ t.dist = s.dist /\ t.deferred = s.deferred
      /\ t.pq = s.pq /\ t.hold = s.hold
      /\ t.processed = s.processed \cup {u}
  BY <1>3 DEF SameRules, Chare
<1> QED BY <1>3, <1>4, <1>5, <1>6 DEF h

LEMMA DeferIs ==
  ASSUME NEW p, NEW s \in Chare(p), NEW u \in Mine(p)
  PROVE  LET t == Defer(s, u) IN
         /\ t \in Chare(p)
         /\ SameRules(s, t) /\ t.dist = s.dist /\ t.deferred = Append(s.deferred, u)
         /\ t.pq = s.pq /\ t.hold = s.hold
         /\ t.processed = s.processed /\ t.histogram = s.histogram
<1>1. s.deferred \in Seq(Mine(p))
  BY DEF Chare
<1>2. Append(s.deferred, u) \in Seq(Mine(p))
  BY <1>1
<1> QED BY <1>2 DEF Chare, Defer, SameRules

\* The distance taken over.
Improved(s, u) == [s EXCEPT !.dist[u.to] = u.d]

LEMMA ImprovedIs ==
  ASSUME NEW p, NEW s \in Chare(p), NEW u \in Mine(p), u.d < s.dist[u.to]
  PROVE  LET t == Improved(s, u) IN
         /\ t \in Chare(p)
         /\ SameRules(s, t) /\ t.dist = [s.dist EXCEPT ![u.to] = u.d]
         /\ t.deferred = s.deferred /\ t.pq = s.pq /\ t.hold = s.hold
         /\ t.processed = s.processed /\ t.histogram = s.histogram
<1>1. [s.dist EXCEPT ![u.to] = u.d] \in [{v \in Vertex : Owner[v] = p} -> Distance]
  <2>1. s.dist \in [{v \in Vertex : Owner[v] = p} -> Distance] /\ u.to \in Vertex
        /\ Owner[u.to] = p /\ u.d \in Nat
    BY DEF Chare, Mine, Update
  <2>2. u.d \in Distance
    BY <2>1, GraphAssumption DEF Distance
  <2> QED BY <2>1, <2>2
<1> QED BY <1>1 DEF Chare, Improved, SameRules

\* The improving update kept until it is expanded.
Kept(s, u) ==
  IF BucketAt(s, u) > s.heap THEN [s EXCEPT !.hold[BucketAt(s, u)] = @ \cup {u}]
  ELSE [s EXCEPT !.pq = @ \cup {u}]

ListedAt(lists, b, u) == [lists EXCEPT ![b] = @ \cup {u}]

LEMMA KeptIs ==
  ASSUME NEW p, NEW s \in Chare(p), NEW u \in Mine(p)
  PROVE  LET t == Kept(s, u)
             b == BucketAt(s, u) IN
         /\ t \in Chare(p)
         /\ SameRules(s, t) /\ t.dist = s.dist /\ t.deferred = s.deferred
         /\ t.processed = s.processed /\ t.histogram = s.histogram
         /\ \/ b > s.heap /\ t.pq = s.pq /\ t.hold = ListedAt(s.hold, b, u)
            \/ ~(b > s.heap) /\ t.pq = s.pq \cup {u} /\ t.hold = s.hold
<1> DEFINE b == BucketAt(s, u)
           h == ListedAt(s.hold, b, u)
<1>1. h \in [Bucket -> SUBSET Mine(p)]
  BY DEF Chare, ListedAt
<1>2. s.pq \cup {u} \in SUBSET Mine(p)
  BY DEF Chare
<1>3. CASE b > s.heap
  <2>1. Kept(s, u) = [s EXCEPT !.hold = h]
    BY <1>3 DEF Kept, Chare, ListedAt
  <2> HIDE DEF h
  <2>2. [s EXCEPT !.hold = h] \in Chare(p)
    BY <1>1 DEF Chare
  <2>3. Kept(s, u).hold = h
    BY <2>1 DEF Chare
  <2>4. LET t == Kept(s, u) IN
        /\ SameRules(s, t) /\ t.dist = s.dist /\ t.deferred = s.deferred
        /\ t.processed = s.processed /\ t.histogram = s.histogram /\ t.pq = s.pq
    BY <2>1 DEF SameRules, Chare
  <2> QED BY <1>3, <2>1, <2>2, <2>3, <2>4 DEF h
<1>4. CASE ~(b > s.heap)
  BY <1>2, <1>4 DEF Kept, Chare, SameRules
<1> QED BY <1>3, <1>4

LEMMA ProcessUpdateIs ==
  ASSUME NEW p, NEW s \in Chare(p), NEW u \in Mine(p)
  PROVE  LET t == ProcessUpdate(s, u) IN
         /\ t \in Chare(p) /\ SameRules(s, t)
         /\ \/ MustDefer(s, u) /\ t = Defer(s, u)
            \/ /\ ~MustDefer(s, u)
               /\ \/ ~(u.d < s.dist[u.to]) /\ t = Retire(s, u)
                  \/ u.d < s.dist[u.to] /\ Out(u.to) = {} /\ t = Retire(Improved(s, u), u)
                  \/ u.d < s.dist[u.to] /\ Out(u.to) # {} /\ t = Kept(Improved(s, u), u)
<1>0. u \in Update /\ u.d \in Nat /\ s.dist[u.to] \in Nat
  BY GraphAssumption DEF Mine, Update, Chare, Distance
<1>1. CASE MustDefer(s, u)
  BY <1>1, DeferIs DEF ProcessUpdate
<1>2. CASE ~MustDefer(s, u) /\ u.d >= s.dist[u.to]
  <2>1. ProcessUpdate(s, u) = Retire(s, u) /\ ~(u.d < s.dist[u.to])
    BY <1>0, <1>2 DEF ProcessUpdate
  <2>2. Retire(s, u) \in Chare(p) /\ SameRules(s, Retire(s, u))
    BY <1>0, RetireIs
  <2> QED BY <1>2, <2>1, <2>2
<1>3. CASE ~MustDefer(s, u) /\ ~(u.d >= s.dist[u.to])
  <2>0. u.d < s.dist[u.to]
    BY <1>0, <1>3
  <2> DEFINE t == Improved(s, u)
  <2>1. t \in Chare(p) /\ SameRules(s, t)
    BY <2>0, ImprovedIs
  <2>2. BucketAt(t, u) = BucketAt(s, u) /\ t.heap = s.heap
    BY <2>1 DEF SameRules, BucketAt
  <2>3. CASE ~QueueWorthy(u.to)
    <3>1. ProcessUpdate(s, u) = Retire(t, u) /\ Out(u.to) = {}
      BY <1>3, <2>3 DEF ProcessUpdate, Improved, QueueWorthy
    <3>2. Retire(t, u) \in Chare(p) /\ SameRules(t, Retire(t, u))
      BY <1>0, <2>1, RetireIs
    <3> QED BY <1>3, <2>0, <2>1, <3>1, <3>2 DEF SameRules
  <2>4. CASE QueueWorthy(u.to)
    <3>1. ProcessUpdate(s, u) = Kept(t, u) /\ Out(u.to) # {}
      BY <1>3, <2>2, <2>4 DEF ProcessUpdate, Improved, QueueWorthy, Kept
    <3>2. Kept(t, u) \in Chare(p) /\ SameRules(t, Kept(t, u))
      BY <2>1, KeptIs
    <3> QED BY <1>3, <2>0, <2>1, <3>1, <3>2 DEF SameRules
  <2> QED BY <2>3, <2>4
<1> QED BY <1>1, <1>2, <1>3

LEMMA BucketAtIn ==
  ASSUME NEW p, NEW s \in Chare(p), Fits(s.scale, s.limit), NEW u \in Update
  PROVE  BucketAt(s, u) \in Bucket
<1>1. u.d \in Nat /\ s.scale \in Nat \ {0} /\ s.limit \in Nat
  BY DEF Chare, Update
<1>2. HistoBucket(u.d, s.scale, s.limit) \in Bucket
  BY <1>1, BucketInRange
<1> QED BY <1>2, BucketType DEF BucketAt, BucketOf

ChargedCounts(s, us) ==
  [b \in Bucket |-> s.histogram[b] + Cardinality({u \in us : BucketAt(s, u) = b})]

LEMMA ChargeIs ==
  ASSUME NEW p, NEW s \in Chare(p), NEW us \in SUBSET Update, IsFiniteSet(us)
  PROVE  LET t == Charge(s, us) IN
         /\ t \in Chare(p)
         /\ t.scale = s.scale /\ t.limit = s.limit /\ t.heap = s.heap /\ t.tram = s.tram
         /\ t.created = s.created \cup us /\ t.processed = s.processed
         /\ t.dist = s.dist /\ t.pq = s.pq /\ t.hold = s.hold
         /\ t.deferred = s.deferred /\ t.tramHold = s.tramHold
         /\ t.histogram = ChargedCounts(s, us)
<1> DEFINE h == ChargedCounts(s, us)
           c == s.created \cup us
<1>1. h \in [Bucket -> Int]
  <2>1. ASSUME NEW b \in Bucket
        PROVE  s.histogram[b] + Cardinality({u \in us : BucketAt(s, u) = b}) \in Int
    <3>1. Cardinality({u \in us : BucketAt(s, u) = b}) \in Nat
      BY FS_Subset, FS_CardinalityType
    <3>2. s.histogram[b] \in Int
      BY DEF Chare
    <3> QED BY <3>1, <3>2
  <2> QED BY <2>1 DEF ChargedCounts
<1>2. c \in SUBSET Update
  BY DEF Chare
<1>3. Charge(s, us) = [s EXCEPT !.created = c, !.histogram = h]
  BY DEF Charge, Chare, ChargedCounts
<1>4. h = ChargedCounts(s, us) /\ c = s.created \cup us
  OBVIOUS
<1> HIDE DEF h, c
<1>5. [s EXCEPT !.created = c, !.histogram = h] \in Chare(p)
  BY <1>1, <1>2 DEF Chare
<1>6. LET t == Charge(s, us) IN
         /\ t.scale = s.scale /\ t.limit = s.limit /\ t.heap = s.heap /\ t.tram = s.tram
         /\ t.created = c /\ t.processed = s.processed
         /\ t.dist = s.dist /\ t.pq = s.pq /\ t.hold = s.hold
         /\ t.deferred = s.deferred /\ t.tramHold = s.tramHold
         /\ t.histogram = h
  BY <1>3 DEF Chare
<1> QED BY <1>3, <1>4, <1>5, <1>6

-----------------------------------------------------------------------------
(* Merges *)

\* Lists of updates that share none, and what they list together.
Apart(lists) == \A b, c \in Bucket : b # c => lists[b] \cap lists[c] = {}
Listed(lists) == UNION {lists[b] : b \in Bucket}

LEMMA MergedIndexType ==
  ASSUME NEW i \in Bucket, NEW k \in Nat \ {0}
  PROVE  MergedIndex(i, k) \in Bucket
<1>1. i \in Nat /\ i <= Top /\ Top \in Nat
  BY BucketType DEF Bucket
<1>2. i \div k \in Nat /\ i \div k <= i
  BY <1>1
<1>3. i \div k \in Bucket
  BY <1>1, <1>2 DEF Bucket
<1> QED BY <1>3, BucketType DEF MergedIndex

LEMMA MergedCountsType ==
  ASSUME NEW h \in [Bucket -> Int], NEW k
  PROVE  MergedCounts(h, k) \in [Bucket -> Int]
<1>1. ASSUME NEW j \in Bucket
      PROVE  MapThenSumSet(LAMBDA i : h[i], {i \in Bucket : MergedIndex(i, k) = j}) \in Int
  <2> DEFINE T == {i \in Bucket : MergedIndex(i, k) = j}
  <2>1. IsFiniteSet(T)
    <3>1. IsFiniteSet(Bucket)
      BY BucketType, FS_Interval DEF Bucket
    <3> QED BY <3>1, FS_Subset
  <2>2. \A i \in T : h[i] \in Int
    OBVIOUS
  <2>3. Sum(h, T) \in Int
    BY <2>1, <2>2, SumType
  <2> QED BY <2>3 DEF Sum
<1> QED BY <1>1 DEF MergedCounts

LEMMA MergedListsIs ==
  ASSUME NEW X, NEW h \in [Bucket -> SUBSET X], NEW k \in Nat \ {0}
  PROVE  LET m == MergedLists(h, k) IN
         /\ m \in [Bucket -> SUBSET X]
         /\ Listed(m) = Listed(h)
         /\ Apart(h) => Apart(m)
         /\ \A b \in Bucket : \A u \in m[b] :
              \E i \in Bucket : u \in h[i] /\ b = MergedIndex(i, k)
<1> DEFINE m == MergedLists(h, k)
<1>1. m \in [Bucket -> SUBSET X]
  BY DEF MergedLists
<1>2. \A b \in Bucket : \A u :
        u \in m[b] <=> \E i \in Bucket : u \in h[i] /\ b = MergedIndex(i, k)
  BY DEF MergedLists
<1> HIDE DEF m
<1>3. Listed(m) = Listed(h)
  <2>1. ASSUME NEW u \in Listed(h) PROVE u \in Listed(m)
    <3>1. PICK i \in Bucket : u \in h[i]
      BY DEF Listed
    <3>2. MergedIndex(i, k) \in Bucket
      BY MergedIndexType
    <3>3. u \in m[MergedIndex(i, k)]
      BY <1>2, <3>1, <3>2
    <3> QED BY <3>2, <3>3 DEF Listed
  <2>2. ASSUME NEW u \in Listed(m) PROVE u \in Listed(h)
    BY <1>2 DEF Listed
  <2> QED BY <2>1, <2>2
<1>4. Apart(h) => Apart(m)
  <2> SUFFICES ASSUME Apart(h), NEW b \in Bucket, NEW c \in Bucket, b # c,
                      NEW u \in m[b], u \in m[c]
               PROVE  FALSE
    BY DEF Apart
  <2>1. PICK i \in Bucket : u \in h[i] /\ b = MergedIndex(i, k)
    BY <1>2
  <2>2. PICK j \in Bucket : u \in h[j] /\ c = MergedIndex(j, k)
    BY <1>2
  <2> QED BY <2>1, <2>2 DEF Apart
<1> QED BY <1>1, <1>2, <1>3, <1>4 DEF m

LEMMA ClearedIs ==
  ASSUME NEW X, NEW h \in [Bucket -> SUBSET X], NEW b
  PROVE  /\ Cleared(h, b) \in [Bucket -> SUBSET X]
         /\ UpTo(h, b) \in SUBSET X
         /\ Listed(h) = UpTo(h, b) \cup Listed(Cleared(h, b))
         /\ Apart(h) => /\ Apart(Cleared(h, b))
                        /\ UpTo(h, b) \cap Listed(Cleared(h, b)) = {}
<1> DEFINE m == Cleared(h, b)
<1>1. m \in [Bucket -> SUBSET X]
  BY DEF Cleared
<1>2. \A i \in Bucket : m[i] = IF i <= b THEN {} ELSE h[i]
  BY DEF Cleared
<1> HIDE DEF m
<1>3. \A u : u \in UpTo(h, b) <=> \E i \in Bucket : i <= b /\ u \in h[i]
  BY DEF UpTo
<1>4. \A u : u \in Listed(m) <=> \E i \in Bucket : ~(i <= b) /\ u \in h[i]
  BY <1>2 DEF Listed
<1>5. Listed(h) = UpTo(h, b) \cup Listed(m)
  <2>1. \A u : u \in Listed(h) <=> \E i \in Bucket : u \in h[i]
    BY DEF Listed
  <2>2. \A u : u \in Listed(h) <=> u \in UpTo(h, b) \/ u \in Listed(m)
    BY <1>3, <1>4, <2>1
  <2> QED BY <2>2
<1>6. Apart(h) => Apart(m)
  BY <1>2 DEF Apart
<1>7. Apart(h) => UpTo(h, b) \cap Listed(m) = {}
  BY <1>3, <1>4 DEF Apart
<1>8. UpTo(h, b) \in SUBSET X
  BY DEF UpTo
<1> QED BY <1>1, <1>5, <1>6, <1>7, <1>8 DEF m

LEMMA CoarsenIs ==
  ASSUME NEW p, NEW s \in Chare(p), Fits(s.scale, s.limit),
         NEW k \in Nat \ {0}, NEW extend \in BOOLEAN
  PROVE  LET t == CoarsenBuckets(s, k, extend) IN
         /\ t \in Chare(p)
         /\ Fits(t.scale, t.limit)
         /\ t.scale = s.scale * k /\ t.limit = MergedLimit(s.limit, s.scale, k, extend)
         /\ t.histogram = MergedCounts(s.histogram, k)
         /\ t.hold = MergedLists(s.hold, k) /\ t.tramHold = MergedLists(s.tramHold, k)
         /\ t.created = s.created /\ t.processed = s.processed /\ t.dist = s.dist
         /\ t.pq = s.pq /\ t.deferred = s.deferred /\ t.heap = s.heap /\ t.tram = s.tram
<1> DEFINE h == MergedCounts(s.histogram, k)
           l == MergedLists(s.hold, k)
           w == MergedLists(s.tramHold, k)
           g == s.scale * k
           m == MergedLimit(s.limit, s.scale, k, extend)
<1>1. h \in [Bucket -> Int]
  BY MergedCountsType DEF Chare
<1>2. l \in [Bucket -> SUBSET Mine(p)] /\ w \in [Bucket -> SUBSET Update]
  <2>1. s.hold \in [Bucket -> SUBSET Mine(p)] /\ s.tramHold \in [Bucket -> SUBSET Update]
    BY DEF Chare
  <2> QED BY <2>1, MergedListsIs
<1>3. s.scale \in Nat \ {0} /\ s.limit \in Nat \ {0} /\ B \in Nat \ {0}
  BY BucketAssumption DEF Chare
<1>4. g \in Nat \ {0}
  BY <1>3
<1>5. m \in Nat \ {0} /\ Fits(g, m)
  <2>1. m \in Nat /\ Fits(g, m)
    BY <1>3, MergeFits
  <2>2. B * s.scale \in Nat \ {0}
    BY <1>3
  <2>3. B * s.scale * k # 0
    BY <2>2
  <2>4. s.limit * k # 0
    BY <1>3
  <2>5. m # 0
    BY <1>3, <2>3, <2>4 DEF MergedLimit
  <2> QED BY <2>1, <2>5
<1>6. CoarsenBuckets(s, k, extend) =
        [s EXCEPT !.histogram = h, !.hold = l, !.tramHold = w, !.scale = g, !.limit = m]
  BY DEF CoarsenBuckets, Chare
<1>7. /\ h = MergedCounts(s.histogram, k) /\ l = MergedLists(s.hold, k)
      /\ w = MergedLists(s.tramHold, k) /\ g = s.scale * k
      /\ m = MergedLimit(s.limit, s.scale, k, extend)
  OBVIOUS
<1> HIDE DEF h, l, w, g, m
<1>8. [s EXCEPT !.histogram = h, !.hold = l, !.tramHold = w, !.scale = g, !.limit = m]
        \in Chare(p)
  BY <1>1, <1>2, <1>4, <1>5 DEF Chare
<1>9. LET t == CoarsenBuckets(s, k, extend) IN
         /\ t.scale = g /\ t.limit = m
         /\ t.histogram = h /\ t.hold = l /\ t.tramHold = w
         /\ t.created = s.created /\ t.processed = s.processed /\ t.dist = s.dist
         /\ t.pq = s.pq /\ t.deferred = s.deferred /\ t.heap = s.heap /\ t.tram = s.tram
  BY <1>6 DEF Chare
<1> QED BY <1>5, <1>6, <1>7, <1>8, <1>9

-----------------------------------------------------------------------------
(* Reprocessing what was deferred, and a round's thresholds *)

LEMMA Climb ==
  ASSUME NEW n \in Nat, NEW G, 0 \in G, \A i \in 1..n : i - 1 \in G => i \in G
  PROVE  \A i \in 0..n : i \in G
<1> DEFINE Bad == {i \in 0..n : i \notin G}
<1>1. Bad = {}
  <2> SUFFICES ASSUME Bad # {} PROVE FALSE
    OBVIOUS
  <2>1. Bad \in SUBSET Nat
    OBVIOUS
  <2>2. PICK i \in Bad : \A j \in Bad : i <= j
    BY <2>1, LeastNatural
  <2>3. i \in 1..n /\ i - 1 \in 0..n /\ ~(i <= i - 1)
    OBVIOUS
  <2> QED BY <2>2, <2>3
<1> QED BY <1>1

\* The states of Reprocess(s), one update of s.deferred after the other.
Passes(s, r) ==
  /\ r[0] = [s EXCEPT !.deferred = <<>>]
  /\ \A i \in 1..Len(s.deferred) : r[i] = ProcessUpdate(r[i - 1], s.deferred[i])
  /\ Reprocess(s) = r[Len(s.deferred)]

LEMMA ReprocessIs ==
  ASSUME NEW p, NEW s \in Chare(p)
  PROVE  \E r : /\ Passes(s, r)
                /\ \A i \in 0..Len(s.deferred) : r[i] \in Chare(p) /\ SameRules(s, r[i])
<1> DEFINE q == s.deferred
           z == [s EXCEPT !.deferred = <<>>]
<1>1. q \in Seq(Mine(p)) /\ Len(q) \in Nat /\ \A i \in 1..Len(q) : q[i] \in Mine(p)
  <2>1. q \in Seq(Mine(p))
    BY DEF Chare
  <2> HIDE DEF q
  <2> QED BY <2>1
<1>2. z \in Chare(p) /\ SameRules(s, z)
  <2>1. <<>> \in Seq(Mine(p))
    OBVIOUS
  <2> QED BY <2>1 DEF Chare, SameRules
<1>3. PICK r : /\ r[0] = z
               /\ \A i \in 1..Len(q) : r[i] = ProcessUpdate(r[i - 1], q[i])
               /\ FoldLeft(ProcessUpdate, z, q) = r[Len(q)]
  BY <1>1, FoldSteps
<1>4. Reprocess(s) = r[Len(q)]
  <2>1. CASE q = <<>>
    <3>1. Len(q) = 0 /\ Reprocess(s) = s
      BY <2>1 DEF Reprocess
    <3>2. z = s
      BY <2>1 DEF Chare
    <3> QED BY <1>3, <3>1, <3>2
  <2>2. CASE q # <<>>
    BY <1>3, <2>2 DEF Reprocess
  <2> QED BY <2>1, <2>2
<1> DEFINE G == {i \in Nat : r[i] \in Chare(p) /\ SameRules(s, r[i])}
<1>5. 0 \in G
  BY <1>2, <1>3
<1>6. ASSUME NEW i \in 1..Len(q), i - 1 \in G PROVE i \in G
  <2>1. r[i - 1] \in Chare(p) /\ SameRules(s, r[i - 1]) /\ q[i] \in Mine(p)
    BY <1>1, <1>6
  <2>2. ProcessUpdate(r[i - 1], q[i]) \in Chare(p)
        /\ SameRules(r[i - 1], ProcessUpdate(r[i - 1], q[i]))
    BY <2>1, ProcessUpdateIs
  <2>3. r[i] = ProcessUpdate(r[i - 1], q[i]) /\ i \in Nat
    BY <1>3
  <2> QED BY <2>1, <2>2, <2>3 DEF SameRules
<1> HIDE DEF G
<1>7. \A i \in 0..Len(q) : i \in G
  BY <1>1, <1>5, <1>6, Climb
<1> QED BY <1>3, <1>4, <1>7 DEF G, Passes

\* The round's merge, if it has one.
Merged(s, r) == IF r.coarsen > 1 THEN CoarsenBuckets(s, r.coarsen, r.extend) ELSE s

RoundType ==
  [first : BOOLEAN, heap : Bucket, tram : Bucket, behind : Int,
   coarsen : Nat \ {0}, extend : BOOLEAN]

\* The rules of a chare, as the merge of round r leaves them.
Rescales(s, t, r) ==
  /\ t.scale = (IF r.coarsen > 1 THEN s.scale * r.coarsen ELSE s.scale)
  /\ t.limit = (IF r.coarsen > 1 THEN MergedLimit(s.limit, s.scale, r.coarsen, r.extend)
                ELSE s.limit)

LEMMA MergedIs ==
  ASSUME NEW p, NEW s \in Chare(p), Fits(s.scale, s.limit), NEW r \in RoundType
  PROVE  LET t == Merged(s, r) IN
         /\ t \in Chare(p) /\ Fits(t.scale, t.limit) /\ Rescales(s, t, r)
         /\ t.created = s.created /\ t.processed = s.processed /\ t.dist = s.dist
         /\ t.pq = s.pq /\ t.deferred = s.deferred /\ t.heap = s.heap /\ t.tram = s.tram
         /\ Listed(t.hold) = Listed(s.hold) /\ Listed(t.tramHold) = Listed(s.tramHold)
         /\ Apart(s.hold) => Apart(t.hold)
         /\ Apart(s.tramHold) => Apart(t.tramHold)
<1>1. r.coarsen \in Nat \ {0} /\ r.extend \in BOOLEAN
  BY DEF RoundType
<1>2. CASE r.coarsen > 1
  <2> DEFINE t == CoarsenBuckets(s, r.coarsen, r.extend)
  <2>1. /\ t \in Chare(p) /\ Fits(t.scale, t.limit)
        /\ t.scale = s.scale * r.coarsen
        /\ t.limit = MergedLimit(s.limit, s.scale, r.coarsen, r.extend)
        /\ t.hold = MergedLists(s.hold, r.coarsen)
        /\ t.tramHold = MergedLists(s.tramHold, r.coarsen)
        /\ t.created = s.created /\ t.processed = s.processed /\ t.dist = s.dist
        /\ t.pq = s.pq /\ t.deferred = s.deferred /\ t.heap = s.heap /\ t.tram = s.tram
    BY <1>1, CoarsenIs
  <2>2. Merged(s, r) = t
    BY <1>2 DEF Merged
  <2> HIDE DEF t
  <2>3. s.hold \in [Bucket -> SUBSET Mine(p)] /\ s.tramHold \in [Bucket -> SUBSET Update]
    BY DEF Chare
  <2>4. /\ Listed(t.hold) = Listed(s.hold)
        /\ Apart(s.hold) => Apart(t.hold)
    <3>1. LET l == MergedLists(s.hold, r.coarsen) IN
          Listed(l) = Listed(s.hold) /\ (Apart(s.hold) => Apart(l))
      BY <1>1, <2>3, MergedListsIs
    <3> QED BY <2>1, <3>1
  <2>5. /\ Listed(t.tramHold) = Listed(s.tramHold)
        /\ Apart(s.tramHold) => Apart(t.tramHold)
    <3>1. LET l == MergedLists(s.tramHold, r.coarsen) IN
          Listed(l) = Listed(s.tramHold) /\ (Apart(s.tramHold) => Apart(l))
      BY <1>1, <2>3, MergedListsIs
    <3> QED BY <2>1, <3>1
  <2> QED BY <1>2, <2>1, <2>2, <2>4, <2>5 DEF Rescales
<1>3. CASE ~(r.coarsen > 1)
  BY <1>3 DEF Merged, Rescales
<1> QED BY <1>2, <1>3

LEMMA TakeUpIs ==
  ASSUME NEW p, NEW s \in Chare(p), Fits(s.scale, s.limit), NEW r \in RoundType
  PROVE  LET m == Merged(s, r)
             x == Reprocess(m)
             t == TakeUp(s, r) IN
         /\ x \in Chare(p) /\ SameRules(m, x)
         /\ t \in Chare(p) /\ Fits(t.scale, t.limit) /\ Rescales(s, t, r)
         /\ t.heap = r.heap /\ t.tram = r.tram
         /\ t.tramHold = Cleared(m.tramHold, r.tram)
         /\ t.created = s.created /\ t.processed = x.processed /\ t.dist = x.dist
         /\ t.histogram = x.histogram
         /\ t.pq = x.pq /\ t.hold = x.hold /\ t.deferred = x.deferred
         /\ Released(s, r) = UpTo(m.tramHold, r.tram)
<1> DEFINE m == Merged(s, r)
           x == Reprocess(m)
           t == TakeUp(s, r)
<1>1. /\ m \in Chare(p) /\ Fits(m.scale, m.limit) /\ Rescales(s, m, r)
      /\ m.created = s.created
  BY MergedIs
<1>2. x \in Chare(p) /\ SameRules(m, x)
  <2>1. PICK q : Passes(m, q) /\ \A i \in 0..Len(m.deferred) :
                                   q[i] \in Chare(p) /\ SameRules(m, q[i])
    BY <1>1, ReprocessIs
  <2>2. Len(m.deferred) \in 0..Len(m.deferred)
    <3>1. m.deferred \in Seq(Mine(p))
      BY <1>1 DEF Chare
    <3> QED BY <3>1
  <2> QED BY <2>1, <2>2 DEF Passes
<1>3. r.heap \in Bucket /\ r.tram \in Bucket
  BY DEF RoundType
<1>4. x.tramHold = m.tramHold /\ x.tramHold \in [Bucket -> SUBSET Update]
  BY <1>2 DEF SameRules, Chare
<1>5. Cleared(x.tramHold, r.tram) \in [Bucket -> SUBSET Update]
  BY <1>4, ClearedIs
<1> DEFINE w == Cleared(x.tramHold, r.tram)
<1>6. t = [x EXCEPT !.heap = r.heap, !.tram = r.tram, !.tramHold = w]
  BY <1>2 DEF TakeUp, Merged, Chare
<1>7. Released(s, r) = UpTo(m.tramHold, r.tram)
  <2>1. CASE r.coarsen > 1
    <3>1. r.coarsen \in Nat \ {0} /\ r.extend \in BOOLEAN
      BY DEF RoundType
    <3>2. m.tramHold = MergedLists(s.tramHold, r.coarsen)
      BY <2>1, <3>1, CoarsenIs DEF Merged
    <3> QED BY <2>1, <3>2 DEF Released
  <2>2. CASE ~(r.coarsen > 1)
    BY <2>2 DEF Released, Merged
  <2> QED BY <2>1, <2>2
<1>8. w = Cleared(m.tramHold, r.tram)
  BY <1>4
<1> HIDE DEF w, x, m, t
<1>9. [x EXCEPT !.heap = r.heap, !.tram = r.tram, !.tramHold = w] \in Chare(p)
  BY <1>2, <1>3, <1>4, <1>5, <1>8 DEF Chare
<1>10. /\ t.heap = r.heap /\ t.tram = r.tram /\ t.tramHold = w
       /\ t.scale = x.scale /\ t.limit = x.limit
       /\ t.created = x.created /\ t.processed = x.processed /\ t.dist = x.dist
       /\ t.histogram = x.histogram
       /\ t.pq = x.pq /\ t.hold = x.hold /\ t.deferred = x.deferred
  BY <1>2, <1>6 DEF Chare
<1>11. Rescales(s, t, r) /\ Fits(t.scale, t.limit) /\ t.created = s.created
  BY <1>1, <1>2, <1>10 DEF SameRules, Rescales
<1> QED BY <1>2, <1>6, <1>7, <1>8, <1>9, <1>10, <1>11 DEF x, m, t

\* The updates an expansion creates.
LEMMA RelaxationsIs ==
  ASSUME NEW p, NEW s \in Chare(p), NEW u \in Update
  PROVE  /\ Relaxations(s, u) \in SUBSET Update
         /\ IsFiniteSet(Relaxations(s, u))
<1>1. IsFiniteSet(Out(u.to)) /\ Out(u.to) \subseteq Edge
  BY GraphAssumption, FS_Subset DEF Out
<1> DEFINE f == [e \in Out(u.to) |->
                   Charged(s, [via |-> e, to |-> To[e], d |-> u.d + Weight[e], ovf |-> FALSE])]
           all == {f[e] : e \in Out(u.to)}
<1>2. IsFiniteSet(all)
  <2>1. f \in Surjection(Out(u.to), all)
    BY DEF Surjection
  <2> QED BY <1>1, <2>1, FS_Surjection
<1>3. all \in SUBSET Update
  <2> SUFFICES ASSUME NEW e \in Out(u.to) PROVE f[e] \in Update
    OBVIOUS
  <2> DEFINE k == [via |-> e, to |-> To[e], d |-> u.d + Weight[e], ovf |-> FALSE]
  <2>1. e \in Edge /\ To[e] \in Vertex /\ Weight[e] \in Nat /\ u.d \in Nat
    BY <1>1, GraphAssumption DEF Update
  <2>2. k \in Update
    BY <2>1 DEF Update
  <2> HIDE DEF k
  <2>3. Charged(s, k) \in Update
    BY <2>2, ChargedType
  <2> QED BY <2>3 DEF k
<1>4. Relaxations(s, u) = all \/ Relaxations(s, u) = {}
  BY DEF Relaxations
<1> QED BY <1>2, <1>3, <1>4, FS_EmptySet

-----------------------------------------------------------------------------
(* What Main decides stays inside the histogram *)

LEMMA SlotType == Slot \subseteq Nat /\ IsFiniteSet(Slot) /\ 0 \in Slot /\ W - 1 \in Slot
                  /\ \A i \in Slot : i <= W - 1
<1>1. W \in Nat /\ 1 <= W
  BY ControllerAssumption, BucketAssumption
<1> QED BY <1>1, FS_Interval DEF Slot

LEMMA MassType ==
  ASSUME NEW window \in [Slot -> Int], NEW i \in Slot
  PROVE  Mass(window, i) \in Int
<1>1. 0..i \subseteq Slot
  BY SlotType, ControllerAssumption, BucketAssumption DEF Slot
<1>2. IsFiniteSet(0..i) /\ \A j \in 0..i : window[j] \in Int
  BY <1>1, SlotType, FS_Subset
<1>3. Sum(window, 0..i) \in Int
  BY <1>2, SumType
<1> QED BY <1>3 DEF Mass, Sum

LEMMA MinOfTwo ==
  ASSUME NEW a \in Int, NEW b \in Int
  PROVE  Min({a, b}) \in {a, b} /\ Min({a, b}) <= a /\ Min({a, b}) <= b
<1>1. \E x \in {a, b} : \A y \in {a, b} : x <= y
  <2>1. CASE a <= b
    BY <2>1
  <2>2. CASE ~(a <= b)
    BY <2>2
  <2> QED BY <2>1, <2>2
<1> QED BY <1>1 DEF Min

LEMMA MaxOfTwo ==
  ASSUME NEW a \in Int, NEW b \in Int
  PROVE  Max({a, b}) \in {a, b} /\ Max({a, b}) >= a /\ Max({a, b}) >= b
<1>1. \E x \in {a, b} : \A y \in {a, b} : x >= y
  <2>1. CASE a >= b
    BY <2>1
  <2>2. CASE ~(a >= b)
    BY <2>2
  <2> QED BY <2>1, <2>2
<1> QED BY <1>1 DEF Max

LEMMA ShareBucketType ==
  ASSUME NEW r, NEW origin \in Bucket, NEW share
  PROVE  ShareBucket(r, origin, share) \in Bucket
<1> DEFINE Enough(i) == Mass(r.window, i) * 10000 >= WindowSum(r) * share
           enough == {i \in Slot : Enough(i)}
<1>1. CASE enough = {}
  BY <1>1, BucketType DEF ShareBucket
<1>2. CASE enough # {}
  <2> DEFINE i == Min(enough)
  <2>1. enough \in SUBSET Nat
    <3> HIDE DEF Enough
    <3> QED BY SlotType
  <2>2. i \in Nat
    <3> HIDE DEF enough
    <3> QED BY <1>2, <2>1, MinIs
  <2>3. ShareBucket(r, origin, share) = Min({i + origin, Top})
    BY <1>2 DEF ShareBucket
  <2> HIDE DEF i
  <2> DEFINE a == i + origin
  <2>4. a \in Int /\ a \in Nat /\ Top \in Nat /\ Top \in Int
    BY <2>2, BucketType
  <2> HIDE DEF a
  <2>5. Min({a, Top}) \in {a, Top} /\ Min({a, Top}) <= Top
    BY <2>4, MinOfTwo
  <2>6. Min({a, Top}) \in Bucket
    BY <2>4, <2>5 DEF Bucket
  <2> QED BY <2>3, <2>6 DEF a
<1> QED BY <1>1, <1>2

LEMMA ThresholdType ==
  ASSUME NEW r, NEW origin \in Bucket, NEW stalled
  PROVE  HeapThreshold(r, origin, stalled) \in Bucket /\ TramThreshold(r, origin, stalled) \in Bucket
BY ShareBucketType, BucketType DEF HeapThreshold, TramThreshold

LEMMA FirstNonzeroType ==
  ASSUME NEW r, r.window \in [Slot -> Int], NEW origin \in Bucket,
         \A i \in Slot : r.window[i] # 0 => i + origin <= Top
  PROVE  FirstNonzero(r, origin) \in Bucket
<1>0. Top = B - 1 /\ B \in Nat /\ W \in Nat /\ origin \in Nat
  BY BucketAssumption, ControllerAssumption, BucketType DEF Top
<1>1. CASE Occupied(r) # {}
  <2>1. Occupied(r) \in SUBSET Nat
    BY SlotType DEF Occupied
  <2>2. Min(Occupied(r)) \in Occupied(r)
    BY <1>1, <2>1, MinIs
  <2> DEFINE i == Min(Occupied(r))
  <2>3. i \in Slot /\ i \in Nat /\ r.window[i] > 0
    BY <2>1, <2>2 DEF Occupied
  <2> HIDE DEF i
  <2>4. i + origin \in Nat /\ i + origin <= Top
    <3>1. r.window[i] # 0
      BY <2>3
    <3> QED BY <1>0, <2>3, <3>1
  <2>5. FirstNonzero(r, origin) = i + origin
    BY <1>1 DEF FirstNonzero, i
  <2> QED BY <1>0, <2>4, <2>5 DEF Bucket
<1>2. CASE Occupied(r) = {}
  <2>1. origin + W < B => origin + W \in Bucket
    BY <1>0 DEF Bucket
  <2> QED BY <1>2, <2>1 DEF FirstNonzero
<1> QED BY <1>1, <1>2

LEMMA CoarseningType ==
  ASSUME NEW r, r.window \in [Slot -> Int], NEW origin
  PROVE  Coarsening(r, origin) \in Nat \ {0}
<1> DEFINE sum == WindowSum(r)
           above == {i \in Slot : Mass(r.window, i) * 20 > sum}
           most == {i \in Slot : Mass(r.window, i) * 20 >= 19 * sum}
           k == (Min(most) - Min(above)) \div BucketTarget
           c == Coarsening(r, origin)
<1>1. c = 1 \/ (c = k /\ sum > 0 /\ (\E i \in above : i <= Min(most)) /\ k >= 2)
  BY DEF Coarsening
<1>2. ASSUME sum > 0, \E i \in above : i <= Min(most), k >= 2 PROVE k \in Nat \ {0}
  <2>1. above \in SUBSET Nat /\ most \in SUBSET Nat
    BY SlotType
  <2>2. sum \in Int /\ sum = Mass(r.window, W - 1)
    BY SlotType, MassType DEF WindowSum
  <2>3. W - 1 \in most
    BY <1>2, <2>2, SlotType
  <2>4. above # {} /\ most # {}
    BY <1>2, <2>3
  <2> HIDE DEF above, most
  <2>5. Min(above) \in Nat /\ Min(most) \in Nat
    BY <2>1, <2>4, MinIs
  <2>6. BucketTarget \in Nat \ {0}
    BY ControllerAssumption
  <2>7. k \in Int
    BY <2>5, <2>6
  <2> QED BY <1>2, <2>7
<1> QED BY <1>1, <1>2

LEMMA RescaledType ==
  ASSUME NEW i \in Bucket, NEW k \in Nat \ {0}
  PROVE  Rescaled(i, k) \in Bucket
BY MergedIndexType DEF Rescaled

-----------------------------------------------------------------------------
(* The two handlers that move updates between a chare's containers *)

\* The chare after process_heap() has popped u.
Held(s, u, b) == {k \in Relaxations(s, u) : BucketAt(s, k) = b /\ b > s.tram}
Relaxed(s, u) ==
  [Charge(s, Relaxations(s, u)) EXCEPT
     !.pq = @ \ {u},
     !.tramHold = [b \in Bucket |-> @[b] \cup Held(s, u, b)]]
Expanded(s, u) == Retire(Relaxed(s, u), u)

HeldWith(s, u) == [b \in Bucket |-> s.tramHold[b] \cup Held(s, u, b)]

LEMMA ExpandedIs ==
  ASSUME NEW p, NEW s \in Chare(p), NEW u \in s.pq
  PROVE  LET t == Expanded(s, u) IN
         /\ t \in Chare(p)
         /\ t.scale = s.scale /\ t.limit = s.limit /\ t.heap = s.heap /\ t.tram = s.tram
         /\ t.dist = s.dist /\ t.hold = s.hold /\ t.deferred = s.deferred
         /\ t.pq = s.pq \ {u}
         /\ t.created = s.created \cup Relaxations(s, u)
         /\ t.processed = s.processed \cup {u}
         /\ t.tramHold = HeldWith(s, u)
         /\ t.histogram = RetiredCounts(ChargedCounts(s, Relaxations(s, u)), s, u)
<1> DEFINE sent == Relaxations(s, u)
           c == Charge(s, sent)
           q == c.pq \ {u}
           w == [b \in Bucket |-> c.tramHold[b] \cup Held(s, u, b)]
           x == Relaxed(s, u)
<1>0. u \in Update
  BY DEF Chare, Mine
<1>1. sent \in SUBSET Update /\ IsFiniteSet(sent)
  BY <1>0, RelaxationsIs
<1> HIDE DEF sent
<1>2. /\ c \in Chare(p)
      /\ c.scale = s.scale /\ c.limit = s.limit /\ c.heap = s.heap /\ c.tram = s.tram
      /\ c.dist = s.dist /\ c.hold = s.hold /\ c.deferred = s.deferred
      /\ c.pq = s.pq /\ c.tramHold = s.tramHold
      /\ c.created = s.created \cup sent /\ c.processed = s.processed
      /\ c.histogram = ChargedCounts(s, sent)
  <2>1. LET t == Charge(s, sent) IN
         /\ t \in Chare(p)
         /\ t.scale = s.scale /\ t.limit = s.limit /\ t.heap = s.heap /\ t.tram = s.tram
         /\ t.created = s.created \cup sent /\ t.processed = s.processed
         /\ t.dist = s.dist /\ t.pq = s.pq /\ t.hold = s.hold
         /\ t.deferred = s.deferred /\ t.tramHold = s.tramHold
         /\ t.histogram = ChargedCounts(s, sent)
    BY <1>1, ChargeIs
  <2> QED BY <2>1
<1>3. x = [c EXCEPT !.pq = q, !.tramHold = w]
  BY <1>2 DEF Relaxed, sent, Chare
<1> HIDE DEF c
<1>4. q \in SUBSET Mine(p) /\ w \in [Bucket -> SUBSET Update]
  <2>1. \A b \in Bucket : c.tramHold[b] \in SUBSET Update /\ Held(s, u, b) \in SUBSET Update
    BY <1>1, <1>2 DEF Chare, Held, sent
  <2>2. w \in [Bucket -> SUBSET Update]
    BY <2>1
  <2>3. c.pq \in SUBSET Mine(p)
    BY <1>2 DEF Chare
  <2> QED BY <2>2, <2>3
<1>5. q = s.pq \ {u} /\ w = HeldWith(s, u)
  BY <1>2 DEF HeldWith
<1> HIDE DEF q, w
<1>6. [c EXCEPT !.pq = q, !.tramHold = w] \in Chare(p)
  BY <1>2, <1>4 DEF Chare
<1>7. /\ x \in Chare(p)
      /\ x.scale = c.scale /\ x.limit = c.limit /\ x.heap = c.heap /\ x.tram = c.tram
      /\ x.dist = c.dist /\ x.hold = c.hold /\ x.deferred = c.deferred
      /\ x.pq = q /\ x.tramHold = w
      /\ x.created = c.created /\ x.processed = c.processed
      /\ x.histogram = c.histogram
  BY <1>2, <1>3, <1>6 DEF Chare
<1> HIDE DEF x
<1>8. LET t == Retire(x, u) IN
         /\ t \in Chare(p)
         /\ SameRules(x, t) /\ t.dist = x.dist /\ t.deferred = x.deferred
         /\ t.pq = x.pq /\ t.hold = x.hold
         /\ t.processed = x.processed \cup {u}
         /\ t.histogram = RetiredCounts(x.histogram, x, u)
  BY <1>0, <1>7, RetireIs
<1>9. BucketAt(x, u) = BucketAt(s, u)
  BY <1>2, <1>7 DEF BucketAt
<1>10. RetiredCounts(x.histogram, x, u)
         = RetiredCounts(ChargedCounts(s, Relaxations(s, u)), s, u)
  BY <1>2, <1>7, <1>9 DEF RetiredCounts, sent
<1> QED BY <1>2, <1>5, <1>7, <1>8, <1>10 DEF Expanded, x, SameRules, c, sent

\* The chare after clear_pq_hold().
Admitted(s) == [s EXCEPT !.pq = @ \cup UpTo(s.hold, s.heap),
                         !.hold = Cleared(@, s.heap)]

LEMMA AdmittedIs ==
  ASSUME NEW p, NEW s \in Chare(p)
  PROVE  LET t == Admitted(s) IN
         /\ t \in Chare(p) /\ SameRules(s, t)
         /\ t.dist = s.dist /\ t.deferred = s.deferred
         /\ t.processed = s.processed /\ t.histogram = s.histogram
         /\ t.pq = s.pq \cup UpTo(s.hold, s.heap)
         /\ t.hold = Cleared(s.hold, s.heap)
<1> DEFINE q == s.pq \cup UpTo(s.hold, s.heap)
           h == Cleared(s.hold, s.heap)
<1>1. s.hold \in [Bucket -> SUBSET Mine(p)] /\ s.pq \in SUBSET Mine(p)
  BY DEF Chare
<1>2. h \in [Bucket -> SUBSET Mine(p)] /\ q \in SUBSET Mine(p)
  BY <1>1, ClearedIs
<1>3. Admitted(s) = [s EXCEPT !.pq = q, !.hold = h]
  BY DEF Admitted, Chare
<1>4. q = s.pq \cup UpTo(s.hold, s.heap) /\ h = Cleared(s.hold, s.heap)
  OBVIOUS
<1> HIDE DEF q, h
<1>5. [s EXCEPT !.pq = q, !.hold = h] \in Chare(p)
  BY <1>2 DEF Chare
<1>6. LET t == Admitted(s) IN
         /\ SameRules(s, t)
         /\ t.dist = s.dist /\ t.deferred = s.deferred
         /\ t.processed = s.processed /\ t.histogram = s.histogram
         /\ t.pq = q /\ t.hold = h
  BY <1>3 DEF Chare, SameRules
<1> QED BY <1>3, <1>4, <1>5, <1>6

-----------------------------------------------------------------------------
(* Typing *)

ChareOK(p, s) == s \in Chare(p) /\ Fits(s.scale, s.limit) /\ IsFiniteSet(s.created)

Chares(f) == f = [p \in PE |-> f[p]] /\ \A p \in PE : ChareOK(p, f[p])

Counters == [PE -> SUBSET Update]
ReductionType ==
  [window : [Slot -> Int], clamped : Int, created : Counters, processed : Counters]
MainType ==
  [origin : Bucket, scale : Nat \ {0}, stalled : Nat, extendWait : Nat, done : BOOLEAN,
   created : SUBSET Update, processed : SUBSET Update]

\* The window's slots past the last bucket are empty, also in the first round,
\* which starts one bucket above Main's origin.
InWindow ==
  /\ main.origin <= round.behind + 1
  /\ \A i \in Slot : reduction.window[i] # 0 => round.behind + 1 + i \in Bucket

\* TypeOK with what makes it inductive.
Typed ==
  /\ Chares(pe) /\ net \subseteq Update
  /\ clearing \subseteq PE /\ waiting \subseteq PE
  /\ round \in RoundType /\ reduction \in ReductionType /\ main \in MainType
  /\ atRound \in [created : Counters, processed : Counters]
  /\ InWindow

LEMMA OneChare ==
  ASSUME NEW f, Chares(f), NEW p \in PE, NEW s, ChareOK(p, s)
  PROVE  /\ Chares([f EXCEPT ![p] = s])
         /\ [f EXCEPT ![p] = s][p] = s
         /\ \A q \in PE : q # p => [f EXCEPT ![p] = s][q] = f[q]
BY DEF Chares

\* What a step has to keep for a chare to be well formed.
LEMMA ChareKeeps ==
  ASSUME NEW p, NEW s, ChareOK(p, s), NEW t \in Chare(p), SameRules(s, t)
  PROVE  ChareOK(p, t)
BY DEF ChareOK, SameRules

LEMMA TypedInit == Init => Typed
<1> SUFFICES ASSUME Init PROVE Typed
  OBVIOUS
<1>1. ASSUME NEW p \in PE PROVE ChareOK(p, NewPE(p))
  <2> DEFINE s == NewPE(p)
             dist == [v \in {w \in Vertex : Owner[w] = p} |-> Lmax]
  <2>1. InitialThreshold \in Bucket /\ InitialThreshold + 2 \in Bucket
    BY AcicAssumption, BucketAssumption DEF Bucket, Top
  <2>2. dist \in [{v \in Vertex : Owner[v] = p} -> Distance]
    BY GraphAssumption DEF Distance
  <2>3. NoCounts \in [Bucket -> Int] /\ NoLists \in [Bucket -> SUBSET Mine(p)]
        /\ NoLists \in [Bucket -> SUBSET Update]
    BY DEF NoCounts, NoLists
  <2>4. <<>> \in Seq(Mine(p))
    OBVIOUS
  <2>5. B \in Nat \ {0} /\ Fits(1, B)
    BY BucketAssumption DEF Fits
  <2>6. /\ s.dist = dist /\ s.created = {} /\ s.scale = 1 /\ s.limit = B
    BY DEF NewPE
  <2>7. s \in Chare(p)
    <3> HIDE DEF dist
    <3>1. s = [dist |-> dist, histogram |-> NoCounts, created |-> {}, processed |-> {},
               scale |-> 1, limit |-> B,
               heap |-> InitialThreshold, tram |-> InitialThreshold + 2,
               pq |-> {}, hold |-> NoLists, deferred |-> <<>>, tramHold |-> NoLists]
      BY DEF NewPE, dist
    <3> HIDE DEF s
    <3> QED BY <2>1, <2>2, <2>3, <2>4, <2>5, <3>1 DEF Chare
  <2> QED BY <2>5, <2>6, <2>7, FS_EmptySet DEF ChareOK
<1>2. Chares(pe)
  <2>1. pe = [p \in PE |-> NewPE(p)]
    BY DEF Init
  <2> QED BY <1>1, <2>1 DEF Chares
<1>3. Nothing \in Counters
  BY DEF Nothing, Counters
<1>4. round \in RoundType
  BY BucketType DEF Init, FirstRound, RoundType
<1>5. reduction \in ReductionType
  BY <1>3 DEF Init, NoReduction, ReductionType
<1>6. main \in MainType
  BY BucketType DEF Init, MainType
<1>7. InWindow
  BY DEF Init, InWindow, FirstRound, NoReduction
<1>8. atRound \in [created : Counters, processed : Counters]
  BY <1>3 DEF Init
<1> QED BY <1>2, <1>4, <1>5, <1>6, <1>7, <1>8 DEF Init, Typed

LEMMA SourceMine ==
  ASSUME NEW p, NEW s \in Chare(p), p = Owner[Source]
  PROVE  Charged(s, [via |-> NoEdge, to |-> Source, d |-> 0, ovf |-> FALSE]) \in Mine(p)
<1> DEFINE u == [via |-> NoEdge, to |-> Source, d |-> 0, ovf |-> FALSE]
<1>1. u \in Update
  BY SourceAssumption DEF Update
<1>2. Charged(s, u) \in Update
  BY <1>1, ChargedType
<1>3. Charged(s, u).to = Source
  BY DEF Charged
<1> QED BY <1>2, <1>3 DEF Mine

\* Main's part of a state.
MainFrame == UNCHANGED <<round, main, atRound>>

LEMMA TypedChare ==
  ASSUME Typed, NEW p \in PE, NEW s, ChareOK(p, s), pe' = [pe EXCEPT ![p] = s],
         net' \subseteq Update, clearing' \subseteq PE,
         UNCHANGED <<waiting, round, reduction, main, atRound>>
  PROVE  Typed'
BY OneChare DEF Typed, InWindow

LEMMA ContributeType ==
  ASSUME Typed, NEW p \in PE, NEW s, ChareOK(p, s), Contribute(p, s), MainFrame
  PROVE  /\ waiting' \subseteq PE
         /\ reduction' \in ReductionType
         /\ InWindow'
<1> DEFINE w == [i \in Slot |-> reduction.window[i] + Contribution(s, round.behind, i)]
           c == [reduction.created EXCEPT ![p] = s.created]
           q == [reduction.processed EXCEPT ![p] = s.processed]
           k == reduction.clamped + s.histogram[Top]
<1>1. s.histogram \in [Bucket -> Int] /\ s.created \in SUBSET Update /\ s.processed \in SUBSET Update
  BY DEF ChareOK, Chare
<1>2. reduction.window \in [Slot -> Int] /\ reduction.clamped \in Int
      /\ reduction.created \in Counters /\ reduction.processed \in Counters
  BY DEF Typed, ReductionType
<1>3. \A i \in Slot : /\ Contribution(s, round.behind, i) \in Int
                      /\ Contribution(s, round.behind, i) # 0 => round.behind + 1 + i \in Bucket
  BY <1>1 DEF Contribution
<1>4. w \in [Slot -> Int]
  BY <1>2, <1>3
<1>5. c \in Counters /\ q \in Counters
  BY <1>1, <1>2 DEF Counters
<1>6. k \in Int
  BY <1>1, <1>2, BucketType
<1>7. \A i \in Slot : w[i] # 0 => round.behind + 1 + i \in Bucket
  <2> SUFFICES ASSUME NEW i \in Slot, w[i] # 0 PROVE round.behind + 1 + i \in Bucket
    OBVIOUS
  <2>1. reduction.window[i] # 0 \/ Contribution(s, round.behind, i) # 0
    BY <1>2, <1>3
  <2> QED BY <1>3, <2>1 DEF Typed, InWindow
<1>8. reduction' = [window |-> w, clamped |-> k, created |-> c, processed |-> q]
      /\ waiting' = waiting \ {p}
  BY DEF Contribute
<1> HIDE DEF w, c, q, k
<1>9. reduction' \in ReductionType /\ reduction'.window = w
  BY <1>4, <1>5, <1>6, <1>8 DEF ReductionType
<1>10. InWindow'
  BY <1>7, <1>9 DEF InWindow, MainFrame, Typed
<1> QED BY <1>8, <1>9, <1>10 DEF Typed

LEMMA ProductPositive ==
  ASSUME NEW a \in Nat \ {0}, NEW b \in Nat \ {0}
  PROVE  a * b \in Nat \ {0}
OBVIOUS

LEMMA NextRoundType ==
  ASSUME Typed, NextRound
  PROVE  Typed'
<1> DEFINE extend == Extension(Sums, main.scale, Cardinality(main.created),
                               Cardinality(Flagged(main.created)), main.extendWait)
           band == Coarsening(Sums, main.origin)
           k == IF extend /\ band < 2 THEN 2 ELSE band
           first == FirstNonzero(Sums, main.origin)
           origin == Rescaled(first, k)
           heap == Rescaled(HeapThreshold(Sums, main.origin, Stalled), k)
           tram == Rescaled(TramThreshold(Sums, main.origin, Stalled), k)
           stalled == IF Rescue(Sums, Stalled) THEN 0 ELSE Stalled
           wait == IF extend THEN 1 ELSE Max({main.extendWait - 1, 0})
           c == All(reduction.created)
           q == All(reduction.processed)
<1>1. /\ reduction.window \in [Slot -> Int]
      /\ reduction.created \in Counters /\ reduction.processed \in Counters
      /\ main.origin \in Bucket /\ main.stalled \in Nat /\ main.extendWait \in Nat
      /\ main.done \in BOOLEAN /\ main.scale \in Nat \ {0}
      /\ round.behind \in Int
  BY DEF Typed, ReductionType, MainType, RoundType
<1>2. Sums.window = reduction.window
  BY DEF Sums
<1>3. extend \in BOOLEAN
  BY DEF Extension
<1>4. band \in Nat \ {0}
  BY <1>1, <1>2, CoarseningType
<1> HIDE DEF extend, band
<1>5. k \in Nat \ {0}
  BY <1>4
<1>6. \A i \in Slot : Sums.window[i] # 0 => i + main.origin <= Top
  <2> SUFFICES ASSUME NEW i \in Slot, reduction.window[i] # 0 PROVE i + main.origin <= Top
    BY <1>2
  <2>1. round.behind + 1 + i \in Bucket /\ main.origin <= round.behind + 1
    BY DEF Typed, InWindow
  <2>2. main.origin \in Nat /\ i \in Nat /\ Top \in Nat
    BY <1>1, BucketType, SlotType
  <2>3. round.behind + 1 + i <= Top
    BY <2>1 DEF Bucket
  <2> QED BY <1>1, <2>1, <2>2, <2>3
<1>7. first \in Bucket
  BY <1>1, <1>2, <1>6, FirstNonzeroType
<1> HIDE DEF first, k
<1>8. origin \in Bucket
  BY <1>5, <1>7, RescaledType
<1>9. heap \in Bucket /\ tram \in Bucket
  BY <1>1, <1>5, ThresholdType, RescaledType
<1>10. stalled \in Nat
  <2> DEFINE x == main.stalled + 1
  <2>1. x \in Nat /\ x \in Int /\ StallRescueRounds \in Nat /\ StallRescueRounds \in Int
    BY <1>1, ControllerAssumption
  <2> HIDE DEF x
  <2>2. Min({x, StallRescueRounds}) \in {x, StallRescueRounds}
    BY <2>1, MinOfTwo
  <2>3. Min({x, StallRescueRounds}) \in Nat
    BY <2>1, <2>2
  <2> QED BY <2>3 DEF Stalled, x
<1>11. wait \in Nat
  <2> DEFINE x == main.extendWait - 1
  <2>1. x \in Int
    BY <1>1
  <2> HIDE DEF x
  <2>2. Max({x, 0}) \in {x, 0} /\ Max({x, 0}) >= 0
    BY <2>1, MaxOfTwo
  <2>3. Max({x, 0}) \in Nat
    BY <2>1, <2>2
  <2> QED BY <2>3 DEF x
<1>12. c \in SUBSET Update /\ q \in SUBSET Update
  BY <1>1 DEF All, Counters
<1>13. Nothing \in Counters
  BY DEF Nothing, Counters
<1>14. /\ round' = [first |-> FALSE, heap |-> heap, tram |-> tram,
                    behind |-> origin - 1, coarsen |-> k, extend |-> extend]
       /\ main' = [main EXCEPT !.origin = origin, !.scale = main.scale * k, !.stalled = stalled,
                               !.extendWait = wait, !.created = c, !.processed = q]
       /\ waiting' = PE
       /\ reduction' = NoReduction
       /\ atRound' = [created |-> [p \in PE |-> pe[p].created],
                      processed |-> [p \in PE |-> pe[p].processed]]
       /\ UNCHANGED <<pe, net, clearing>>
  BY DEF NextRound, extend, band, k, first, Typed, MainType
<1> HIDE DEF origin, heap, tram, stalled, wait, c, q
<1>15. round' \in RoundType /\ round'.behind = origin - 1
  <2>1. origin - 1 \in Int
    BY <1>8, BucketType
  <2> DEFINE b == origin - 1
  <2> HIDE DEF b
  <2> QED BY <1>3, <1>5, <1>9, <1>14, <2>1 DEF RoundType, b
<1>16. main' \in MainType /\ main'.origin = origin
  <2>1. main.scale * k \in Nat \ {0}
    BY <1>1, <1>5, ProductPositive
  <2> DEFINE scaled == main.scale * k
  <2> HIDE DEF scaled
  <2> QED BY <1>1, <1>8, <1>10, <1>11, <1>12, <1>14, <2>1 DEF MainType, Typed, scaled
<1>17. reduction' \in ReductionType
  BY <1>13, <1>14 DEF NoReduction, ReductionType
<1>18. InWindow'
  BY <1>8, <1>14, <1>15, <1>16, BucketType DEF InWindow, NoReduction
<1>19. \A p \in PE : pe[p].created \in SUBSET Update /\ pe[p].processed \in SUBSET Update
  BY DEF Typed, Chares, ChareOK, Chare
<1>20. atRound' \in [created : Counters, processed : Counters]
  BY <1>14, <1>19 DEF Counters
<1> QED BY <1>14, <1>15, <1>16, <1>17, <1>18, <1>20 DEF Typed

LEMMA ProcessUpdateOK ==
  ASSUME NEW p, NEW s, ChareOK(p, s), NEW u \in Mine(p)
  PROVE  ChareOK(p, ProcessUpdate(s, u))
<1>1. s \in Chare(p)
  BY DEF ChareOK
<1>2. ProcessUpdate(s, u) \in Chare(p) /\ SameRules(s, ProcessUpdate(s, u))
  BY <1>1, ProcessUpdateIs
<1> QED BY <1>2, ChareKeeps

LEMMA RetireOK ==
  ASSUME NEW p, NEW s, ChareOK(p, s), NEW u \in Update
  PROVE  ChareOK(p, Retire(s, u))
<1>1. s \in Chare(p)
  BY DEF ChareOK
<1>2. Retire(s, u) \in Chare(p) /\ SameRules(s, Retire(s, u))
  BY <1>1, RetireIs
<1> QED BY <1>2, ChareKeeps

LEMMA ChargeOK ==
  ASSUME NEW p, NEW s, ChareOK(p, s), NEW us \in SUBSET Update, IsFiniteSet(us)
  PROVE  ChareOK(p, Charge(s, us))
<1>1. s \in Chare(p) /\ IsFiniteSet(s.created) /\ Fits(s.scale, s.limit)
  BY DEF ChareOK
<1>2. LET t == Charge(s, us) IN
      t \in Chare(p) /\ t.scale = s.scale /\ t.limit = s.limit /\ t.created = s.created \cup us
  BY <1>1, ChargeIs
<1>3. IsFiniteSet(s.created \cup us)
  BY <1>1, FS_Union
<1> QED BY <1>1, <1>2, <1>3 DEF ChareOK

LEMMA ExpandedOK ==
  ASSUME NEW p, NEW s, ChareOK(p, s), NEW u \in s.pq
  PROVE  ChareOK(p, Expanded(s, u))
<1>1. s \in Chare(p) /\ IsFiniteSet(s.created) /\ Fits(s.scale, s.limit)
  BY DEF ChareOK
<1>2. u \in Update
  BY <1>1 DEF Chare, Mine
<1>3. LET t == Expanded(s, u) IN
      /\ t \in Chare(p) /\ t.scale = s.scale /\ t.limit = s.limit
      /\ t.created = s.created \cup Relaxations(s, u)
  BY <1>1, ExpandedIs
<1>4. IsFiniteSet(s.created \cup Relaxations(s, u))
  BY <1>1, <1>2, RelaxationsIs, FS_Union
<1> QED BY <1>1, <1>3, <1>4 DEF ChareOK

LEMMA AdmittedOK ==
  ASSUME NEW p, NEW s, ChareOK(p, s)
  PROVE  ChareOK(p, Admitted(s))
<1>1. s \in Chare(p)
  BY DEF ChareOK
<1>2. Admitted(s) \in Chare(p) /\ SameRules(s, Admitted(s))
  BY <1>1, AdmittedIs
<1> QED BY <1>2, ChareKeeps

LEMMA TakeUpOK ==
  ASSUME NEW p, NEW s, ChareOK(p, s), NEW r \in RoundType
  PROVE  ChareOK(p, TakeUp(s, r)) /\ Released(s, r) \in SUBSET Update
<1>1. s \in Chare(p) /\ IsFiniteSet(s.created) /\ Fits(s.scale, s.limit)
  BY DEF ChareOK
<1>2. LET t == TakeUp(s, r) IN
      t \in Chare(p) /\ Fits(t.scale, t.limit) /\ t.created = s.created
  BY <1>1, TakeUpIs
<1>3. Released(s, r) = UpTo(Merged(s, r).tramHold, r.tram) /\ Merged(s, r) \in Chare(p)
  BY <1>1, TakeUpIs, MergedIs
<1>4. Merged(s, r).tramHold \in [Bucket -> SUBSET Update]
  BY <1>3 DEF Chare
<1> QED BY <1>1, <1>2, <1>3, <1>4, ClearedIs DEF ChareOK

\* The chare and the net after a step of a PE's that is not a contribution.
Unchanged == UNCHANGED <<waiting, round, reduction, main, atRound>>

LEMMA StartIs ==
  ASSUME Typed, NEW p \in PE, Start(p)
  PROVE  \E u \in Mine(p) :
           /\ u = Charged(pe[p], [via |-> NoEdge, to |-> Source, d |-> 0, ovf |-> FALSE])
           /\ u.via = NoEdge /\ u.to = Source /\ u.d = 0
           /\ pe[p].created = {} /\ p = Owner[Source]
           /\ ChareOK(p, Charge(pe[p], {u}))
           /\ ChareOK(p, ProcessUpdate(Charge(pe[p], {u}), u))
           /\ pe' = [pe EXCEPT ![p] = ProcessUpdate(Charge(pe[p], {u}), u)]
           /\ net' = net /\ clearing' = clearing /\ Unchanged
<1> DEFINE u == Charged(pe[p], [via |-> NoEdge, to |-> Source, d |-> 0, ovf |-> FALSE])
<1>1. ChareOK(p, pe[p]) /\ pe[p] \in Chare(p) /\ p = Owner[Source]
  BY DEF Typed, Chares, ChareOK, Start
<1>2. u \in Mine(p)
  BY <1>1, SourceMine
<1>3. u.via = NoEdge /\ u.to = Source /\ u.d = 0
  BY DEF Charged
<1>4. /\ pe' = [pe EXCEPT ![p] = ProcessUpdate(Charge(pe[p], {u}), u)]
      /\ pe[p].created = {}
      /\ net' = net /\ clearing' = clearing /\ Unchanged
  BY DEF Start, Unchanged
<1> HIDE DEF u
<1>5. {u} \in SUBSET Update /\ IsFiniteSet({u})
  BY <1>2, FS_Singleton DEF Mine
<1>6. ChareOK(p, Charge(pe[p], {u}))
  BY <1>1, <1>5, ChargeOK
<1>7. ChareOK(p, ProcessUpdate(Charge(pe[p], {u}), u))
  BY <1>2, <1>6, ProcessUpdateOK
<1> QED BY <1>1, <1>2, <1>3, <1>4, <1>6, <1>7 DEF u

LEMMA HeapIs ==
  ASSUME Typed, NEW p \in PE, ProcessHeap(p)
  PROVE  \E u \in pe[p].pq :
           /\ ChareOK(p, Expanded(pe[p], u))
           /\ pe' = [pe EXCEPT ![p] = Expanded(pe[p], u)]
           /\ net' = net \cup {k \in Relaxations(pe[p], u) : BucketAt(pe[p], k) <= pe[p].tram}
           /\ clearing' = clearing /\ Unchanged
<1>1. PICK u \in pe[p].pq :
        /\ pe' = [pe EXCEPT ![p] = Expanded(pe[p], u)]
        /\ net' = net \cup {k \in Relaxations(pe[p], u) : BucketAt(pe[p], k) <= pe[p].tram}
  BY DEF ProcessHeap, Expanded, Relaxed, Held
<1>2. ChareOK(p, pe[p])
  BY DEF Typed, Chares
<1>3. ChareOK(p, Expanded(pe[p], u))
  BY <1>2, ExpandedOK
<1> QED BY <1>1, <1>3 DEF ProcessHeap, Unchanged

LEMMA ClearIs ==
  ASSUME Typed, NEW p \in PE, ClearPqHold(p)
  PROVE  /\ ChareOK(p, Admitted(pe[p]))
         /\ pe' = [pe EXCEPT ![p] = Admitted(pe[p])]
         /\ net' = net /\ clearing' = clearing \ {p} /\ Unchanged
<1>1. ChareOK(p, pe[p])
  BY DEF Typed, Chares
<1>2. ChareOK(p, Admitted(pe[p]))
  BY <1>1, AdmittedOK
<1>3. pe' = [pe EXCEPT ![p] = Admitted(pe[p])]
  BY DEF ClearPqHold, Admitted, Typed, Chares
<1> QED BY <1>2, <1>3 DEF ClearPqHold, Unchanged

LEMMA DeliverIs ==
  ASSUME Typed, NEW p \in PE, Deliver(p)
  PROVE  \E u \in net :
           /\ u \in Mine(p)
           /\ ChareOK(p, ProcessUpdate(pe[p], u))
           /\ pe' = [pe EXCEPT ![p] = ProcessUpdate(pe[p], u)]
           /\ net' = net \ {u} /\ clearing' = clearing /\ Unchanged
<1>1. PICK u \in net : /\ Owner[u.to] = p
                       /\ pe' = [pe EXCEPT ![p] = ProcessUpdate(pe[p], u)]
                       /\ net' = net \ {u}
  BY DEF Deliver
<1>2. u \in Mine(p) /\ ChareOK(p, pe[p])
  BY <1>1 DEF Typed, Chares, Mine
<1>3. ChareOK(p, ProcessUpdate(pe[p], u))
  BY <1>2, ProcessUpdateOK
<1> QED BY <1>1, <1>2, <1>3 DEF Deliver, Unchanged

\* Of two updates for one vertex, one is applied and the other applied first
\* or retired.
LEMMA FoldIs ==
  ASSUME Typed, NEW p \in PE, FoldBatch(p)
  PROVE  \E x, y, s :
           /\ x \in net /\ y \in net
           /\ x # y /\ x \in Mine(p) /\ y \in Mine(p) /\ x.to = y.to
           /\ \/ s = ProcessUpdate(pe[p], x)
              \/ s = Retire(pe[p], x) /\ y.d <= x.d /\ BatchFold
           /\ ChareOK(p, s) /\ ChareOK(p, ProcessUpdate(s, y))
           /\ pe' = [pe EXCEPT ![p] = ProcessUpdate(s, y)]
           /\ net' = net \ {x, y} /\ clearing' = clearing /\ Unchanged
<1> DEFINE Waits(x) == CreatedBeyondMyClamp(pe[p], x)
<1>1. PICK u \in net, w \in net :
        LET winner == Winner(u, w)
            loser == IF winner = u THEN w ELSE u
        IN  /\ u # w /\ Owner[u.to] = p /\ w.to = u.to
            /\ pe' = [pe EXCEPT ![p] =
                        IF Waits(u) \/ Waits(w)
                        THEN ProcessUpdate(ProcessUpdate(pe[p], u), w)
                        ELSE ProcessUpdate(Retire(pe[p], loser), winner)]
            /\ net' = net \ {u, w}
  BY DEF FoldBatch
<1>2. u \in Mine(p) /\ w \in Mine(p) /\ ChareOK(p, pe[p])
  BY <1>1 DEF Typed, Chares, Mine
<1>3. u.d \in Nat /\ w.d \in Nat
  BY DEF Typed, Update
<1>4. clearing' = clearing /\ Unchanged /\ BatchFold
  BY DEF FoldBatch, Unchanged
<1>5. CASE Waits(u) \/ Waits(w)
  <2> DEFINE s == ProcessUpdate(pe[p], u)
  <2>1. ChareOK(p, s)
    BY <1>2, ProcessUpdateOK
  <2>2. pe' = [pe EXCEPT ![p] = ProcessUpdate(s, w)]
    BY <1>1, <1>5
  <2>3. s = ProcessUpdate(pe[p], u)
    OBVIOUS
  <2> HIDE DEF s
  <2>4. ChareOK(p, ProcessUpdate(s, w))
    BY <1>2, <2>1, ProcessUpdateOK
  <2> QED BY <1>1, <1>2, <1>4, <2>1, <2>2, <2>3, <2>4
<1>6. CASE ~(Waits(u) \/ Waits(w))
  <2> DEFINE y == Winner(u, w)
             x == IF y = u THEN w ELSE u
             s == Retire(pe[p], x)
  <2>1. /\ x \in net /\ y \in net /\ x # y /\ x \in Mine(p) /\ y \in Mine(p)
        /\ x.to = y.to /\ y.d <= x.d /\ {x, y} = {u, w}
    BY <1>1, <1>2, <1>3 DEF Winner
  <2>2. pe' = [pe EXCEPT ![p] = ProcessUpdate(s, y)] /\ s = Retire(pe[p], x)
    BY <1>1, <1>6
  <2> HIDE DEF x, y
  <2>3. ChareOK(p, s)
    BY <1>2, <2>1, RetireOK DEF Mine
  <2> HIDE DEF s
  <2>4. ChareOK(p, ProcessUpdate(s, y))
    BY <2>1, <2>3, ProcessUpdateOK
  <2> QED BY <1>1, <1>4, <2>1, <2>2, <2>3, <2>4
<1> QED BY <1>5, <1>6

LEMMA ThresholdsIs ==
  ASSUME Typed, NEW p \in PE, CurrentThresholds(p)
  PROVE  LET s == TakeUp(pe[p], round) IN
         /\ p \in waiting /\ ~round.first
         /\ ChareOK(p, s) /\ Released(pe[p], round) \in SUBSET Update
         /\ pe' = [pe EXCEPT ![p] = s]
         /\ net' = net \cup Released(pe[p], round)
         /\ clearing' = clearing \cup {p}
         /\ Contribute(p, s) /\ MainFrame
<1>1. ChareOK(p, pe[p]) /\ round \in RoundType
  BY DEF Typed, Chares
<1> QED BY <1>1, TakeUpOK DEF CurrentThresholds, MainFrame

LEMMA TypedStep == Typed /\ [Next]_vars => Typed'
<1> SUFFICES ASSUME Typed, [Next]_vars PROVE Typed'
  OBVIOUS
<1>1. ASSUME NEW p \in PE, Start(p) PROVE Typed'
  BY <1>1, StartIs, TypedChare DEF Typed, Unchanged
<1>2. ASSUME NEW p \in PE, Deliver(p) PROVE Typed'
  <2>1. PICK u \in net :
           /\ ChareOK(p, ProcessUpdate(pe[p], u))
           /\ pe' = [pe EXCEPT ![p] = ProcessUpdate(pe[p], u)]
           /\ net' = net \ {u} /\ clearing' = clearing /\ Unchanged
    BY <1>2, DeliverIs
  <2> QED BY <2>1, TypedChare DEF Typed, Unchanged
<1>3. ASSUME NEW p \in PE, FoldBatch(p) PROVE Typed'
  <2>1. \E s : ChareOK(p, s) /\ pe' = [pe EXCEPT ![p] = s] /\ net' \subseteq net
               /\ clearing' = clearing /\ Unchanged
    BY <1>3, FoldIs
  <2> QED BY <2>1, TypedChare DEF Typed, Unchanged
<1>4. ASSUME NEW p \in PE, ProcessHeap(p) PROVE Typed'
  <2>1. PICK u \in pe[p].pq :
           /\ ChareOK(p, Expanded(pe[p], u))
           /\ pe' = [pe EXCEPT ![p] = Expanded(pe[p], u)]
           /\ net' = net \cup {k \in Relaxations(pe[p], u) : BucketAt(pe[p], k) <= pe[p].tram}
           /\ clearing' = clearing /\ Unchanged
    BY <1>4, HeapIs
  <2>2. pe[p] \in Chare(p) /\ u \in Update
    BY DEF Typed, Chares, ChareOK, Chare, Mine
  <2>3. net' \subseteq Update
    BY <2>1, <2>2, RelaxationsIs DEF Typed
  <2> QED BY <2>1, <2>3, TypedChare DEF Typed, Unchanged
<1>5. ASSUME NEW p \in PE, ClearPqHold(p) PROVE Typed'
  <2>1. clearing' \subseteq PE /\ net' \subseteq Update
    BY <1>5, ClearIs DEF Typed
  <2> QED BY <1>5, <2>1, ClearIs, TypedChare DEF Unchanged
<1>6. ASSUME NEW p \in PE, FirstContribution(p) PROVE Typed'
  <2>1. ChareOK(p, pe[p]) /\ Contribute(p, pe[p]) /\ MainFrame
    BY <1>6 DEF Typed, Chares, FirstContribution, MainFrame
  <2>2. waiting' \subseteq PE /\ reduction' \in ReductionType /\ InWindow'
    BY <2>1, ContributeType
  <2> QED BY <1>6, <2>2 DEF FirstContribution, Typed
<1>7. ASSUME NEW p \in PE, CurrentThresholds(p) PROVE Typed'
  <2> DEFINE s == TakeUp(pe[p], round)
  <2>1. /\ ChareOK(p, s) /\ Released(pe[p], round) \in SUBSET Update
        /\ pe' = [pe EXCEPT ![p] = s]
        /\ net' = net \cup Released(pe[p], round)
        /\ clearing' = clearing \cup {p}
        /\ Contribute(p, s) /\ MainFrame
    BY <1>7, ThresholdsIs
  <2> HIDE DEF s
  <2>2. waiting' \subseteq PE /\ reduction' \in ReductionType /\ InWindow'
    BY <2>1, ContributeType
  <2>3. Chares(pe')
    BY <2>1, OneChare DEF Typed
  <2> QED BY <2>1, <2>2, <2>3 DEF Typed, MainFrame
<1>8. CASE Finish
  <2>1. main' \in MainType /\ main'.origin = main.origin
    BY <1>8 DEF Finish, Typed, MainType
  <2> QED BY <1>8, <2>1 DEF Finish, Typed, InWindow
<1>9. CASE NextRound
  BY <1>9, NextRoundType
<1>10. CASE UNCHANGED vars
  BY <1>10 DEF vars, Typed, InWindow
<1> QED BY <1>1, <1>2, <1>3, <1>4, <1>5, <1>6, <1>7, <1>8, <1>9, <1>10 DEF Next

LEMMA TypedAlways == Spec => []Typed
  BY TypedInit, TypedStep, PTL DEF Spec

LEMMA TypedTypeOK == Typed => TypeOK
<1> SUFFICES ASSUME Typed PROVE TypeOK
  OBVIOUS
<1>1. ASSUME NEW p \in PE
      PROVE  LET s == pe[p] IN
             /\ s.dist \in [{v \in Vertex : Owner[v] = p} -> Distance]
             /\ s.histogram \in [Bucket -> Int]
             /\ s.created \subseteq Update /\ s.processed \subseteq Update
             /\ s.scale \in Nat \ {0} /\ s.limit \in Nat \ {0}
             /\ s.heap \in Bucket /\ s.tram \in Bucket
             /\ s.hold \in [Bucket -> SUBSET Update]
             /\ s.tramHold \in [Bucket -> SUBSET Update]
             /\ s.pq \subseteq Update /\ ToSet(s.deferred) \subseteq Update
  <2>1. pe[p] \in Chare(p)
    BY DEF Typed, Chares, ChareOK
  <2>2. Mine(p) \subseteq Update
    BY DEF Mine
  <2>3. pe[p].deferred \in Seq(Mine(p)) /\ pe[p].hold \in [Bucket -> SUBSET Mine(p)]
    BY <2>1 DEF Chare
  <2>4. ToSet(pe[p].deferred) \subseteq Mine(p)
    <3> DEFINE q == pe[p].deferred
    <3> HIDE DEF q
    <3>1. q \in Seq(Mine(p)) => ToSet(q) \subseteq Mine(p)
      BY DEF ToSet
    <3> QED BY <2>3, <3>1 DEF q
  <2>5. pe[p].hold \in [Bucket -> SUBSET Update]
    BY <2>2, <2>3
  <2> QED BY <2>1, <2>2, <2>4, <2>5 DEF Chare
<1> QED BY <1>1 DEF TypeOK, Typed, MainType, RoundType

\* Every state is well typed, whatever the options: no index of the histogram
\* or of a hold is out of range, no threshold and no window leaves the buckets,
\* through merges, extensions, rescues and a window that follows the work.
THEOREM TypeCorrect == Spec => []TypeOK
  BY TypedAlways, TypedTypeOK, PTL

-----------------------------------------------------------------------------
(* The updates of a run, wherever they are: d the distances, n the updates   *)
(* that travel, q those queued, c those created and x those processed.       *)

IsSourceUpdate(y) == y.via = NoEdge /\ y.to = Source /\ y.d = 0

\* An update is the source's or the relaxation of an edge whose tail has had
\* the distance it was relaxed from.
Shaped(d, c) ==
  \A y \in c :
    \/ IsSourceUpdate(y)
    \/ y.via \in Edge /\ y.to = To[y.via] /\ d[From[y.via]] + Weight[y.via] <= y.d

\* A queued update was its vertex's distance once, and is the only one with it.
Single(d, q) ==
  \A u \in q : /\ d[u.to] <= u.d
               /\ \A y \in q : y.to = u.to /\ y.d = u.d => y = u

\* While a queued update is current, nothing has been relaxed from its distance.
Fresh(d, q, c) ==
  \A u \in q : u.d = d[u.to] =>
    \A y \in c : y.via \in Edge /\ From[y.via] = u.to => u.d + Weight[y.via] < y.d

\* Nothing is ever below the shortest distances.
Bounded(d, c) ==
  \A g \in Potential :
    /\ \A v \in Vertex : g[v] <= d[v]
    /\ \A y \in c : g[y.to] <= y.d

Beaten(d, n, v, k) == d[v] <= k \/ \E y \in n : y.to = v /\ y.d <= k

\* An edge that is not relaxed is owed a relaxation.
Owed(d, n, q) ==
  \A e \in Edge :
    \/ Beaten(d, n, To[e], d[From[e]] + Weight[e])
    \/ \E u \in q : u.to = From[e] /\ u.d = d[From[e]]

Accounted(n, q, c, x) ==
  n \cap q = {} /\ c = n \cup q \cup x /\ (n \cup q) \cap x = {}

Begun(d, n, c) == c # {} => Beaten(d, n, Source, 0)

View(d, n, q, c, x) ==
  /\ d \in [Vertex -> Nat] /\ c \subseteq Update
  /\ Accounted(n, q, c, x)
  /\ Shaped(d, c) /\ Single(d, q) /\ Fresh(d, q, c)
  /\ Bounded(d, c) /\ Owed(d, n, q) /\ Begun(d, n, c)

\* The numbers in it.
LEMMA ViewTypes ==
  ASSUME NEW d, NEW n, NEW q, NEW c, NEW x, View(d, n, q, c, x)
  PROVE  /\ \A v \in Vertex : d[v] \in Nat
         /\ \A y \in c : y \in Update /\ y.to \in Vertex /\ y.d \in Nat
         /\ \A e \in Edge : From[e] \in Vertex /\ To[e] \in Vertex /\ Weight[e] \in Nat
         /\ n \subseteq c /\ q \subseteq c /\ x \subseteq c
<1>1. \A y \in Update : y.to \in Vertex /\ y.d \in Nat
  BY DEF Update
<1> QED BY <1>1, GraphAssumption DEF View, Accounted

\* An update is retired that is no better than what is known or still coming.
LEMMA ViewRetire ==
  ASSUME NEW d, NEW n, NEW q, NEW c, NEW x, View(d, n, q, c, x),
         NEW u \in n, Beaten(d, n \ {u}, u.to, u.d)
  PROVE  View(d, n \ {u}, q, c, x \cup {u})
<1> DEFINE m == n \ {u}
<1>1. /\ \A v \in Vertex : d[v] \in Nat
      /\ \A y \in c : y.to \in Vertex /\ y.d \in Nat
      /\ \A e \in Edge : From[e] \in Vertex /\ To[e] \in Vertex /\ Weight[e] \in Nat
      /\ n \subseteq c
  BY ViewTypes
<1>2. ASSUME NEW v \in Vertex, NEW k \in Nat, Beaten(d, n, v, k) PROVE Beaten(d, m, v, k)
  <2>1. CASE d[v] <= k
    BY <2>1 DEF Beaten
  <2>2. CASE \E y \in n : y.to = v /\ y.d <= k
    <3>1. PICK y \in n : y.to = v /\ y.d <= k
      BY <2>2
    <3>2. CASE y # u
      BY <3>1, <3>2 DEF Beaten
    <3>3. CASE y = u
      <4>1. u.d <= k /\ u.to = v /\ u.d \in Nat
        BY <1>1, <3>1, <3>3
      <4>2. CASE d[v] <= u.d
        <5>1. d[v] <= k
          BY <1>1, <4>1, <4>2
        <5> QED BY <5>1 DEF Beaten
      <4>3. CASE \E z \in m : z.to = v /\ z.d <= u.d
        <5>1. PICK z \in m : z.to = v /\ z.d <= u.d
          BY <4>3
        <5>2. z.d \in Nat
          BY <1>1
        <5>3. z.d <= k
          BY <4>1, <5>1, <5>2
        <5> QED BY <5>1, <5>3 DEF Beaten
      <4> QED BY <4>1, <4>2, <4>3 DEF Beaten
    <3> QED BY <3>2, <3>3
  <2> QED BY <1>2, <2>1, <2>2 DEF Beaten
<1>3. Owed(d, m, q)
  <2> SUFFICES ASSUME NEW e \in Edge
               PROVE  \/ Beaten(d, m, To[e], d[From[e]] + Weight[e])
                      \/ \E w \in q : w.to = From[e] /\ w.d = d[From[e]]
    BY DEF Owed
  <2>1. d[From[e]] + Weight[e] \in Nat
    BY <1>1
  <2> QED BY <1>1, <1>2, <2>1 DEF View, Owed
<1>4. Begun(d, m, c)
  BY <1>2, SourceAssumption DEF View, Begun
<1>5. Accounted(m, q, c, x \cup {u})
  BY DEF View, Accounted
<1> QED BY <1>3, <1>4, <1>5 DEF View

\* A better distance is taken over; the update waits to be expanded.
LEMMA ViewImprove ==
  ASSUME NEW d, NEW n, NEW q, NEW c, NEW x, View(d, n, q, c, x),
         NEW u \in n, u.d < d[u.to]
  PROVE  View([d EXCEPT ![u.to] = u.d], n \ {u}, q \cup {u}, c, x)
<1> DEFINE m == n \ {u}
           b == [d EXCEPT ![u.to] = u.d]
           w == q \cup {u}
<1>1. /\ \A v \in Vertex : d[v] \in Nat
      /\ \A y \in c : y.to \in Vertex /\ y.d \in Nat
      /\ \A e \in Edge : From[e] \in Vertex /\ To[e] \in Vertex /\ Weight[e] \in Nat
      /\ n \subseteq c /\ q \subseteq c /\ u \in c
  BY ViewTypes
<1>2. /\ b \in [Vertex -> Nat] /\ b[u.to] = u.d
      /\ \A v \in Vertex : v # u.to => b[v] = d[v]
      /\ \A v \in Vertex : b[v] \in Nat /\ b[v] <= d[v]
  <2>1. d \in [Vertex -> Nat] /\ u.to \in Vertex /\ u.d \in Nat /\ u.d < d[u.to]
    BY <1>1 DEF View
  <2> QED BY <2>1
<1> HIDE DEF b
<1>3. Shaped(b, c)
  <2> SUFFICES ASSUME NEW y \in c, ~IsSourceUpdate(y)
               PROVE  y.via \in Edge /\ y.to = To[y.via] /\ b[From[y.via]] + Weight[y.via] <= y.d
    BY DEF Shaped
  <2>1. y.via \in Edge /\ y.to = To[y.via] /\ d[From[y.via]] + Weight[y.via] <= y.d
    BY DEF View, Shaped
  <2>2. /\ d[From[y.via]] \in Nat /\ b[From[y.via]] \in Nat /\ b[From[y.via]] <= d[From[y.via]]
        /\ Weight[y.via] \in Nat /\ y.d \in Nat
    BY <1>1, <1>2, <2>1
  <2> QED BY <2>1, <2>2
<1>4. \A y \in q : y.to = u.to => u.d < y.d
  <2> SUFFICES ASSUME NEW y \in q, y.to = u.to PROVE u.d < y.d
    OBVIOUS
  <2>1. d[u.to] <= y.d /\ d[u.to] \in Nat /\ u.d \in Nat /\ y.d \in Nat
    BY <1>1 DEF View, Single
  <2> QED BY <2>1
<1>5. Single(b, w)
  <2>1. ASSUME NEW y \in w PROVE b[y.to] <= y.d
    <3>1. CASE y = u
      BY <1>1, <1>2, <3>1
    <3>2. CASE y \in q
      <4>1. d[y.to] <= y.d /\ y.to \in Vertex /\ y.d \in Nat
        BY <1>1, <3>2 DEF View, Single
      <4> QED BY <1>1, <1>2, <4>1
    <3> QED BY <3>1, <3>2
  <2>2. ASSUME NEW y \in w, NEW z \in w, z.to = y.to, z.d = y.d PROVE z = y
    <3>1. CASE y \in q /\ z \in q
      BY <2>2, <3>1 DEF View, Single
    <3>2. CASE y = u /\ z \in q
      <4>1. u.d < z.d /\ z.d = u.d /\ u.d \in Nat
        BY <1>1, <1>4, <2>2, <3>2
      <4> QED BY <4>1
    <3>3. CASE z = u /\ y \in q
      <4>1. u.d < y.d /\ y.d = u.d /\ u.d \in Nat
        BY <1>1, <1>4, <2>2, <3>3
      <4> QED BY <4>1
    <3> QED BY <3>1, <3>2, <3>3
  <2> QED BY <2>1, <2>2 DEF Single
<1>6. Fresh(b, w, c)
  <2> SUFFICES ASSUME NEW y \in w, y.d = b[y.to], NEW z \in c, z.via \in Edge, From[z.via] = y.to
               PROVE  y.d + Weight[z.via] < z.d
    BY DEF Fresh
  <2>0. Weight[z.via] \in Nat /\ z.d \in Nat /\ y.d \in Nat /\ y.to \in Vertex
    BY <1>1
  <2>1. CASE y = u
    <3>1. ~IsSourceUpdate(z)
      BY AcicAssumption DEF IsSourceUpdate
    <3>2. d[u.to] + Weight[z.via] <= z.d
      BY <2>1, <3>1 DEF View, Shaped
    <3>3. d[u.to] \in Nat /\ u.d < d[u.to]
      BY <1>1
    <3> QED BY <2>0, <2>1, <3>2, <3>3
  <2>2. CASE y # u
    <3>1. y \in q
      BY <2>2
    <3>2. y.to # u.to
      BY <1>1, <1>2, <1>4, <3>1, <2>0
    <3>3. y.d = d[y.to]
      BY <1>2, <2>0, <3>2
    <3> QED BY <3>1, <3>3 DEF View, Fresh
  <2> QED BY <2>1, <2>2
<1>7. Bounded(b, c)
  <2> SUFFICES ASSUME NEW g \in Potential, NEW v \in Vertex PROVE g[v] <= b[v]
    BY DEF View, Bounded
  <2>1. g[v] <= d[v] /\ g[u.to] <= u.d
    BY <1>1 DEF View, Bounded
  <2> QED BY <1>2, <2>1
<1>8. ASSUME NEW v \in Vertex, NEW k \in Nat, Beaten(d, n, v, k) PROVE Beaten(b, m, v, k)
  <2>1. CASE d[v] <= k
    <3>1. b[v] <= k
      BY <1>1, <1>2, <2>1
    <3> QED BY <3>1 DEF Beaten
  <2>2. CASE \E y \in n : y.to = v /\ y.d <= k
    <3>1. PICK y \in n : y.to = v /\ y.d <= k
      BY <2>2
    <3>2. CASE y # u
      BY <3>1, <3>2 DEF Beaten
    <3>3. CASE y = u
      BY <1>2, <3>1, <3>3 DEF Beaten
    <3> QED BY <3>2, <3>3
  <2> QED BY <1>8, <2>1, <2>2 DEF Beaten
<1>9. Owed(b, m, w)
  <2> SUFFICES ASSUME NEW e \in Edge
               PROVE  \/ Beaten(b, m, To[e], b[From[e]] + Weight[e])
                      \/ \E y \in w : y.to = From[e] /\ y.d = b[From[e]]
    BY DEF Owed
  <2>1. CASE From[e] = u.to
    BY <1>2, <2>1
  <2>2. CASE From[e] # u.to
    <3>1. b[From[e]] = d[From[e]] /\ d[From[e]] + Weight[e] \in Nat
      BY <1>1, <1>2, <2>2
    <3>2. Beaten(d, n, To[e], d[From[e]] + Weight[e])
          \/ \E y \in q : y.to = From[e] /\ y.d = d[From[e]]
      BY DEF View, Owed
    <3> QED BY <1>1, <1>8, <3>1, <3>2
  <2> QED BY <2>1, <2>2
<1>10. Begun(b, m, c)
  BY <1>8, SourceAssumption DEF View, Begun
<1>11. Accounted(m, w, c, x)
  BY DEF View, Accounted
<1> QED BY <1>2, <1>3, <1>5, <1>6, <1>7, <1>9, <1>10, <1>11 DEF View, b

\* The relaxations of u at the distances d, none if u is no longer current.
Expands(d, u, sent) ==
  /\ \A k \in sent : /\ u.d = d[u.to]
                     /\ k.via \in Out(u.to) /\ k.to = To[k.via]
                     /\ k.d = u.d + Weight[k.via]
  /\ u.d = d[u.to] => \A e \in Out(u.to) : \E k \in sent : k.via = e

\* A queued update is expanded, or dropped when it is no longer current.
LEMMA ViewExpand ==
  ASSUME NEW d, NEW n, NEW q, NEW c, NEW x, View(d, n, q, c, x),
         NEW u \in q, NEW sent \in SUBSET Update, Expands(d, u, sent)
  PROVE  /\ View(d, n \cup sent, q \ {u}, c \cup sent, x \cup {u})
         /\ sent \cap c = {}
<1> DEFINE m == n \cup sent
           w == q \ {u}
           a == c \cup sent
<1>1. /\ \A v \in Vertex : d[v] \in Nat
      /\ \A y \in c : y.to \in Vertex /\ y.d \in Nat
      /\ \A e \in Edge : From[e] \in Vertex /\ To[e] \in Vertex /\ Weight[e] \in Nat
      /\ n \subseteq c /\ q \subseteq c /\ u \in c
  BY ViewTypes
<1>2. \A k \in sent : /\ k.via \in Edge /\ From[k.via] = u.to /\ k.to = To[k.via]
                      /\ k.d = u.d + Weight[k.via] /\ u.d = d[u.to]
  BY DEF Out, Expands
<1>3. sent \cap c = {}
  <2> SUFFICES ASSUME NEW k \in sent, k \in c PROVE FALSE
    OBVIOUS
  <2>1. u.d + Weight[k.via] < k.d
    BY <1>2 DEF View, Fresh
  <2>2. k.d = u.d + Weight[k.via] /\ u.d \in Nat /\ Weight[k.via] \in Nat
    BY <1>1, <1>2
  <2> QED BY <2>1, <2>2
<1>4. Accounted(m, w, a, x \cup {u})
  BY <1>3 DEF View, Accounted
<1>5. Shaped(d, a)
  <2> SUFFICES ASSUME NEW k \in sent
               PROVE  k.via \in Edge /\ k.to = To[k.via] /\ d[From[k.via]] + Weight[k.via] <= k.d
    BY DEF View, Shaped
  <2>1. u.d \in Nat /\ Weight[k.via] \in Nat /\ u.d = d[u.to]
    BY <1>1, <1>2
  <2> QED BY <1>2, <2>1
<1>6. Single(d, w)
  BY DEF View, Single
<1>7. Fresh(d, w, a)
  <2> SUFFICES ASSUME NEW y \in w, y.d = d[y.to], NEW z \in a, z.via \in Edge, From[z.via] = y.to
               PROVE  y.d + Weight[z.via] < z.d
    BY DEF Fresh
  <2>1. CASE z \in c
    BY <2>1 DEF View, Fresh
  <2>2. CASE z \in sent
    <3>1. y.to = u.to /\ y.d = u.d
      BY <1>2, <2>2
    <3>2. y = u
      BY <3>1 DEF View, Single
    <3> QED BY <3>2
  <2> QED BY <2>1, <2>2
<1>8. Bounded(d, a)
  <2> SUFFICES ASSUME NEW g \in Potential, NEW k \in sent PROVE g[k.to] <= k.d
    BY DEF View, Bounded
  <2>1. g[u.to] <= d[u.to] /\ g[To[k.via]] <= g[From[k.via]] + Weight[k.via]
        /\ \A v \in Vertex : g[v] \in Nat
    BY <1>1, <1>2, GraphAssumption DEF View, Bounded, Potential, PotentialFrom, Distance
  <2>2. /\ g[u.to] \in Nat /\ g[k.to] \in Nat /\ u.d \in Nat /\ Weight[k.via] \in Nat
        /\ From[k.via] = u.to /\ k.to = To[k.via] /\ k.d = u.d + Weight[k.via] /\ u.d = d[u.to]
    BY <1>1, <1>2, <2>1
  <2> QED BY <2>1, <2>2
<1>9. \A v, k : Beaten(d, n, v, k) => Beaten(d, m, v, k)
  BY DEF Beaten
<1>10. Owed(d, m, w)
  <2> SUFFICES ASSUME NEW e \in Edge
               PROVE  \/ Beaten(d, m, To[e], d[From[e]] + Weight[e])
                      \/ \E y \in w : y.to = From[e] /\ y.d = d[From[e]]
    BY DEF Owed
  <2>1. CASE Beaten(d, n, To[e], d[From[e]] + Weight[e])
    BY <1>9, <2>1
  <2>2. CASE \E y \in q : y.to = From[e] /\ y.d = d[From[e]]
    <3>1. PICK y \in q : y.to = From[e] /\ y.d = d[From[e]]
      BY <2>2
    <3>2. CASE y # u
      BY <3>1, <3>2
    <3>3. CASE y = u
      <4>1. u.d = d[u.to] /\ e \in Out(u.to)
        BY <3>1, <3>3 DEF Out
      <4>2. PICK k \in sent : k.via = e
        BY <4>1 DEF Expands
      <4>3. k.to = To[e] /\ k.d = d[From[e]] + Weight[e]
        BY <1>2, <4>1, <4>2
      <4>4. k.d \in Nat
        BY DEF Update
      <4> QED BY <4>3, <4>4 DEF Beaten
    <3> QED BY <3>2, <3>3
  <2> QED BY <2>1, <2>2 DEF View, Owed
<1>11. Begun(d, m, a)
  <2>1. c # {}
    BY <1>1
  <2> QED BY <1>9, <2>1 DEF View, Begun
<1>12. a \subseteq Update
  BY DEF View
<1> QED BY <1>3, <1>4, <1>5, <1>6, <1>7, <1>8, <1>10, <1>11, <1>12 DEF View

\* The source's update is the first.
LEMMA ViewStart ==
  ASSUME NEW d, NEW n, NEW q, NEW c, NEW x, View(d, n, q, c, x), c = {},
         NEW u \in Update, IsSourceUpdate(u)
  PROVE  View(d, n \cup {u}, q, c \cup {u}, x)
<1>1. n = {} /\ q = {} /\ x = {}
  BY DEF View, Accounted
<1>2. \A g \in Potential : g[u.to] <= u.d
  BY SourceAssumption DEF Potential, PotentialFrom, IsSourceUpdate
<1>3. Bounded(d, {u})
  BY <1>2 DEF View, Bounded
<1>4. Begun(d, {u}, {u})
  BY DEF Begun, Beaten, IsSourceUpdate
<1>5. Owed(d, {u}, {})
  <2> SUFFICES ASSUME NEW e \in Edge
               PROVE  Beaten(d, {u}, To[e], d[From[e]] + Weight[e])
    BY DEF Owed
  <2> QED BY <1>1 DEF View, Owed, Beaten
<1>6. Shaped(d, {u})
  BY DEF Shaped
<1>7. Accounted({u}, {}, {u}, {})
  BY DEF Accounted
<1>8. Single(d, {}) /\ Fresh(d, {}, {u})
  BY DEF Single, Fresh
<1>9. View(d, {u}, {}, {u}, {})
  BY <1>3, <1>4, <1>5, <1>6, <1>7, <1>8 DEF View
<1> QED BY <1>1, <1>9

-----------------------------------------------------------------------------
(* Where the updates of the PEs' states f and of the net m are *)

Queue(s) == s.pq \cup Listed(s.hold)

D(f) == [v \in Vertex |-> f[Owner[v]].dist[v]]
Created(f) == UNION {f[p].created : p \in PE}
Processed(f) == UNION {f[p].processed : p \in PE}
InTram(f) == UNION {Listed(f[p].tramHold) : p \in PE}
Deferred(f) == UNION {ToSet(f[p].deferred) : p \in PE}
Queued(f) == UNION {Queue(f[p]) : p \in PE}
Travelling(f, m) == m \cup InTram(f) \cup Deferred(f)

NoRepeat(q) == \A i, j \in DOMAIN q : q[i] = q[j] => i = j

Tidy(s) ==
  /\ Apart(s.tramHold) /\ Apart(s.hold) /\ s.pq \cap Listed(s.hold) = {}
  /\ NoRepeat(s.deferred)

\* No update is in two places.
Places(f, m) ==
  /\ \A p \in PE : /\ Tidy(f[p])
                   /\ m \cap Listed(f[p].tramHold) = {}
                   /\ m \cap ToSet(f[p].deferred) = {}
  /\ \A p, q \in PE : Listed(f[p].tramHold) \cap ToSet(f[q].deferred) = {}
  /\ \A p, q \in PE : p # q => Listed(f[p].tramHold) \cap Listed(f[q].tramHold) = {}

Sound(f, m) ==
  /\ Chares(f) /\ m \subseteq Update /\ Places(f, m)
  /\ View(D(f), Travelling(f, m), Queued(f), Created(f), Processed(f))

DWith(f, p, t) == [v \in Vertex |-> IF Owner[v] = p THEN t.dist[v] ELSE D(f)[v]]

\* The elements of these sets in g, which is f but for p's state, t.
Gathers(f, g, p, t) ==
  /\ Chares(g) /\ g[p] = t /\ \A q \in PE : q # p => g[q] = f[q]
  /\ \A y : y \in Created(g) <=> y \in t.created \/ \E q \in PE : q # p /\ y \in f[q].created
  /\ \A y : y \in Processed(g) <=> y \in t.processed \/ \E q \in PE : q # p /\ y \in f[q].processed
  /\ \A y : y \in InTram(g) <=> y \in Listed(t.tramHold) \/ \E q \in PE : q # p /\ y \in Listed(f[q].tramHold)
  /\ \A y : y \in Deferred(g) <=> y \in ToSet(t.deferred) \/ \E q \in PE : q # p /\ y \in ToSet(f[q].deferred)
  /\ \A y : y \in Queued(g) <=> y \in Queue(t) \/ \E q \in PE : q # p /\ y \in Queue(f[q])
  /\ D(g) = DWith(f, p, t)

LEMMA Replaced ==
  ASSUME NEW f, Chares(f), NEW p \in PE, NEW t, ChareOK(p, t)
  PROVE  Gathers(f, [f EXCEPT ![p] = t], p, t)
<1> DEFINE g == [f EXCEPT ![p] = t]
<1>1. Chares(g) /\ g[p] = t /\ \A q \in PE : q # p => g[q] = f[q]
  BY OneChare
<1> HIDE DEF g
<1>2. \A y : y \in Created(g) <=> y \in t.created \/ \E q \in PE : q # p /\ y \in f[q].created
  BY <1>1 DEF Created
<1>3. \A y : y \in Processed(g) <=> y \in t.processed \/ \E q \in PE : q # p /\ y \in f[q].processed
  BY <1>1 DEF Processed
<1>4. \A y : y \in InTram(g) <=> y \in Listed(t.tramHold) \/ \E q \in PE : q # p /\ y \in Listed(f[q].tramHold)
  BY <1>1 DEF InTram
<1>5. \A y : y \in Deferred(g) <=> y \in ToSet(t.deferred) \/ \E q \in PE : q # p /\ y \in ToSet(f[q].deferred)
  BY <1>1 DEF Deferred
<1>6. \A y : y \in Queued(g) <=> y \in Queue(t) \/ \E q \in PE : q # p /\ y \in Queue(f[q])
  BY <1>1 DEF Queued
<1>7. D(g) = DWith(f, p, t)
  BY <1>1, AcicAssumption DEF D, DWith
<1> QED BY <1>1, <1>2, <1>3, <1>4, <1>5, <1>6, <1>7 DEF g, Gathers

\* The same for the state as it is.
LEMMA Gathered ==
  ASSUME NEW f, Chares(f), NEW p \in PE
  PROVE  /\ ChareOK(p, f[p]) /\ f[p] \in Chare(p)
         /\ Gathers(f, f, p, f[p])
         /\ \A v \in Vertex : Owner[v] = p => D(f)[v] = f[p].dist[v]
<1>1. ChareOK(p, f[p]) /\ f[p] \in Chare(p)
  BY DEF Chares, ChareOK
<1>2. f = [f EXCEPT ![p] = f[p]]
  BY DEF Chares
<1>3. Gathers(f, [f EXCEPT ![p] = f[p]], p, f[p])
  BY <1>1, Replaced
<1>4. Gathers(f, f, p, f[p])
  BY <1>2, <1>3
<1> QED BY <1>1, <1>4 DEF D

\* What a PE queues and defers is for its own vertices.
LEMMA OwnUpdates ==
  ASSUME NEW p, NEW s \in Chare(p)
  PROVE  /\ Queue(s) \subseteq Mine(p) /\ ToSet(s.deferred) \subseteq Mine(p)
         /\ Listed(s.tramHold) \subseteq Update
<1>1. s.pq \subseteq Mine(p) /\ s.hold \in [Bucket -> SUBSET Mine(p)]
      /\ s.deferred \in Seq(Mine(p)) /\ s.tramHold \in [Bucket -> SUBSET Update]
  BY DEF Chare
<1>2. ToSet(s.deferred) \subseteq Mine(p)
  <2> DEFINE q == s.deferred
  <2> HIDE DEF q
  <2>1. q \in Seq(Mine(p)) => ToSet(q) \subseteq Mine(p)
    BY DEF ToSet
  <2> QED BY <1>1, <2>1 DEF q
<1> QED BY <1>1, <1>2 DEF Queue, Listed

LEMMA AppendIs ==
  ASSUME NEW X, NEW q \in Seq(X), NEW u \in X
  PROVE  /\ ToSet(Append(q, u)) = ToSet(q) \cup {u}
         /\ NoRepeat(q) /\ u \notin ToSet(q) => NoRepeat(Append(q, u))
<1> DEFINE a == Append(q, u)
<1>1. /\ Len(q) \in Nat /\ DOMAIN q = 1..Len(q) /\ DOMAIN a = 1..(Len(q) + 1)
      /\ \A i \in 1..Len(q) : a[i] = q[i]
      /\ a[Len(q) + 1] = u
  OBVIOUS
<1> HIDE DEF a
<1>2. ToSet(a) = ToSet(q) \cup {u}
  <2>1. ASSUME NEW y \in ToSet(a) PROVE y \in ToSet(q) \cup {u}
    <3>1. PICK i \in 1..(Len(q) + 1) : y = a[i]
      BY <1>1 DEF ToSet
    <3>2. i \in 1..Len(q) \/ i = Len(q) + 1
      BY <1>1
    <3> QED BY <1>1, <3>1, <3>2 DEF ToSet
  <2>2. ASSUME NEW y \in ToSet(q) PROVE y \in ToSet(a)
    <3>1. PICK i \in 1..Len(q) : y = q[i]
      BY <1>1 DEF ToSet
    <3>2. i \in 1..(Len(q) + 1)
      BY <1>1
    <3> QED BY <1>1, <3>1, <3>2 DEF ToSet
  <2>3. u \in ToSet(a)
    <3>1. Len(q) + 1 \in 1..(Len(q) + 1)
      BY <1>1
    <3> QED BY <1>1, <3>1 DEF ToSet
  <2> QED BY <2>1, <2>2, <2>3
<1>3. NoRepeat(q) /\ u \notin ToSet(q) => NoRepeat(a)
  <2> SUFFICES ASSUME NoRepeat(q), u \notin ToSet(q),
                      NEW i \in 1..(Len(q) + 1), NEW j \in 1..(Len(q) + 1), a[i] = a[j]
               PROVE  i = j
    BY <1>1 DEF NoRepeat
  <2>1. (i \in 1..Len(q) \/ i = Len(q) + 1) /\ (j \in 1..Len(q) \/ j = Len(q) + 1)
    BY <1>1
  <2>2. \A k \in 1..Len(q) : q[k] # u
    BY <1>1 DEF ToSet
  <2> QED BY <1>1, <2>1, <2>2 DEF NoRepeat
<1> QED BY <1>2, <1>3 DEF a

LEMMA KeptQueue ==
  ASSUME NEW p, NEW s \in Chare(p), Fits(s.scale, s.limit), NEW u \in Mine(p)
  PROVE  LET t == Kept(s, u) IN
         /\ Queue(t) = Queue(s) \cup {u}
         /\ Tidy(s) /\ u \notin Queue(s) => Tidy(t)
<1> DEFINE t == Kept(s, u)
           b == BucketAt(s, u)
<1>1. b \in Bucket
  <2>1. u \in Update
    BY DEF Mine
  <2> QED BY <2>1, BucketAtIn
<1>2. /\ SameRules(s, t) /\ t.deferred = s.deferred
      /\ \/ t.pq = s.pq /\ t.hold = ListedAt(s.hold, b, u)
         \/ t.pq = s.pq \cup {u} /\ t.hold = s.hold
  BY KeptIs
<1>3. s.hold \in [Bucket -> SUBSET Mine(p)]
  BY DEF Chare
<1> HIDE DEF t, b
<1>4. CASE t.pq = s.pq /\ t.hold = ListedAt(s.hold, b, u)
  <2>1. t.hold[b] = s.hold[b] \cup {u} /\ \A c \in Bucket : c # b => t.hold[c] = s.hold[c]
    BY <1>1, <1>3, <1>4 DEF ListedAt
  <2>2. Listed(t.hold) = Listed(s.hold) \cup {u}
    <3>1. \A y : y \in Listed(t.hold) <=> \E c \in Bucket : y \in t.hold[c]
      BY DEF Listed
    <3>2. \A y : y \in Listed(s.hold) <=> \E c \in Bucket : y \in s.hold[c]
      BY DEF Listed
    <3>3. \A y : y \in Listed(t.hold) <=> y \in Listed(s.hold) \/ y = u
      BY <1>1, <2>1, <3>1, <3>2
    <3> QED BY <3>3
  <2>3. Apart(s.hold) /\ u \notin Listed(s.hold) => Apart(t.hold)
    <3> SUFFICES ASSUME Apart(s.hold), u \notin Listed(s.hold),
                        NEW i \in Bucket, NEW j \in Bucket, i # j
                 PROVE  t.hold[i] \cap t.hold[j] = {}
      BY DEF Apart
    <3>1. \A c \in Bucket : u \notin s.hold[c]
      BY DEF Listed
    <3>2. s.hold[i] \cap s.hold[j] = {}
      BY DEF Apart
    <3> QED BY <1>1, <2>1, <3>1, <3>2
  <2> QED BY <1>2, <1>4, <2>2, <2>3 DEF Queue, Tidy, SameRules, t
<1>5. CASE t.pq = s.pq \cup {u} /\ t.hold = s.hold
  BY <1>2, <1>5 DEF Queue, Tidy, SameRules, t
<1> QED BY <1>2, <1>4, <1>5

\* The four ends of process_update().
Deferring(s, t, u) ==
  /\ t.dist = s.dist /\ Queue(t) = Queue(s) /\ t.processed = s.processed
  /\ ToSet(t.deferred) = ToSet(s.deferred) \cup {u}
Retiring(s, t, u) ==
  /\ t.dist = s.dist /\ Queue(t) = Queue(s) /\ t.processed = s.processed \cup {u}
  /\ t.deferred = s.deferred
Settling(s, t, u) ==
  /\ Out(u.to) = {} /\ u.d < s.dist[u.to] /\ t.dist = [s.dist EXCEPT ![u.to] = u.d]
  /\ Queue(t) = Queue(s) /\ t.processed = s.processed \cup {u}
  /\ t.deferred = s.deferred
Improving(s, t, u) ==
  /\ Out(u.to) # {} /\ u.d < s.dist[u.to]
  /\ t.dist = [s.dist EXCEPT ![u.to] = u.d]
  /\ Queue(t) = Queue(s) \cup {u} /\ t.processed = s.processed
  /\ t.deferred = s.deferred

LEMMA UpdateEnds ==
  ASSUME NEW p, NEW s \in Chare(p), Fits(s.scale, s.limit), NEW u \in Mine(p),
         Tidy(s), u \notin Queue(s), u \notin ToSet(s.deferred)
  PROVE  LET t == ProcessUpdate(s, u) IN
         /\ Tidy(t) /\ t.tramHold = s.tramHold /\ t.created = s.created
         /\ \/ MustDefer(s, u) /\ Deferring(s, t, u)
            \/ ~(u.d < s.dist[u.to]) /\ Retiring(s, t, u)
            \/ Settling(s, t, u)
            \/ Improving(s, t, u)
<1> DEFINE t == ProcessUpdate(s, u)
           z == Improved(s, u)
<1>0. u \in Update
  BY DEF Mine
<1>1. /\ t \in Chare(p) /\ SameRules(s, t)
      /\ \/ MustDefer(s, u) /\ t = Defer(s, u)
         \/ ~(u.d < s.dist[u.to]) /\ t = Retire(s, u)
         \/ u.d < s.dist[u.to] /\ Out(u.to) = {} /\ t = Retire(z, u)
         \/ u.d < s.dist[u.to] /\ Out(u.to) # {} /\ t = Kept(z, u)
  BY ProcessUpdateIs
<1> HIDE DEF t
<1>2. t.tramHold = s.tramHold /\ t.created = s.created
  BY <1>1 DEF SameRules
<1>3. CASE MustDefer(s, u) /\ t = Defer(s, u)
  <2>1. /\ t.dist = s.dist /\ t.deferred = Append(s.deferred, u)
        /\ t.pq = s.pq /\ t.hold = s.hold /\ t.processed = s.processed
    BY <1>3, DeferIs
  <2>2. s.deferred \in Seq(Mine(p))
    BY DEF Chare
  <2>3. /\ ToSet(t.deferred) = ToSet(s.deferred) \cup {u}
        /\ NoRepeat(t.deferred)
    BY <2>1, <2>2, AppendIs DEF Tidy
  <2>4. Deferring(s, t, u) /\ Tidy(t)
    BY <1>2, <2>1, <2>3 DEF Deferring, Queue, Tidy
  <2> QED BY <1>2, <1>3, <2>4 DEF t
<1>4. CASE ~(u.d < s.dist[u.to]) /\ t = Retire(s, u)
  <2>1. /\ t.dist = s.dist /\ t.deferred = s.deferred
        /\ t.pq = s.pq /\ t.hold = s.hold /\ t.processed = s.processed \cup {u}
    BY <1>0, <1>4, RetireIs
  <2>2. Retiring(s, t, u) /\ Tidy(t)
    BY <1>2, <2>1 DEF Retiring, Queue, Tidy
  <2> QED BY <1>2, <1>4, <2>2 DEF t
<1>5. ASSUME u.d < s.dist[u.to]
      PROVE  /\ z \in Chare(p) /\ SameRules(s, z)
             /\ z.dist = [s.dist EXCEPT ![u.to] = u.d]
             /\ z.deferred = s.deferred /\ z.pq = s.pq /\ z.hold = s.hold
             /\ z.processed = s.processed
             /\ Tidy(z) /\ Queue(z) = Queue(s) /\ Fits(z.scale, z.limit)
  <2>1. /\ z \in Chare(p) /\ SameRules(s, z)
        /\ z.dist = [s.dist EXCEPT ![u.to] = u.d]
        /\ z.deferred = s.deferred /\ z.pq = s.pq /\ z.hold = s.hold
        /\ z.processed = s.processed
    BY <1>5, ImprovedIs
  <2> QED BY <2>1 DEF Tidy, Queue, SameRules
<1> HIDE DEF z
<1>6. CASE u.d < s.dist[u.to] /\ Out(u.to) = {} /\ t = Retire(z, u)
  <2>1. /\ t.dist = z.dist /\ t.deferred = z.deferred
        /\ t.pq = z.pq /\ t.hold = z.hold /\ t.processed = z.processed \cup {u}
    BY <1>0, <1>5, <1>6, RetireIs
  <2>2. Settling(s, t, u) /\ Tidy(t)
    BY <1>2, <1>5, <1>6, <2>1 DEF Settling, Queue, Tidy
  <2> QED BY <1>2, <2>2 DEF t
<1>7. CASE u.d < s.dist[u.to] /\ Out(u.to) # {} /\ t = Kept(z, u)
  <2>1. t.dist = z.dist /\ t.deferred = z.deferred /\ t.processed = z.processed
    BY <1>5, <1>7, KeptIs
  <2>2. Queue(t) = Queue(z) \cup {u} /\ Tidy(t)
    BY <1>5, <1>7, KeptQueue
  <2>3. Improving(s, t, u)
    BY <1>5, <1>7, <2>1, <2>2 DEF Improving
  <2> QED BY <1>2, <2>2, <2>3 DEF t
<1> QED BY <1>1, <1>3, <1>4, <1>6, <1>7

\* Where u is when it is in the net.
LEMMA Elsewhere ==
  ASSUME NEW f, NEW m, Sound(f, m), NEW p \in PE, NEW u \in m
  PROVE  /\ u \notin InTram(f) /\ u \notin Deferred(f) /\ u \notin Queued(f)
         /\ u \notin Queue(f[p]) /\ u \notin ToSet(f[p].deferred)
         /\ u \in Travelling(f, m) /\ Tidy(f[p])
<1>1. \A q \in PE : u \notin Listed(f[q].tramHold) /\ u \notin ToSet(f[q].deferred)
  BY DEF Sound, Places
<1>2. u \in Travelling(f, m)
  BY DEF Travelling
<1>3. u \notin Queued(f)
  BY <1>2 DEF Sound, View, Accounted
<1> QED BY <1>1, <1>2, <1>3 DEF InTram, Deferred, Queued, Sound, Places

\* What u leaves and enters when it ends on p, whose state is t then.
Ends(f, m, g, k, p, u, t) ==
  /\ Created(g) = Created(f) /\ InTram(g) = InTram(f)
  /\ D(f)[u.to] = f[p].dist[u.to]
  /\ t.dist = f[p].dist => D(g) = D(f)
  /\ t.dist = [f[p].dist EXCEPT ![u.to] = u.d] => D(g) = [D(f) EXCEPT ![u.to] = u.d]
  /\ Queue(t) = Queue(f[p]) => Queued(g) = Queued(f)
  /\ Queue(t) = Queue(f[p]) \cup {u} => Queued(g) = Queued(f) \cup {u}
  /\ t.deferred = f[p].deferred =>
       Deferred(g) = Deferred(f) /\ Travelling(g, k) = Travelling(f, m) \ {u}

LEMMA EndMoves ==
  ASSUME NEW f, NEW m, Sound(f, m), NEW p \in PE, NEW u \in m, u \in Mine(p),
         NEW t, ChareOK(p, t), t.tramHold = f[p].tramHold, t.created = f[p].created
  PROVE  Ends(f, m, [f EXCEPT ![p] = t], m \ {u}, p, u, t)
<1> DEFINE s == f[p]
           g == [f EXCEPT ![p] = t]
           k == m \ {u}
<1>1. Chares(f) /\ m \subseteq Update
  BY DEF Sound
<1>2. s \in Chare(p)
  BY <1>1, Gathered
<1>3. u \notin InTram(f) /\ u \notin Deferred(f)
  BY Elsewhere
<1>4. t.tramHold = s.tramHold /\ t.created = s.created
  OBVIOUS
<1>6. Gathers(f, g, p, t)
  BY <1>1, Replaced
<1> HIDE DEF g
<1>7. Gathers(f, f, p, s) /\ \A v \in Vertex : Owner[v] = p => D(f)[v] = s.dist[v]
  BY <1>1, Gathered
<1> USE DEF Gathers
<1>8. Created(g) = Created(f) /\ InTram(g) = InTram(f)
  <2>1. \A y : y \in Created(g) <=> y \in Created(f)
    BY <1>4, <1>6, <1>7
  <2>2. \A y : y \in InTram(g) <=> y \in InTram(f)
    BY <1>4, <1>6, <1>7
  <2> QED BY <2>1, <2>2
<1>9. u.to \in Vertex /\ Owner[u.to] = p /\ D(f)[u.to] = s.dist[u.to]
  BY <1>7 DEF Mine, Update
<1>10. D(f) = [v \in Vertex |-> D(f)[v]]
  BY DEF D
<1>11. ASSUME t.dist = s.dist PROVE D(g) = D(f)
  BY <1>6, <1>7, <1>10, <1>11 DEF DWith
<1>12. ASSUME t.dist = [s.dist EXCEPT ![u.to] = u.d] PROVE D(g) = [D(f) EXCEPT ![u.to] = u.d]
  <2>1. s.dist \in [{v \in Vertex : Owner[v] = p} -> Distance]
    BY <1>2 DEF Chare
  <2>2. \A v \in Vertex : Owner[v] = p => t.dist[v] = IF v = u.to THEN u.d ELSE D(f)[v]
    BY <1>7, <1>12, <2>1
  <2>3. \A v \in Vertex : D(g)[v] = IF v = u.to THEN u.d ELSE D(f)[v]
    BY <1>6, <1>9, <2>2 DEF DWith
  <2>4. D(g) = [v \in Vertex |-> D(g)[v]]
    BY DEF D
  <2>5. [D(f) EXCEPT ![u.to] = u.d] = [v \in Vertex |-> IF v = u.to THEN u.d ELSE D(f)[v]]
    BY <1>10
  <2> QED BY <2>3, <2>4, <2>5
<1>13. ASSUME Queue(t) = Queue(s) PROVE Queued(g) = Queued(f)
  <2>1. \A y : y \in Queued(g) <=> y \in Queued(f)
    BY <1>6, <1>7, <1>13
  <2> QED BY <2>1
<1>14. ASSUME t.deferred = s.deferred
       PROVE  /\ Deferred(g) = Deferred(f)
              /\ Travelling(g, k) = Travelling(f, m) \ {u}
  <2>1. \A y : y \in Deferred(g) <=> y \in Deferred(f)
    BY <1>6, <1>7, <1>14
  <2>2. Deferred(g) = Deferred(f)
    BY <2>1
  <2>3. Travelling(g, k) = Travelling(f, m) \ {u}
    BY <1>3, <1>8, <2>2 DEF Travelling
  <2> QED BY <2>2, <2>3
<1>15. ASSUME Queue(t) = Queue(s) \cup {u} PROVE Queued(g) = Queued(f) \cup {u}
  <2>1. \A y : y \in Queued(g) <=> y \in Queued(f) \/ y = u
    BY <1>6, <1>7, <1>15
  <2> QED BY <2>1
<1> QED BY <1>8, <1>9, <1>11, <1>12, <1>13, <1>14, <1>15 DEF g, Ends

\* An update of the net comes to one of these ends at its owner.
LEMMA EndSound ==
  ASSUME NEW f, NEW m, Sound(f, m), NEW p \in PE, NEW u \in m, u \in Mine(p),
         NEW t, ChareOK(p, t), Tidy(t),
         t.tramHold = f[p].tramHold, t.created = f[p].created,
         \/ Deferring(f[p], t, u)
         \/ Retiring(f[p], t, u) /\ Beaten(D(f), Travelling(f, m) \ {u}, u.to, u.d)
         \/ Settling(f[p], t, u)
         \/ Improving(f[p], t, u)
  PROVE  Sound([f EXCEPT ![p] = t], m \ {u})
<1> DEFINE s == f[p]
           g == [f EXCEPT ![p] = t]
           k == m \ {u}
<1>1. Chares(f) /\ m \subseteq Update /\ Places(f, m)
      /\ View(D(f), Travelling(f, m), Queued(f), Created(f), Processed(f))
  BY DEF Sound
<1>2. /\ ChareOK(p, s) /\ s \in Chare(p) /\ Fits(s.scale, s.limit)
  BY <1>1, Gathered DEF ChareOK
<1>3. /\ u \notin InTram(f) /\ u \notin Deferred(f) /\ u \notin Queued(f)
      /\ u \notin Queue(s) /\ u \notin ToSet(s.deferred)
      /\ u \in Travelling(f, m) /\ Tidy(s)
  BY Elsewhere
<1>4. t.tramHold = s.tramHold /\ t.created = s.created
  OBVIOUS
<1>8. Ends(f, m, g, k, p, u, t)
  BY <1>4, EndMoves
<1>6. Gathers(f, g, p, t)
  BY <1>1, Replaced
<1> HIDE DEF g
<1>7. Gathers(f, f, p, s) /\ \A v \in Vertex : Owner[v] = p => D(f)[v] = s.dist[v]
  BY <1>1, Gathered
<1> USE DEF Gathers, Ends
<1>14. ASSUME t.deferred = s.deferred
       PROVE  Travelling(g, k) = Travelling(f, m) \ {u} /\ Places(g, k)
  <2>1. \A q \in PE : Tidy(g[q]) /\ g[q].tramHold = f[q].tramHold /\ g[q].deferred = f[q].deferred
    BY <1>1, <1>4, <1>6, <1>14 DEF Places
  <2> QED BY <1>1, <1>8, <1>14, <2>1 DEF Places
<1>15. ASSUME t.processed = s.processed PROVE Processed(g) = Processed(f)
  <2>1. \A y : y \in Processed(g) <=> y \in Processed(f)
    BY <1>6, <1>7, <1>15
  <2> QED BY <2>1
<1>16. ASSUME t.processed = s.processed \cup {u} PROVE Processed(g) = Processed(f) \cup {u}
  <2>1. \A y : y \in Processed(g) <=> y \in Processed(f) \/ y = u
    BY <1>6, <1>7, <1>16
  <2> QED BY <2>1
<1>17. CASE Deferring(s, t, u)
  <2>1. D(g) = D(f) /\ Queued(g) = Queued(f) /\ Processed(g) = Processed(f)
    BY <1>8, <1>15, <1>17 DEF Deferring
  <2>2. \A y : y \in Deferred(g) <=> y \in Deferred(f) \/ y = u
    BY <1>6, <1>7, <1>17 DEF Deferring
  <2>3. Travelling(g, k) = Travelling(f, m)
    BY <1>8, <2>2 DEF Travelling
  <2>4. Places(g, k)
    <3>1. \A q \in PE : /\ Tidy(g[q]) /\ g[q].tramHold = f[q].tramHold
                        /\ ToSet(g[q].deferred) \subseteq ToSet(f[q].deferred) \cup {u}
      BY <1>1, <1>4, <1>6, <1>17 DEF Places, Deferring
    <3>2. \A q \in PE : u \notin Listed(f[q].tramHold)
      BY <1>3 DEF InTram
    <3> QED BY <1>1, <3>1, <3>2 DEF Places
  <2>5. View(D(g), Travelling(g, k), Queued(g), Created(g), Processed(g))
    BY <1>1, <1>8, <2>1, <2>3
  <2> QED BY <1>1, <1>6, <2>4, <2>5 DEF Sound, g
<1>18. CASE Retiring(s, t, u) /\ Beaten(D(f), Travelling(f, m) \ {u}, u.to, u.d)
  <2>1. /\ D(g) = D(f) /\ Queued(g) = Queued(f) /\ Processed(g) = Processed(f) \cup {u}
        /\ Travelling(g, k) = Travelling(f, m) \ {u} /\ Places(g, k)
    BY <1>8, <1>14, <1>16, <1>18 DEF Retiring
  <2>4. View(D(f), Travelling(f, m) \ {u}, Queued(f), Created(f), Processed(f) \cup {u})
    BY <1>1, <1>3, <1>18, ViewRetire
  <2>5. View(D(g), Travelling(g, k), Queued(g), Created(g), Processed(g))
    BY <1>8, <2>1, <2>4
  <2> QED BY <1>1, <1>6, <2>1, <2>5 DEF Sound, g
<1>19. CASE Improving(s, t, u)
  <2>1. /\ D(g) = [D(f) EXCEPT ![u.to] = u.d] /\ Processed(g) = Processed(f)
        /\ Travelling(g, k) = Travelling(f, m) \ {u} /\ Places(g, k)
        /\ u.d < D(f)[u.to]
    BY <1>8, <1>14, <1>15, <1>19 DEF Improving
  <2>2. Queued(g) = Queued(f) \cup {u}
    BY <1>8, <1>19 DEF Improving
  <2>3. View([D(f) EXCEPT ![u.to] = u.d], Travelling(f, m) \ {u}, Queued(f) \cup {u},
             Created(f), Processed(f))
    BY <1>1, <1>3, <2>1, ViewImprove
  <2>4. View(D(g), Travelling(g, k), Queued(g), Created(g), Processed(g))
    BY <1>8, <2>1, <2>2, <2>3
  <2> QED BY <1>1, <1>6, <2>1, <2>4 DEF Sound, g
<1>20. CASE Settling(s, t, u)
  <2>1. /\ D(g) = [D(f) EXCEPT ![u.to] = u.d] /\ Processed(g) = Processed(f) \cup {u}
        /\ Travelling(g, k) = Travelling(f, m) \ {u} /\ Places(g, k)
        /\ u.d < D(f)[u.to] /\ Queued(g) = Queued(f) /\ Out(u.to) = {}
    BY <1>8, <1>14, <1>16, <1>20 DEF Settling
  <2> DEFINE d == [D(f) EXCEPT ![u.to] = u.d]
             n == Travelling(f, m) \ {u}
             q == Queued(f) \cup {u}
  <2>2. View(d, n, q, Created(f), Processed(f))
    BY <1>1, <1>3, <2>1, ViewImprove
  <2>3. u \in q /\ n \cup {} = n /\ q \ {u} = Queued(f) /\ Created(f) \cup {} = Created(f)
    BY <1>3
  <2> HIDE DEF d, n, q
  <2>4. View(d, n \cup {}, q \ {u}, Created(f) \cup {}, Processed(f) \cup {u})
    <3>1. Expands(d, u, {})
      BY <2>1 DEF Expands
    <3> QED BY <2>2, <2>3, <3>1, ViewExpand
  <2>5. View(D(g), Travelling(g, k), Queued(g), Created(g), Processed(g))
    BY <1>8, <2>1, <2>3, <2>4 DEF d, n
  <2> QED BY <1>1, <1>6, <2>1, <2>5 DEF Sound, g
<1> QED BY <1>17, <1>18, <1>19, <1>20

\* One update of the net goes through process_update().
LEMMA UpdateSound ==
  ASSUME NEW f, NEW m, Sound(f, m), NEW p \in PE, NEW u \in m, u \in Mine(p)
  PROVE  Sound([f EXCEPT ![p] = ProcessUpdate(f[p], u)], m \ {u})
<1> DEFINE s == f[p]
           t == ProcessUpdate(s, u)
<1>1. /\ ChareOK(p, s) /\ s \in Chare(p) /\ Fits(s.scale, s.limit)
      /\ \A v \in Vertex : Owner[v] = p => D(f)[v] = s.dist[v]
  BY Gathered DEF ChareOK, Sound
<1>2. u \notin Queue(s) /\ u \notin ToSet(s.deferred) /\ Tidy(s)
  BY Elsewhere
<1>3. /\ Tidy(t) /\ t.tramHold = s.tramHold /\ t.created = s.created
      /\ \/ MustDefer(s, u) /\ Deferring(s, t, u)
         \/ ~(u.d < s.dist[u.to]) /\ Retiring(s, t, u)
         \/ Settling(s, t, u)
         \/ Improving(s, t, u)
  BY <1>1, <1>2, UpdateEnds
<1>4. ChareOK(p, t)
  BY <1>1, ProcessUpdateOK
<1> HIDE DEF t
<1>5. ASSUME ~(u.d < s.dist[u.to]) PROVE Beaten(D(f), Travelling(f, m) \ {u}, u.to, u.d)
  <2>1. u.to \in Vertex /\ Owner[u.to] = p /\ u.d \in Nat /\ D(f)[u.to] \in Nat
    BY DEF Sound, View, Mine, Update
  <2>2. D(f)[u.to] <= u.d
    BY <1>1, <1>5, <2>1
  <2> QED BY <2>2 DEF Beaten
<1>6. Sound([f EXCEPT ![p] = t], m \ {u})
  BY <1>3, <1>4, <1>5, EndSound
<1> QED BY <1>6 DEF t

\* One is retired unapplied because one for the same vertex is no worse.
LEMMA RetireSound ==
  ASSUME NEW f, NEW m, Sound(f, m), NEW p \in PE, NEW u \in m, u \in Mine(p),
         NEW y \in m \ {u}, y.to = u.to, y.d <= u.d
  PROVE  Sound([f EXCEPT ![p] = Retire(f[p], u)], m \ {u})
<1> DEFINE s == f[p]
           t == Retire(s, u)
<1>1. ChareOK(p, s) /\ s \in Chare(p) /\ u \in Update
  BY Gathered DEF Sound, Mine
<1>2. Tidy(s)
  BY Elsewhere
<1>3. /\ SameRules(s, t) /\ t.dist = s.dist /\ t.deferred = s.deferred
      /\ t.pq = s.pq /\ t.hold = s.hold /\ t.processed = s.processed \cup {u}
  BY <1>1, RetireIs
<1>4. ChareOK(p, t)
  BY <1>1, RetireOK
<1> HIDE DEF t
<1>5. Tidy(t) /\ t.tramHold = s.tramHold /\ t.created = s.created /\ Retiring(s, t, u)
  BY <1>2, <1>3 DEF SameRules, Tidy, Retiring, Queue
<1>6. Beaten(D(f), Travelling(f, m) \ {u}, u.to, u.d)
  BY DEF Beaten, Travelling
<1>7. Sound([f EXCEPT ![p] = t], m \ {u})
  BY <1>4, <1>5, <1>6, EndSound
<1> QED BY <1>7 DEF t

\* Whether an update travels or is queued stays as it is.
SamePlaces(f, m, g, k) ==
  Travelling(g, k) = Travelling(f, m) /\ Queued(g) = Queued(f) /\ D(g) = D(f)

\* Updates of p's containers go elsewhere on p or into the net; nothing else
\* changes.
LEMMA RearrangeSound ==
  ASSUME NEW f, NEW m, Sound(f, m), NEW p \in PE, NEW t, ChareOK(p, t), Tidy(t),
         NEW k,
         t.dist = f[p].dist, t.created = f[p].created, t.processed = f[p].processed,
         Queue(t) = Queue(f[p]),
         m \subseteq k,
         Listed(t.tramHold) \subseteq Listed(f[p].tramHold),
         ToSet(t.deferred) \subseteq ToSet(f[p].deferred),
         k \cup Listed(t.tramHold) \cup ToSet(t.deferred)
           = m \cup Listed(f[p].tramHold) \cup ToSet(f[p].deferred),
         k \cap Listed(t.tramHold) = {}, k \cap ToSet(t.deferred) = {}
  PROVE  /\ Sound([f EXCEPT ![p] = t], k)
         /\ SamePlaces(f, m, [f EXCEPT ![p] = t], k)
<1> DEFINE s == f[p]
           g == [f EXCEPT ![p] = t]
<1>1. Chares(f) /\ m \subseteq Update /\ Places(f, m)
      /\ View(D(f), Travelling(f, m), Queued(f), Created(f), Processed(f))
  BY DEF Sound
<1>2. Gathers(f, g, p, t) /\ Gathers(f, f, p, s)
  BY <1>1, Replaced, Gathered
<1> HIDE DEF g
<1> USE DEF Gathers
<1>3. Created(g) = Created(f)
  <2>1. \A y : y \in Created(g) <=> y \in Created(f)
    BY <1>2
  <2> QED BY <2>1
<1>4. Processed(g) = Processed(f)
  <2>1. \A y : y \in Processed(g) <=> y \in Processed(f)
    BY <1>2
  <2> QED BY <2>1
<1>5. Queued(g) = Queued(f)
  <2>1. \A y : y \in Queued(g) <=> y \in Queued(f)
    BY <1>2
  <2> QED BY <2>1
<1>6. D(g) = D(f)
  BY <1>2 DEF DWith
<1>7. Travelling(g, k) = Travelling(f, m)
  <2>1. \A y : y \in Travelling(g, k)
               <=> \/ y \in k \/ y \in Listed(t.tramHold) \/ y \in ToSet(t.deferred)
                   \/ \E q \in PE : q # p /\ y \in Listed(f[q].tramHold)
                   \/ \E q \in PE : q # p /\ y \in ToSet(f[q].deferred)
    BY <1>2 DEF Travelling
  <2>2. \A y : y \in Travelling(f, m)
               <=> \/ y \in m \/ y \in Listed(s.tramHold) \/ y \in ToSet(s.deferred)
                   \/ \E q \in PE : q # p /\ y \in Listed(f[q].tramHold)
                   \/ \E q \in PE : q # p /\ y \in ToSet(f[q].deferred)
    BY <1>2 DEF Travelling
  <2>3. \A y : y \in k \/ y \in Listed(t.tramHold) \/ y \in ToSet(t.deferred)
               <=> y \in m \/ y \in Listed(s.tramHold) \/ y \in ToSet(s.deferred)
    OBVIOUS
  <2>4. \A y : y \in Travelling(g, k) <=> y \in Travelling(f, m)
    BY <2>1, <2>2, <2>3
  <2> QED BY <2>4
<1>8. \A q \in PE : q # p => ToSet(f[q].deferred) \cap ToSet(s.deferred) = {}
  <2>1. \A q \in PE : ToSet(f[q].deferred) \subseteq Mine(q)
    BY <1>1, Gathered, OwnUpdates
  <2> QED BY <2>1 DEF Mine
<1>9. \A y \in k : y \in m \/ y \in Listed(s.tramHold) \/ y \in ToSet(s.deferred)
  OBVIOUS
<1>10. Places(g, k)
  <2>1. ASSUME NEW q \in PE
        PROVE  /\ Tidy(g[q]) /\ k \cap Listed(g[q].tramHold) = {}
               /\ k \cap ToSet(g[q].deferred) = {}
    <3>1. CASE q = p
      BY <1>2, <3>1
    <3>2. CASE q # p
      BY <1>1, <1>2, <1>8, <1>9, <3>2 DEF Places
    <3> QED BY <3>1, <3>2
  <2>2. \A q \in PE : /\ Listed(g[q].tramHold) \subseteq Listed(f[q].tramHold)
                      /\ ToSet(g[q].deferred) \subseteq ToSet(f[q].deferred)
    BY <1>2
  <2>3. \A i, j \in PE : Listed(g[i].tramHold) \cap ToSet(g[j].deferred) = {}
    BY <1>1, <2>2 DEF Places
  <2>4. \A i, j \in PE : i # j => Listed(g[i].tramHold) \cap Listed(g[j].tramHold) = {}
    BY <1>1, <2>2 DEF Places
  <2> QED BY <2>1, <2>3, <2>4 DEF Places
<1>11. k \subseteq Update
  <2>1. Listed(s.tramHold) \subseteq Update /\ ToSet(s.deferred) \subseteq Mine(p)
    BY <1>1, Gathered, OwnUpdates
  <2> QED BY <1>1, <1>9, <2>1 DEF Mine
<1> QED BY <1>1, <1>2, <1>3, <1>4, <1>5, <1>6, <1>7, <1>10, <1>11 DEF Sound, SamePlaces, g

LEMMA Twice ==
  ASSUME NEW f, Chares(f), NEW p \in PE, NEW s, NEW t
  PROVE  [[f EXCEPT ![p] = s] EXCEPT ![p] = t] = [f EXCEPT ![p] = t]
BY DEF Chares

\* clear_pq_hold()
LEMMA AdmitSound ==
  ASSUME NEW f, NEW m, Sound(f, m), NEW p \in PE
  PROVE  /\ Sound([f EXCEPT ![p] = Admitted(f[p])], m)
         /\ SamePlaces(f, m, [f EXCEPT ![p] = Admitted(f[p])], m)
<1> DEFINE s == f[p]
           t == Admitted(s)
<1>1. ChareOK(p, s) /\ s \in Chare(p) /\ Tidy(s) /\ m \cap Listed(s.tramHold) = {}
      /\ m \cap ToSet(s.deferred) = {}
  BY Gathered DEF Sound, Places
<1>2. /\ SameRules(s, t) /\ t.dist = s.dist /\ t.deferred = s.deferred
      /\ t.processed = s.processed
      /\ t.pq = s.pq \cup UpTo(s.hold, s.heap)
      /\ t.hold = Cleared(s.hold, s.heap)
  BY <1>1, AdmittedIs
<1>3. ChareOK(p, t)
  BY <1>1, AdmittedOK
<1> HIDE DEF t
<1>4. s.hold \in [Bucket -> SUBSET Mine(p)]
  BY <1>1 DEF Chare
<1>5. /\ Listed(s.hold) = UpTo(s.hold, s.heap) \cup Listed(t.hold)
      /\ Apart(t.hold) /\ UpTo(s.hold, s.heap) \cap Listed(t.hold) = {}
  <2>1. Apart(s.hold)
    BY <1>1 DEF Tidy
  <2> DEFINE h == s.hold
             b == s.heap
  <2> HIDE DEF h, b
  <2>2. h \in [Bucket -> SUBSET Mine(p)] /\ Apart(h)
    BY <1>4, <2>1 DEF h
  <2>3. /\ Listed(h) = UpTo(h, b) \cup Listed(Cleared(h, b))
        /\ Apart(Cleared(h, b)) /\ UpTo(h, b) \cap Listed(Cleared(h, b)) = {}
    BY <2>2, ClearedIs
  <2> QED BY <1>2, <2>3 DEF h, b
<1>6. Queue(t) = Queue(s)
  BY <1>2, <1>5 DEF Queue
<1>7. Tidy(t)
  BY <1>1, <1>2, <1>5 DEF Tidy, SameRules
<1>8. t.created = s.created /\ t.tramHold = s.tramHold
  BY <1>2 DEF SameRules
<1>9. Sound([f EXCEPT ![p] = t], m) /\ SamePlaces(f, m, [f EXCEPT ![p] = t], m)
  BY <1>1, <1>2, <1>3, <1>6, <1>7, <1>8, RearrangeSound
<1> QED BY <1>9 DEF t

\* The deferred updates go through process_update() again.
LEMMA ReprocessSound ==
  ASSUME NEW f, NEW m, Sound(f, m), NEW p \in PE
  PROVE  Sound([f EXCEPT ![p] = Reprocess(f[p])], m)
<1> DEFINE s == f[p]
           q == s.deferred
           n == Len(q)
<1>1. ChareOK(p, s) /\ s \in Chare(p) /\ Tidy(s) /\ m \cap Listed(s.tramHold) = {}
      /\ m \cap ToSet(q) = {} /\ Listed(s.tramHold) \cap ToSet(q) = {} /\ Chares(f)
  BY Gathered DEF Sound, Places
<1>2. PICK r : Passes(s, r)
  BY <1>1, ReprocessIs
<1>3. q \in Seq(Mine(p))
  BY <1>1 DEF Chare
<1> HIDE DEF q
<1>4. /\ n \in Nat /\ DOMAIN q = 1..n /\ \A i \in 1..n : q[i] \in Mine(p)
      /\ NoRepeat(q)
      /\ \A y : y \in ToSet(q) <=> \E i \in 1..n : y = q[i]
  BY <1>1, <1>3 DEF Tidy, q, ToSet
<1>5. /\ r[0] = [s EXCEPT !.deferred = <<>>] /\ Reprocess(s) = r[n]
      /\ \A i \in 1..n : r[i] = ProcessUpdate(r[i - 1], q[i])
  BY <1>2 DEF Passes, q
<1> HIDE DEF n
<1> DEFINE left(i) == (m \cup ToSet(q)) \ {q[j] : j \in 1..i}
           G == {i \in 0..n : Sound([f EXCEPT ![p] = r[i]], left(i))}
<1>6. 0 \in G
  <2> DEFINE t == r[0]
  <2>0. <<>> \in Seq(Mine(p)) /\ ToSet(<<>>) = {} /\ NoRepeat(<<>>)
    BY DEF ToSet, NoRepeat
  <2>1. /\ t \in Chare(p) /\ SameRules(s, t) /\ t.deferred = <<>>
        /\ t.dist = s.dist /\ t.processed = s.processed
        /\ t.pq = s.pq /\ t.hold = s.hold
    BY <1>1, <1>5, <2>0 DEF Chare, SameRules
  <2>2. ChareOK(p, t)
    BY <1>1, <2>1, ChareKeeps
  <2> HIDE DEF t
  <2>3. Tidy(t) /\ Queue(t) = Queue(s) /\ ToSet(t.deferred) = {}
        /\ t.created = s.created /\ t.tramHold = s.tramHold
    BY <1>1, <2>0, <2>1 DEF Tidy, Queue, SameRules
  <2> DEFINE k == m \cup ToSet(q)
  <2>4. /\ m \subseteq k /\ k \cap Listed(t.tramHold) = {} /\ k \cap ToSet(t.deferred) = {}
        /\ k \cup Listed(t.tramHold) \cup ToSet(t.deferred)
             = m \cup Listed(s.tramHold) \cup ToSet(s.deferred)
    BY <1>1, <2>3 DEF q
  <2>5. left(0) = k
    OBVIOUS
  <2> HIDE DEF k
  <2>6. Sound([f EXCEPT ![p] = t], k)
    BY <2>1, <2>2, <2>3, <2>4, RearrangeSound
  <2> HIDE DEF left
  <2>7. Sound([f EXCEPT ![p] = r[0]], left(0))
    BY <2>5, <2>6 DEF t
  <2>8. 0 \in 0..n
    BY <1>4
  <2> QED BY <2>7, <2>8
<1>7. ASSUME NEW i \in 1..n, i - 1 \in G PROVE i \in G
  <2> DEFINE g == [f EXCEPT ![p] = r[i - 1]]
             u == q[i]
  <2>1. Sound(g, left(i - 1)) /\ g[p] = r[i - 1]
    BY <1>1, <1>7 DEF Chares
  <2>2. u \in Mine(p) /\ u \in left(i - 1)
    <3>1. u \in ToSet(q) /\ u \in Mine(p)
      BY <1>4
    <3>2. \A j \in 1..(i - 1) : j \in 1..n /\ i \in 1..n /\ j # i
      BY <1>4
    <3>3. \A j \in 1..(i - 1) : q[j] # q[i]
      BY <1>4, <3>2 DEF NoRepeat
    <3> QED BY <3>1, <3>3
  <2>3. Sound([g EXCEPT ![p] = ProcessUpdate(g[p], u)], left(i - 1) \ {u})
    <3> HIDE DEF g, u, left
    <3> QED BY <2>1, <2>2, UpdateSound
  <2>4. left(i - 1) \ {u} = left(i)
    <3>1. \A j : j \in 1..i <=> j \in 1..(i - 1) \/ j = i
      BY <1>4
    <3>2. \A y : y \in {q[j] : j \in 1..i} <=> y \in {q[j] : j \in 1..(i - 1)} \/ y = q[i]
      BY <3>1
    <3> QED BY <3>2
  <2>5. r[i] = ProcessUpdate(g[p], u)
    BY <1>5, <2>1
  <2>6. [g EXCEPT ![p] = r[i]] = [f EXCEPT ![p] = r[i]]
    BY <1>1, Twice
  <2>7. Sound([f EXCEPT ![p] = r[i]], left(i)) /\ i \in 0..n
    <3> HIDE DEF g, u, left
    <3>1. i \in 0..n
      BY <1>4
    <3> QED BY <2>3, <2>4, <2>5, <2>6, <3>1
  <2> QED BY <2>7
<1>8. left(n) = m
  BY <1>1, <1>4
<1> HIDE DEF G, left
<1>9. \A i \in 0..n : i \in G
  BY <1>4, <1>6, <1>7, Climb
<1>10. n \in G
  BY <1>4, <1>9
<1> QED BY <1>5, <1>8, <1>10 DEF G

\* current_thresholds()
LEMMA TakeUpSound ==
  ASSUME NEW f, NEW m, Sound(f, m), NEW p \in PE, NEW r \in RoundType
  PROVE  Sound([f EXCEPT ![p] = TakeUp(f[p], r)], m \cup Released(f[p], r))
<1> DEFINE s == f[p]
           z == Merged(s, r)
           x == Reprocess(z)
           t == TakeUp(s, r)
           g == [f EXCEPT ![p] = z]
           h == [f EXCEPT ![p] = x]
           k == UpTo(z.tramHold, r.tram)
<1>1. /\ ChareOK(p, s) /\ s \in Chare(p) /\ Fits(s.scale, s.limit)
      /\ Tidy(s) /\ m \cap Listed(s.tramHold) = {}
      /\ m \cap ToSet(s.deferred) = {} /\ Chares(f) /\ IsFiniteSet(s.created)
  BY Gathered DEF Sound, Places, ChareOK
<1>2. /\ z \in Chare(p) /\ Fits(z.scale, z.limit)
      /\ z.created = s.created /\ z.processed = s.processed /\ z.dist = s.dist
      /\ z.pq = s.pq /\ z.deferred = s.deferred
      /\ Listed(z.hold) = Listed(s.hold) /\ Listed(z.tramHold) = Listed(s.tramHold)
      /\ Apart(s.hold) => Apart(z.hold)
      /\ Apart(s.tramHold) => Apart(z.tramHold)
  BY <1>1, MergedIs
<1>3. /\ x \in Chare(p) /\ SameRules(z, x)
      /\ t.tramHold = Cleared(z.tramHold, r.tram)
      /\ t.created = s.created /\ t.processed = x.processed /\ t.dist = x.dist
      /\ t.pq = x.pq /\ t.hold = x.hold /\ t.deferred = x.deferred
      /\ Released(s, r) = k
  BY <1>1, TakeUpIs
<1>4. ChareOK(p, t)
  BY <1>1, TakeUpOK
<1> HIDE DEF t, x, z
<1>5. Sound(g, m)
  <2>1. ChareOK(p, z) /\ Tidy(z) /\ Queue(z) = Queue(s)
    BY <1>1, <1>2 DEF ChareOK, Tidy, Queue
  <2>2. /\ m \cap Listed(z.tramHold) = {} /\ m \cap ToSet(z.deferred) = {}
        /\ m \cup Listed(z.tramHold) \cup ToSet(z.deferred)
             = m \cup Listed(s.tramHold) \cup ToSet(s.deferred)
    BY <1>1, <1>2
  <2> QED BY <1>2, <2>1, <2>2, RearrangeSound
<1>6. Sound(h, m)
  <2>1. g[p] = z
    BY <1>1 DEF Chares
  <2> HIDE DEF g
  <2>2. Sound([g EXCEPT ![p] = x], m)
    BY <1>5, <2>1, ReprocessSound DEF x
  <2>3. [g EXCEPT ![p] = x] = h
    BY <1>1, Twice DEF g
  <2> QED BY <2>2, <2>3
<1>7. h[p] = x
  BY <1>1 DEF Chares
<1>8. /\ Tidy(x) /\ m \cap Listed(x.tramHold) = {} /\ m \cap ToSet(x.deferred) = {}
      /\ Listed(x.tramHold) \cap ToSet(x.deferred) = {}
      /\ Chares(h)
  BY <1>6, <1>7 DEF Sound, Places
<1>9. x.tramHold = z.tramHold /\ x.created = s.created
  BY <1>2, <1>3 DEF SameRules
<1>10. /\ Listed(x.tramHold) = k \cup Listed(t.tramHold)
       /\ Apart(t.tramHold) /\ k \cap Listed(t.tramHold) = {}
  <2>1. x.tramHold \in [Bucket -> SUBSET Update] /\ Apart(x.tramHold)
    BY <1>3, <1>8 DEF Tidy, Chare
  <2> DEFINE l == x.tramHold
             b == r.tram
  <2> HIDE DEF l, b
  <2>2. l \in [Bucket -> SUBSET Update] /\ Apart(l)
    BY <2>1 DEF l
  <2>3. /\ Listed(l) = UpTo(l, b) \cup Listed(Cleared(l, b))
        /\ Apart(Cleared(l, b)) /\ UpTo(l, b) \cap Listed(Cleared(l, b)) = {}
    BY <2>2, ClearedIs
  <2> QED BY <1>3, <1>9, <2>3 DEF l, b
<1> HIDE DEF h, k
<1>11. Tidy(t) /\ Queue(t) = Queue(x)
  BY <1>3, <1>8, <1>10 DEF Tidy, Queue
<1> DEFINE a == m \cup k
<1>12. /\ m \subseteq a /\ a \cap Listed(t.tramHold) = {} /\ a \cap ToSet(t.deferred) = {}
       /\ a \cup Listed(t.tramHold) \cup ToSet(t.deferred)
            = m \cup Listed(x.tramHold) \cup ToSet(x.deferred)
       /\ Listed(t.tramHold) \subseteq Listed(x.tramHold)
  BY <1>3, <1>8, <1>10
<1> HIDE DEF a
<1>13. Sound([h EXCEPT ![p] = t], a)
  BY <1>3, <1>4, <1>6, <1>7, <1>9, <1>11, <1>12, RearrangeSound
<1>14. [h EXCEPT ![p] = t] = [f EXCEPT ![p] = t]
  BY <1>1, Twice DEF h
<1> QED BY <1>3, <1>13, <1>14 DEF a, t

LEMMA RelaxationsShape ==
  ASSUME NEW s, NEW u
  PROVE  Expands(s.dist, u, Relaxations(s, u))
<1> DEFINE r(e) == [via |-> e, to |-> To[e], d |-> u.d + Weight[e], ovf |-> FALSE]
<1>1. ASSUME NEW e
      PROVE  LET k == Charged(s, r(e)) IN k.via = e /\ k.to = To[e] /\ k.d = u.d + Weight[e]
  BY DEF Charged
<1>2. Relaxations(s, u) = IF u.d = s.dist[u.to] THEN {Charged(s, r(e)) : e \in Out(u.to)} ELSE {}
  BY DEF Relaxations
<1> HIDE DEF r
<1> QED BY <1>1, <1>2 DEF Expands

\* An expanded update leaves the queue and what is sent travels.
ExpandedPlaces(f, m, g, k, u, sent) ==
  /\ Travelling(g, k) = Travelling(f, m) \cup sent
  /\ Queued(g) = Queued(f) \ {u} /\ u \in Queued(f) /\ D(g) = D(f)

\* process_heap()
LEMMA ExpandSound ==
  ASSUME NEW f, NEW m, Sound(f, m), NEW p \in PE, NEW u \in f[p].pq
  PROVE  LET g == [f EXCEPT ![p] = Expanded(f[p], u)]
             a == m \cup {k \in Relaxations(f[p], u) : BucketAt(f[p], k) <= f[p].tram} IN
         Sound(g, a) /\ ExpandedPlaces(f, m, g, a, u, Relaxations(f[p], u))
<1> DEFINE s == f[p]
           t == Expanded(s, u)
           g == [f EXCEPT ![p] = t]
           sent == Relaxations(s, u)
           low == {k \in sent : BucketAt(s, k) <= s.tram}
           high == {k \in sent : BucketAt(s, k) > s.tram}
           a == m \cup low
<1>1. Chares(f) /\ m \subseteq Update /\ Places(f, m)
      /\ View(D(f), Travelling(f, m), Queued(f), Created(f), Processed(f))
  BY DEF Sound
<1>2. /\ ChareOK(p, s) /\ s \in Chare(p) /\ Fits(s.scale, s.limit) /\ s.tram \in Nat
      /\ Gathers(f, f, p, s) /\ \A v \in Vertex : Owner[v] = p => D(f)[v] = s.dist[v]
      /\ u \in Mine(p) /\ u \in Update /\ Tidy(s)
  <2>1. /\ ChareOK(p, s) /\ s \in Chare(p)
        /\ Gathers(f, f, p, s) /\ \A v \in Vertex : Owner[v] = p => D(f)[v] = s.dist[v]
    BY <1>1, Gathered
  <2>2. s.tram \in Nat /\ u \in Mine(p)
    BY <2>1, BucketType DEF Chare
  <2>3. Tidy(s)
    BY <1>1 DEF Places
  <2> QED BY <2>1, <2>2, <2>3 DEF ChareOK, Mine
<1>3. /\ t.dist = s.dist /\ t.hold = s.hold /\ t.deferred = s.deferred
      /\ t.pq = s.pq \ {u} /\ t.created = s.created \cup sent
      /\ t.processed = s.processed \cup {u} /\ t.tramHold = HeldWith(s, u)
  BY <1>2, ExpandedIs
<1>4. ChareOK(p, t)
  BY <1>2, ExpandedOK
<1>5. sent \in SUBSET Update /\ \A k \in sent : BucketAt(s, k) \in Bucket /\ BucketAt(s, k) \in Nat
  BY <1>2, RelaxationsIs, BucketAtIn, BucketType
<1>6. Expands(D(f), u, sent)
  <2>1. D(f)[u.to] = s.dist[u.to]
    BY <1>2 DEF Mine, Update
  <2>2. Expands(s.dist, u, sent)
    BY RelaxationsShape
  <2> HIDE DEF sent, s
  <2> QED BY <2>1, <2>2 DEF Expands
<1>7. low \cup high = sent /\ low \cap high = {}
  BY <1>2, <1>5
<1>8. Gathers(f, g, p, t)
  BY <1>1, <1>4, Replaced
<1>9. \A y : y \in Listed(t.tramHold) <=> y \in Listed(s.tramHold) \/ y \in high
  <2>1. \A y : y \in Listed(t.tramHold)
               <=> \E b \in Bucket : y \in s.tramHold[b] \/ y \in Held(s, u, b)
    BY <1>3 DEF Listed, HeldWith
  <2>2. \A y : y \in high <=> \E b \in Bucket : y \in Held(s, u, b)
    BY <1>5 DEF Held
  <2>3. \A y : y \in Listed(s.tramHold) <=> \E b \in Bucket : y \in s.tramHold[b]
    BY DEF Listed
  <2> QED BY <2>1, <2>2, <2>3
<1>10. u \in Queued(f) /\ u \notin Listed(s.hold)
  BY <1>2 DEF Queued, Queue, Tidy
<1> DEFINE n == Travelling(f, m)
           q == Queued(f)
           c == Created(f)
<1>11. View(D(f), n \cup sent, q \ {u}, c \cup sent, Processed(f) \cup {u}) /\ sent \cap c = {}
  <2> DEFINE d == D(f)
             x == Processed(f)
  <2>1. View(d, n, q, c, x) /\ u \in q /\ sent \in SUBSET Update
    BY <1>1, <1>5, <1>10
  <2>2. Expands(d, u, sent)
    BY <1>6
  <2> HIDE DEF n, q, c, sent, d, x
  <2>3. View(d, n \cup sent, q \ {u}, c \cup sent, x \cup {u}) /\ sent \cap c = {}
    BY <2>1, <2>2, ViewExpand
  <2> QED BY <2>3 DEF d, x
<1>12. n \subseteq c /\ m \subseteq n /\ InTram(f) \subseteq n /\ Deferred(f) \subseteq n
  BY <1>1 DEF Travelling, View, Accounted
<1> HIDE DEF g, t, sent, low, high
<1> USE DEF Gathers
<1>13. Created(g) = c \cup sent
  <2>1. \A y : y \in Created(g) <=> y \in c \/ y \in sent
    BY <1>2, <1>3, <1>8
  <2> QED BY <2>1
<1>14. Processed(g) = Processed(f) \cup {u}
  <2>1. \A y : y \in Processed(g) <=> y \in Processed(f) \/ y = u
    BY <1>2, <1>3, <1>8
  <2> QED BY <2>1
<1>15. Queued(g) = q \ {u}
  <2>1. Queue(t) = Queue(s) \ {u}
    BY <1>3, <1>10 DEF Queue
  <2>2. \A i \in PE : i # p => u \notin Queue(f[i])
    <3>1. \A i \in PE : Queue(f[i]) \subseteq Mine(i)
      BY <1>1, Gathered, OwnUpdates
    <3> QED BY <1>2, <3>1 DEF Mine
  <2>3. \A y : y \in Queued(g) <=> y \in q /\ y # u
    BY <1>2, <1>8, <2>1, <2>2
  <2> QED BY <2>3
<1>16. D(g) = D(f)
  BY <1>2, <1>3, <1>8 DEF DWith
<1>17. Travelling(g, a) = n \cup sent
  <2>1. \A y : y \in InTram(g) <=> y \in InTram(f) \/ y \in high
    BY <1>2, <1>8, <1>9
  <2>2. \A y : y \in Deferred(g) <=> y \in Deferred(f)
    BY <1>2, <1>3, <1>8
  <2>3. \A y : y \in sent <=> y \in low \/ y \in high
    BY <1>7
  <2>4. \A y : y \in Travelling(g, a) <=> y \in n \/ y \in sent
    BY <2>1, <2>2, <2>3 DEF Travelling
  <2> QED BY <2>4
<1>18. \A y \in sent : y \notin m /\ \A i \in PE : y \notin Listed(f[i].tramHold) /\ y \notin ToSet(f[i].deferred)
  BY <1>11, <1>12 DEF InTram, Deferred
<1>19. Apart(t.tramHold)
  <2> SUFFICES ASSUME NEW i \in Bucket, NEW j \in Bucket, i # j
               PROVE  t.tramHold[i] \cap t.tramHold[j] = {}
    BY DEF Apart
  <2>1. /\ t.tramHold[i] = s.tramHold[i] \cup Held(s, u, i)
        /\ t.tramHold[j] = s.tramHold[j] \cup Held(s, u, j)
    BY <1>3 DEF HeldWith
  <2>2. s.tramHold[i] \cap s.tramHold[j] = {}
    BY <1>2 DEF Tidy, Apart
  <2>3. Held(s, u, i) \cap Held(s, u, j) = {} /\ Held(s, u, i) \subseteq sent /\ Held(s, u, j) \subseteq sent
    BY DEF Held, sent
  <2>4. s.tramHold[i] \cap sent = {} /\ s.tramHold[j] \cap sent = {}
    BY <1>18 DEF Listed
  <2> QED BY <2>1, <2>2, <2>3, <2>4
<1>20. Places(g, a)
  <2>1. Tidy(t)
    BY <1>2, <1>3, <1>19 DEF Tidy
  <2>2. \A y : y \in a <=> y \in m \/ y \in low
    OBVIOUS
  <2>3. \A y \in low : y \in sent /\ y \notin high
    BY <1>7
  <2>4. \A y \in high : y \in sent
    BY <1>7
  <2>5. \A i \in PE : /\ Tidy(g[i]) /\ g[i].deferred = f[i].deferred
                      /\ \A y : y \in Listed(g[i].tramHold)
                                => y \in Listed(f[i].tramHold) \/ (i = p /\ y \in high)
    BY <1>1, <1>3, <1>8, <1>9, <2>1 DEF Places
  <2>6. ASSUME NEW i \in PE
        PROVE  a \cap Listed(g[i].tramHold) = {} /\ a \cap ToSet(g[i].deferred) = {}
    BY <1>1, <1>18, <2>2, <2>3, <2>4, <2>5 DEF Places
  <2>7. ASSUME NEW i \in PE, NEW j \in PE
        PROVE  Listed(g[i].tramHold) \cap ToSet(g[j].deferred) = {}
    BY <1>1, <1>18, <2>4, <2>5 DEF Places
  <2>8. ASSUME NEW i \in PE, NEW j \in PE, i # j
        PROVE  Listed(g[i].tramHold) \cap Listed(g[j].tramHold) = {}
    BY <1>1, <1>18, <2>4, <2>5, <2>8 DEF Places
  <2> QED BY <2>5, <2>6, <2>7, <2>8 DEF Places
<1>21. a \subseteq Update
  BY <1>1, <1>5, <1>7
<1>22. Sound(g, a)
  BY <1>8, <1>11, <1>13, <1>14, <1>15, <1>16, <1>17, <1>20, <1>21 DEF Sound
<1>23. ExpandedPlaces(f, m, g, a, u, sent)
  BY <1>10, <1>15, <1>16, <1>17 DEF ExpandedPlaces
<1> QED BY <1>22, <1>23 DEF g, t, low, sent

\* start_algo() charges the source's update.
LEMMA ChargeSound ==
  ASSUME NEW f, NEW m, Sound(f, m), Created(f) = {},
         NEW p \in PE, NEW u \in Mine(p), IsSourceUpdate(u)
  PROVE  Sound([f EXCEPT ![p] = Charge(f[p], {u})], m \cup {u})
<1> DEFINE s == f[p]
           t == Charge(s, {u})
           g == [f EXCEPT ![p] = t]
           a == m \cup {u}
<1>1. Chares(f) /\ m \subseteq Update /\ Places(f, m)
      /\ View(D(f), Travelling(f, m), Queued(f), Created(f), Processed(f))
  BY DEF Sound
<1>2. /\ ChareOK(p, s) /\ s \in Chare(p) /\ Gathers(f, f, p, s) /\ Tidy(s)
  BY <1>1, Gathered DEF Places
<1>3. {u} \in SUBSET Update /\ IsFiniteSet({u}) /\ u \in Update
  BY FS_Singleton DEF Mine
<1>4. ChareOK(p, t)
  BY <1>2, <1>3, ChargeOK
<1>5. /\ t.created = s.created \cup {u} /\ t.processed = s.processed
      /\ t.dist = s.dist /\ t.pq = s.pq /\ t.hold = s.hold
      /\ t.deferred = s.deferred /\ t.tramHold = s.tramHold
  BY <1>2, <1>3, ChargeIs
<1>6. Gathers(f, g, p, t)
  BY <1>1, <1>4, Replaced
<1>7. Travelling(f, m) = {}
  BY <1>1 DEF View, Accounted
<1> DEFINE d == D(f)
           n == Travelling(f, m)
           q == Queued(f)
           c == Created(f)
           x == Processed(f)
<1>8. View(d, n \cup {u}, q, c \cup {u}, x)
  <2>1. View(d, n, q, c, x) /\ c = {}
    BY <1>1
  <2> HIDE DEF d, n, q, c, x
  <2> QED BY <1>3, <2>1, ViewStart
<1> HIDE DEF g, t
<1> USE DEF Gathers
<1>9. Created(g) = c \cup {u}
  <2>1. \A y : y \in Created(g) <=> y \in c \/ y = u
    BY <1>2, <1>5, <1>6
  <2> QED BY <2>1
<1>10. Processed(g) = x
  <2>1. \A y : y \in Processed(g) <=> y \in x
    BY <1>2, <1>5, <1>6
  <2> QED BY <2>1
<1>11. Queued(g) = q
  <2>1. Queue(t) = Queue(s)
    BY <1>5 DEF Queue
  <2>2. \A y : y \in Queued(g) <=> y \in q
    BY <1>2, <1>6, <2>1
  <2> QED BY <2>2
<1>12. D(g) = d
  BY <1>2, <1>5, <1>6 DEF DWith
<1>13. Travelling(g, a) = n \cup {u}
  <2>1. \A y : y \in Travelling(g, a) <=> y \in n \/ y = u
    BY <1>2, <1>5, <1>6 DEF Travelling
  <2> QED BY <2>1
<1>14. Places(g, a)
  <2>1. \A i \in PE : /\ g[i].tramHold = f[i].tramHold /\ g[i].deferred = f[i].deferred
                      /\ Listed(f[i].tramHold) = {} /\ ToSet(f[i].deferred) = {}
    BY <1>5, <1>6, <1>7 DEF Travelling, InTram, Deferred
  <2>2. Tidy(t)
    BY <1>2, <1>5 DEF Tidy
  <2>3. \A i \in PE : Tidy(g[i])
    BY <1>1, <1>6, <2>2 DEF Places
  <2> QED BY <2>1, <2>3 DEF Places
<1>15. Sound(g, a)
  BY <1>1, <1>3, <1>6, <1>8, <1>9, <1>10, <1>11, <1>12, <1>13, <1>14 DEF Sound
<1> QED BY <1>15 DEF g, t

-----------------------------------------------------------------------------
(* Sound in every state *)

\* Nothing is created before the source's update.
SourceFirst == Created(pe) # {} => pe[Owner[Source]].created # {}

LEMMA SoundStart ==
  ASSUME Typed, Sound(pe, net), SourceFirst, NEW p \in PE, Start(p)
  PROVE  Sound(pe', net') /\ SourceFirst'
<1>1. PICK u \in Mine(p) :
           /\ u.via = NoEdge /\ u.to = Source /\ u.d = 0
           /\ pe[p].created = {} /\ p = Owner[Source]
           /\ ChareOK(p, Charge(pe[p], {u}))
           /\ ChareOK(p, ProcessUpdate(Charge(pe[p], {u}), u))
           /\ pe' = [pe EXCEPT ![p] = ProcessUpdate(Charge(pe[p], {u}), u)]
           /\ net' = net
  BY StartIs
<1>2. Created(pe) = {}
  BY <1>1 DEF SourceFirst
<1> DEFINE c == Charge(pe[p], {u})
           g == [pe EXCEPT ![p] = c]
<1>3. Sound(g, net \cup {u}) /\ Chares(pe)
  BY <1>1, <1>2, ChargeSound DEF IsSourceUpdate, Typed
<1>4. g[p] = c
  BY <1>3 DEF Chares
<1>5. u \notin net
  BY <1>2 DEF Sound, View, Accounted, Travelling
<1> HIDE DEF g
<1>6. Sound([g EXCEPT ![p] = ProcessUpdate(g[p], u)], (net \cup {u}) \ {u})
  <2> DEFINE m == net \cup {u}
  <2>1. Sound(g, m) /\ u \in m
    BY <1>3
  <2> HIDE DEF m
  <2>2. Sound([g EXCEPT ![p] = ProcessUpdate(g[p], u)], m \ {u})
    BY <2>1, UpdateSound
  <2> QED BY <2>2 DEF m
<1>7. (net \cup {u}) \ {u} = net
  BY <1>5
<1>8. Sound(pe', net')
  <2>1. [g EXCEPT ![p] = ProcessUpdate(c, u)] = [pe EXCEPT ![p] = ProcessUpdate(c, u)]
    BY <1>3, Twice DEF g
  <2> HIDE DEF c
  <2> QED BY <1>1, <1>4, <1>6, <1>7, <2>1 DEF c
<1>9. pe'[p].created # {}
  <2>1. c \in Chare(p) /\ c.created = pe[p].created \cup {u}
    <3>1. {u} \in SUBSET Update /\ IsFiniteSet({u}) /\ pe[p] \in Chare(p)
      BY FS_Singleton DEF Mine, Typed, Chares, ChareOK
    <3> DEFINE us == {u}
    <3> HIDE DEF us
    <3>2. us \in SUBSET Update /\ IsFiniteSet(us) /\ pe[p] \in Chare(p)
      BY <3>1 DEF us
    <3>3. Charge(pe[p], us) \in Chare(p) /\ Charge(pe[p], us).created = pe[p].created \cup us
      BY <3>2, ChargeIs
    <3> QED BY <3>3 DEF us
  <2> HIDE DEF c
  <2>2. SameRules(c, ProcessUpdate(c, u))
    BY <2>1, ProcessUpdateIs
  <2>3. pe'[p] = ProcessUpdate(c, u)
    BY <1>1, <1>3 DEF Chares, c
  <2> QED BY <2>1, <2>2, <2>3 DEF SameRules
<1> QED BY <1>1, <1>8, <1>9 DEF SourceFirst

LEMMA SoundFold ==
  ASSUME Typed, Sound(pe, net), NEW p \in PE, FoldBatch(p)
  PROVE  Sound(pe', net')
<1>1. PICK x, y, s :
           /\ x \in net /\ y \in net
           /\ x # y /\ x \in Mine(p) /\ y \in Mine(p) /\ x.to = y.to
           /\ \/ s = ProcessUpdate(pe[p], x)
              \/ s = Retire(pe[p], x) /\ y.d <= x.d /\ BatchFold
           /\ pe' = [pe EXCEPT ![p] = ProcessUpdate(s, y)]
           /\ net' = net \ {x, y}
  BY FoldIs
<1> DEFINE g == [pe EXCEPT ![p] = s]
           m == net \ {x}
<1>2. Sound(g, m)
  <2>1. CASE s = ProcessUpdate(pe[p], x)
    BY <1>1, <2>1, UpdateSound
  <2>2. CASE s = Retire(pe[p], x) /\ y.d <= x.d
    <3>1. y \in net \ {x} /\ y.to = x.to
      BY <1>1
    <3> QED BY <1>1, <2>2, <3>1, RetireSound
  <2> QED BY <1>1, <2>1, <2>2
<1>3. Chares(pe) /\ g[p] = s /\ y \in m /\ net' = m \ {y}
  BY <1>1 DEF Typed, Chares
<1>4. [g EXCEPT ![p] = ProcessUpdate(s, y)] = [pe EXCEPT ![p] = ProcessUpdate(s, y)]
  BY <1>3, Twice
<1> HIDE DEF g, m
<1>5. Sound([g EXCEPT ![p] = ProcessUpdate(g[p], y)], m \ {y})
  BY <1>1, <1>2, <1>3, UpdateSound
<1> QED BY <1>1, <1>3, <1>4, <1>5

\* The counters only grow.
Grows(s, t) == s.created \subseteq t.created /\ s.processed \subseteq t.processed

LEMMA ProcessUpdateGrows ==
  ASSUME NEW p, NEW s \in Chare(p), NEW u \in Mine(p)
  PROVE  LET t == ProcessUpdate(s, u) IN
         t \in Chare(p) /\ t.created = s.created /\ Grows(s, t)
<1> DEFINE t == ProcessUpdate(s, u)
           z == Improved(s, u)
<1>0. u \in Update
  BY DEF Mine
<1>1. /\ t \in Chare(p) /\ SameRules(s, t)
      /\ \/ MustDefer(s, u) /\ t = Defer(s, u)
         \/ ~(u.d < s.dist[u.to]) /\ t = Retire(s, u)
         \/ u.d < s.dist[u.to] /\ Out(u.to) = {} /\ t = Retire(z, u)
         \/ u.d < s.dist[u.to] /\ t = Kept(z, u)
  BY ProcessUpdateIs
<1> HIDE DEF t
<1>2. CASE t = Defer(s, u)
  BY <1>1, <1>2, DeferIs DEF Grows, SameRules, t
<1>3. CASE t = Retire(s, u)
  <2>1. t.processed = s.processed \cup {u}
    BY <1>0, <1>3, RetireIs
  <2> QED BY <1>1, <2>1 DEF Grows, SameRules, t
<1>4. ASSUME u.d < s.dist[u.to]
      PROVE  z \in Chare(p) /\ z.processed = s.processed
  <2>1. /\ z \in Chare(p)
        /\ SameRules(s, z) /\ z.dist = [s.dist EXCEPT ![u.to] = u.d]
        /\ z.deferred = s.deferred /\ z.pq = s.pq /\ z.hold = s.hold
        /\ z.processed = s.processed /\ z.histogram = s.histogram
    BY <1>4, ImprovedIs
  <2> QED BY <2>1
<1> HIDE DEF z
<1>5. CASE u.d < s.dist[u.to] /\ t = Retire(z, u)
  <2>1. t.processed = z.processed \cup {u}
    BY <1>0, <1>4, <1>5, RetireIs
  <2> QED BY <1>1, <1>4, <1>5, <2>1 DEF Grows, SameRules, t
<1>6. CASE u.d < s.dist[u.to] /\ t = Kept(z, u)
  <2>1. t.processed = z.processed
    BY <1>4, <1>6, KeptIs
  <2> QED BY <1>1, <1>4, <1>6, <2>1 DEF Grows, SameRules, t
<1> QED BY <1>1, <1>2, <1>3, <1>5, <1>6

LEMMA TakeUpGrows ==
  ASSUME NEW p, NEW s, ChareOK(p, s), NEW r \in RoundType
  PROVE  LET t == TakeUp(s, r) IN t.created = s.created /\ Grows(s, t)
<1> DEFINE z == Merged(s, r)
           q == z.deferred
           n == Len(q)
<1>1. s \in Chare(p) /\ Fits(s.scale, s.limit)
  BY DEF ChareOK
<1>2. z \in Chare(p) /\ z.created = s.created /\ z.processed = s.processed
  BY <1>1, MergedIs
<1>3. TakeUp(s, r).created = s.created /\ TakeUp(s, r).processed = Reprocess(z).processed
  BY <1>1, TakeUpIs
<1> HIDE DEF z
<1>4. PICK w : /\ Passes(z, w)
               /\ \A i \in 0..n : w[i] \in Chare(p) /\ SameRules(z, w[i])
  BY <1>2, ReprocessIs
<1>5. n \in Nat /\ \A i \in 1..n : q[i] \in Mine(p)
  <2>1. q \in Seq(Mine(p))
    BY <1>2 DEF Chare
  <2> HIDE DEF q
  <2> QED BY <2>1
<1>6. /\ w[0] = [z EXCEPT !.deferred = <<>>] /\ Reprocess(z) = w[n]
      /\ \A i \in 1..n : w[i] = ProcessUpdate(w[i - 1], q[i])
  BY <1>4 DEF Passes
<1> HIDE DEF q, n
<1> DEFINE G == {i \in 0..n : z.processed \subseteq w[i].processed}
<1>7. 0 \in G
  <2>1. w[0].processed = z.processed /\ 0 \in 0..n
    BY <1>2, <1>5, <1>6 DEF Chare
  <2> QED BY <2>1
<1>8. ASSUME NEW i \in 1..n, i - 1 \in G PROVE i \in G
  <2>1. w[i - 1] \in Chare(p) /\ q[i] \in Mine(p) /\ z.processed \subseteq w[i - 1].processed
        /\ i \in 0..n
    BY <1>4, <1>5, <1>8
  <2>2. Grows(w[i - 1], ProcessUpdate(w[i - 1], q[i]))
    BY <2>1, ProcessUpdateGrows
  <2> QED BY <1>6, <2>1, <2>2 DEF Grows
<1> HIDE DEF G
<1>9. n \in G
  <2>1. \A i \in 0..n : i \in G
    BY <1>5, <1>7, <1>8, Climb
  <2> QED BY <1>5, <2>1
<1> QED BY <1>2, <1>3, <1>6, <1>9 DEF G, Grows

\* One chare changes.
Changes(p, t) == pe' = [pe EXCEPT ![p] = t]

LEMMA ChangesGrow ==
  ASSUME Typed, NEW p \in PE, NEW t, Changes(p, t), Grows(pe[p], t)
  PROVE  /\ \A q \in PE : Grows(pe[q], pe'[q])
         /\ t.created = pe[p].created => \A q \in PE : pe'[q].created = pe[q].created
<1>1. pe'[p] = t /\ \A q \in PE : q # p => pe'[q] = pe[q]
  BY DEF Typed, Chares, Changes
<1>2. \A s : Grows(s, s)
  BY DEF Grows
<1> QED BY <1>1, <1>2

\* Only Start and ProcessHeap create.
LEMMA StepGrows ==
  ASSUME Typed, [Next]_vars
  PROVE  /\ \A q \in PE : Grows(pe[q], pe'[q])
         /\ \/ \A q \in PE : pe'[q].created = pe[q].created
            \/ \E p \in PE : Start(p) \/ ProcessHeap(p)
<1>0. ASSUME NEW p \in PE PROVE ChareOK(p, pe[p]) /\ pe[p] \in Chare(p)
  BY DEF Typed, Chares, ChareOK
<1>1. ASSUME NEW p \in PE, Start(p) PROVE \A q \in PE : Grows(pe[q], pe'[q])
  <2>1. PICK u \in Mine(p) :
           /\ ChareOK(p, Charge(pe[p], {u}))
           /\ pe' = [pe EXCEPT ![p] = ProcessUpdate(Charge(pe[p], {u}), u)]
    BY <1>1, StartIs
  <2> DEFINE us == {u}
             c == Charge(pe[p], us)
  <2>2. us \in SUBSET Update /\ IsFiniteSet(us)
    BY FS_Singleton DEF Mine
  <2>3. Changes(p, ProcessUpdate(c, u))
    BY <2>1 DEF Changes
  <2> HIDE DEF us
  <2>4. c \in Chare(p) /\ c.created = pe[p].created \cup us /\ c.processed = pe[p].processed
    BY <1>0, <2>2, ChargeIs
  <2> HIDE DEF c
  <2>5. Grows(c, ProcessUpdate(c, u))
    BY <2>4, ProcessUpdateGrows
  <2>6. Grows(pe[p], ProcessUpdate(c, u))
    BY <2>4, <2>5 DEF Grows
  <2> QED BY <2>3, <2>6, ChangesGrow
<1> DEFINE Same == /\ \A q \in PE : Grows(pe[q], pe'[q])
                   /\ \A q \in PE : pe'[q].created = pe[q].created
<1>2. ASSUME NEW p \in PE, Deliver(p) PROVE Same
  <2>1. PICK u \in Mine(p) : Changes(p, ProcessUpdate(pe[p], u))
    BY <1>2, DeliverIs DEF Changes
  <2>2. Grows(pe[p], ProcessUpdate(pe[p], u)) /\ ProcessUpdate(pe[p], u).created = pe[p].created
    BY <1>0, ProcessUpdateGrows
  <2> QED BY <2>1, <2>2, ChangesGrow
<1>3. ASSUME NEW p \in PE, FoldBatch(p) PROVE Same
  <2>1. PICK x, y, s :
           /\ x \in Mine(p) /\ y \in Mine(p)
           /\ s = ProcessUpdate(pe[p], x) \/ s = Retire(pe[p], x)
           /\ ChareOK(p, s) /\ Changes(p, ProcessUpdate(s, y))
    BY <1>3, FoldIs DEF Changes
  <2>2. s.created = pe[p].created /\ Grows(pe[p], s) /\ s \in Chare(p)
    <3>1. CASE s = ProcessUpdate(pe[p], x)
      BY <1>0, <2>1, <3>1, ProcessUpdateGrows
    <3>2. CASE s = Retire(pe[p], x)
      <4>1. x \in Update
        BY <2>1 DEF Mine
      <4>2. SameRules(pe[p], s) /\ s.processed = pe[p].processed \cup {x} /\ s \in Chare(p)
        BY <1>0, <3>2, <4>1, RetireIs
      <4> QED BY <4>2 DEF SameRules, Grows
    <3> QED BY <2>1, <3>1, <3>2
  <2> DEFINE t == ProcessUpdate(s, y)
  <2>3. t.created = s.created /\ Grows(s, t)
    BY <2>1, <2>2, ProcessUpdateGrows
  <2> HIDE DEF t
  <2>4. t.created = pe[p].created /\ Grows(pe[p], t)
    BY <2>2, <2>3 DEF Grows
  <2>5. Changes(p, t)
    BY <2>1 DEF t
  <2> QED BY <2>4, <2>5, ChangesGrow
<1>4. ASSUME NEW p \in PE, ProcessHeap(p) PROVE \A q \in PE : Grows(pe[q], pe'[q])
  <2>1. PICK u \in pe[p].pq : Changes(p, Expanded(pe[p], u))
    BY <1>4, HeapIs DEF Changes
  <2>2. Grows(pe[p], Expanded(pe[p], u))
    BY <1>0, ExpandedIs DEF Grows
  <2> QED BY <2>1, <2>2, ChangesGrow
<1>5. ASSUME NEW p \in PE, ClearPqHold(p) PROVE Same
  <2> DEFINE t == Admitted(pe[p])
  <2>1. Changes(p, t)
    BY <1>5, ClearIs DEF Changes
  <2>2. SameRules(pe[p], t) /\ t.processed = pe[p].processed
    BY <1>0, AdmittedIs
  <2> HIDE DEF t
  <2>3. t.created = pe[p].created /\ Grows(pe[p], t)
    BY <2>2 DEF Grows, SameRules
  <2> QED BY <2>1, <2>3, ChangesGrow
<1>6. ASSUME NEW p \in PE, CurrentThresholds(p) PROVE Same
  <2>1. Changes(p, TakeUp(pe[p], round)) /\ round \in RoundType
    BY <1>6, ThresholdsIs DEF Changes, Typed
  <2>2. TakeUp(pe[p], round).created = pe[p].created /\ Grows(pe[p], TakeUp(pe[p], round))
    BY <1>0, <2>1, TakeUpGrows
  <2> QED BY <2>1, <2>2, ChangesGrow
<1>7. ASSUME pe' = pe PROVE Same
  BY <1>7 DEF Grows
<1> HIDE DEF Same
<1>8. \/ \E p \in PE : Start(p) \/ ProcessHeap(p)
      \/ Same
  BY <1>2, <1>3, <1>5, <1>6, <1>7 DEF Next, vars, FirstContribution, Finish, NextRound
<1> QED BY <1>1, <1>4, <1>8 DEF Same

SoundAlways == Typed /\ Sound(pe, net) /\ SourceFirst

LEMMA SoundInit == Init => SoundAlways
<1> SUFFICES ASSUME Init PROVE SoundAlways
  OBVIOUS
<1>0. Typed
  BY TypedInit
<1>1. pe = [p \in PE |-> NewPE(p)] /\ net = {}
  BY DEF Init
<1>2. ASSUME NEW p \in PE
      PROVE  /\ pe[p].dist = [v \in {w \in Vertex : Owner[w] = p} |-> Lmax]
             /\ pe[p].created = {} /\ pe[p].processed = {} /\ pe[p].pq = {}
             /\ pe[p].hold = NoLists /\ pe[p].deferred = <<>> /\ pe[p].tramHold = NoLists
  BY <1>1 DEF NewPE
<1>3. Listed(NoLists) = {} /\ Apart(NoLists) /\ ToSet(<<>>) = {} /\ NoRepeat(<<>>)
  BY DEF Listed, NoLists, Apart, ToSet, NoRepeat
<1>4. /\ Travelling(pe, net) = {} /\ Queued(pe) = {} /\ Created(pe) = {} /\ Processed(pe) = {}
  <2>1. \A p \in PE : /\ Listed(pe[p].tramHold) = {} /\ ToSet(pe[p].deferred) = {}
                      /\ Queue(pe[p]) = {} /\ pe[p].created = {} /\ pe[p].processed = {}
    BY <1>2, <1>3 DEF Queue
  <2>2. Created(pe) = {} /\ Processed(pe) = {}
    BY <2>1 DEF Created, Processed
  <2>3. Queued(pe) = {}
    BY <2>1 DEF Queued
  <2>4. Travelling(pe, net) = {}
    BY <1>1, <2>1 DEF Travelling, InTram, Deferred
  <2> QED BY <2>2, <2>3, <2>4
<1>5. Places(pe, net)
  BY <1>1, <1>2, <1>3 DEF Places, Tidy
<1>6. D(pe) = [v \in Vertex |-> Lmax]
  <2>1. ASSUME NEW v \in Vertex PROVE pe[Owner[v]].dist[v] = Lmax
    <3> DEFINE p == Owner[v]
    <3>1. p \in PE
      BY AcicAssumption
    <3>2. pe[p].dist = [u \in {w \in Vertex : Owner[w] = p} |-> Lmax]
      BY <1>2, <3>1
    <3>3. v \in {w \in Vertex : Owner[w] = p}
      OBVIOUS
    <3> QED BY <3>2, <3>3
  <2> QED BY <2>1 DEF D
<1> DEFINE d == [v \in Vertex |-> Lmax]
<1>7. View(d, {}, {}, {}, {})
  <2>1. d \in [Vertex -> Nat]
    BY GraphAssumption
  <2>2. Bounded(d, {})
    BY GraphAssumption DEF Bounded, Potential, PotentialFrom, Distance
  <2>3. Owed(d, {}, {})
    BY GraphAssumption DEF Owed, Beaten
  <2> QED BY <2>1, <2>2, <2>3 DEF View, Accounted, Shaped, Single, Fresh, Begun
<1> QED BY <1>0, <1>1, <1>4, <1>5, <1>6, <1>7 DEF SoundAlways, Sound, SourceFirst, Typed

LEMMA SoundStep == SoundAlways /\ [Next]_vars => SoundAlways'
<1> SUFFICES ASSUME SoundAlways, [Next]_vars PROVE SoundAlways'
  OBVIOUS
<1>0. Typed /\ Sound(pe, net) /\ SourceFirst /\ Typed'
  BY TypedStep DEF SoundAlways
<1>1. ASSUME NEW p \in PE, Start(p) PROVE SoundAlways'
  BY <1>0, <1>1, SoundStart DEF SoundAlways
<1>2. ASSUME \A q \in PE : pe'[q].created = pe[q].created PROVE SourceFirst'
  BY <1>0, <1>2, SourceAssumption, AcicAssumption DEF SourceFirst, Created
<1>3. ASSUME NEW p \in PE, ProcessHeap(p) PROVE SourceFirst'
  <2>1. \E u : u \in pe[p].pq
    BY <1>3 DEF ProcessHeap
  <2>2. Created(pe) # {}
    BY <1>0, <2>1 DEF Sound, View, Accounted, Queued, Queue
  <2>3. Owner[Source] \in PE
    BY AcicAssumption, SourceAssumption
  <2>4. Grows(pe[Owner[Source]], pe'[Owner[Source]])
    BY <1>0, <2>3, StepGrows
  <2> QED BY <1>0, <2>2, <2>4 DEF SourceFirst, Grows
<1>4. SourceFirst' \/ \E p \in PE : Start(p)
  BY <1>0, <1>2, <1>3, StepGrows
<1>5. ASSUME NEW p \in PE, Deliver(p) PROVE Sound(pe', net')
  BY <1>0, <1>5, DeliverIs, UpdateSound
<1>6. ASSUME NEW p \in PE, FoldBatch(p) PROVE Sound(pe', net')
  BY <1>0, <1>6, SoundFold
<1>7. ASSUME NEW p \in PE, ProcessHeap(p) PROVE Sound(pe', net')
  BY <1>0, <1>7, HeapIs, ExpandSound
<1>8. ASSUME NEW p \in PE, ClearPqHold(p) PROVE Sound(pe', net')
  BY <1>0, <1>8, ClearIs, AdmitSound
<1>9. ASSUME NEW p \in PE, CurrentThresholds(p) PROVE Sound(pe', net')
  BY <1>0, <1>9, ThresholdsIs, TakeUpSound DEF Typed
<1>10. ASSUME pe' = pe, net' = net PROVE Sound(pe', net')
  BY <1>0, <1>10
<1>11. Sound(pe', net') \/ \E p \in PE : Start(p)
  BY <1>5, <1>6, <1>7, <1>8, <1>9, <1>10 DEF Next, vars, FirstContribution, Finish, NextRound
<1> QED BY <1>0, <1>1, <1>4, <1>11 DEF SoundAlways

-----------------------------------------------------------------------------
(* The termination test: two equal sums mean that nothing was live when the  *)
(* round between them was broadcast                                          *)

\* Everything created is processed.
Idle == Created(pe) = Processed(pe) /\ Created(pe) # {}

\* The counters at the broadcast lie between the two sums Main compares: after
\* every contribution to the last round, before any to this one.
Between ==
  /\ \A p \in PE : /\ atRound.created[p] \subseteq pe[p].created
                   /\ atRound.processed[p] \subseteq pe[p].processed
  /\ \A p \in PE \ waiting :
       /\ atRound.created[p] \subseteq reduction.created[p]
       /\ reduction.created[p] \subseteq pe[p].created
       /\ atRound.processed[p] \subseteq reduction.processed[p]
       /\ reduction.processed[p] \subseteq pe[p].processed
  /\ main.created \subseteq All(atRound.created)
  /\ main.processed \subseteq All(atRound.processed)
  /\ All(atRound.processed) \subseteq All(atRound.created)

QuietAtRound ==
  All(atRound.created) = All(atRound.processed) /\ All(atRound.created) # {} => Idle

Snapshots == Between /\ QuietAtRound /\ (main.done => Idle)

LEMMA AllIs ==
  ASSUME NEW h
  PROVE  \A y : y \in All(h) <=> \E p \in PE : y \in h[p]
BY DEF All

LEMMA CreatedFinite ==
  ASSUME Typed
  PROVE  IsFiniteSet(Created(pe))
<1> DEFINE f == [p \in PE |-> pe[p].created]
           S == {f[p] : p \in PE}
<1>1. \A p \in PE : IsFiniteSet(pe[p].created)
  BY DEF Typed, Chares, ChareOK
<1>2. IsFiniteSet(S)
  <2>1. f \in Surjection(PE, S)
    BY DEF Surjection
  <2> QED BY <2>1, AcicAssumption, FS_Surjection
<1>3. \A s \in S : IsFiniteSet(s)
  BY <1>1
<1>4. IsFiniteSet(UNION S)
  <2> HIDE DEF S
  <2> QED BY <1>2, <1>3, FS_UNION
<1>5. Created(pe) = UNION S
  <2>1. \A y : y \in UNION S <=> \E p \in PE : y \in pe[p].created
    OBVIOUS
  <2>2. \A y : y \in Created(pe) <=> \E p \in PE : y \in pe[p].created
    BY DEF Created
  <2> HIDE DEF S
  <2> QED BY <2>1, <2>2
<1> QED BY <1>4, <1>5

LEMMA DoubleSnapshot ==
  ASSUME SoundAlways, Snapshots, waiting = {}, Converged
  PROVE  Idle
<1> DEFINE C == All(reduction.created)
           Q == All(reduction.processed)
           R == All(atRound.created)
           S == All(atRound.processed)
<1>1. /\ main.created \subseteq R /\ R \subseteq C /\ C \subseteq Created(pe)
      /\ main.processed \subseteq S /\ S \subseteq Q /\ Q \subseteq Created(pe)
      /\ S \subseteq R
  <2>1. \A p \in PE : /\ atRound.created[p] \subseteq reduction.created[p]
                      /\ reduction.created[p] \subseteq pe[p].created
                      /\ atRound.processed[p] \subseteq reduction.processed[p]
                      /\ reduction.processed[p] \subseteq pe[p].processed
    BY DEF Snapshots, Between
  <2>2. R \subseteq C /\ C \subseteq Created(pe) /\ S \subseteq Q /\ Q \subseteq Processed(pe)
    BY <2>1 DEF All, Created, Processed
  <2>3. Processed(pe) \subseteq Created(pe)
    BY DEF SoundAlways, Sound, View, Accounted
  <2> QED BY <2>2, <2>3 DEF Snapshots, Between
<1>2. IsFiniteSet(C) /\ IsFiniteSet(Q)
  BY <1>1, CreatedFinite, FS_Subset DEF SoundAlways
<1>3. /\ Cardinality(C) > 0 /\ Cardinality(Q) = Cardinality(C)
      /\ Cardinality(C) = Cardinality(main.created)
      /\ Cardinality(Q) = Cardinality(main.processed)
  BY DEF Converged, SameAsLastRound, Sums
<1> HIDE DEF C, Q, R, S
<1>4. main.created = C
  <2>1. main.created \subseteq C
    BY <1>1
  <2> QED BY <1>2, <1>3, <2>1, FS_Subset, Zenon
<1>5. main.processed = Q
  <2>1. main.processed \subseteq Q
    BY <1>1
  <2> QED BY <1>2, <1>3, <2>1, FS_Subset, Zenon
<1>6. R = C /\ S = Q /\ Q \subseteq C
  BY <1>1, <1>4, <1>5
<1>7. Q = C
  BY <1>2, <1>3, <1>6, FS_Subset, Zenon
<1>8. C # {}
  BY <1>3, FS_EmptySet
<1> QED
  BY <1>6, <1>7, <1>8 DEF Snapshots, QuietAtRound, R, S

\* Idle is for good: nothing is left that could create an update.
LEMMA IdleStays ==
  ASSUME SoundAlways, Idle, [Next]_vars
  PROVE  Idle' /\ \A q \in PE : pe'[q].created = pe[q].created
<1>0. Typed /\ Sound(pe, net) /\ SoundAlways' /\ Sound(pe', net')
  BY SoundStep DEF SoundAlways
<1>1. Queued(pe) = {}
  BY <1>0 DEF Idle, Sound, View, Accounted
<1>2. ASSUME NEW p \in PE PROVE ~Start(p) /\ ~ProcessHeap(p)
  <2>1. pe[p].pq = {}
    BY <1>1 DEF Queued, Queue
  <2>2. pe[Owner[Source]].created # {}
    BY DEF SoundAlways, SourceFirst, Idle
  <2> QED BY <2>1, <2>2 DEF Start, ProcessHeap
<1>3. \A q \in PE : pe'[q].created = pe[q].created /\ Grows(pe[q], pe'[q])
  BY <1>0, <1>2, StepGrows
<1>4. Created(pe') = Created(pe) /\ Processed(pe) \subseteq Processed(pe')
  BY <1>3 DEF Created, Processed, Grows
<1>5. Processed(pe') \subseteq Created(pe')
  BY <1>0 DEF Sound, View, Accounted
<1> QED BY <1>3, <1>4, <1>5 DEF Idle

LEMMA SnapshotsInit == Init => Snapshots
<1> SUFFICES ASSUME Init PROVE Snapshots
  OBVIOUS
<1>1. All(Nothing) = {} /\ \A p \in PE : Nothing[p] = {}
  BY DEF All, Nothing
<1>2. /\ atRound = [created |-> Nothing, processed |-> Nothing] /\ waiting = PE
      /\ main.created = {} /\ main.processed = {} /\ main.done = FALSE
  BY DEF Init
<1> QED BY <1>1, <1>2 DEF Snapshots, Between, QuietAtRound

LEMMA SnapshotsStep == SoundAlways /\ Snapshots /\ [Next]_vars => Snapshots'
<1> SUFFICES ASSUME SoundAlways, Snapshots, [Next]_vars PROVE Snapshots'
  OBVIOUS
<1>0. Typed /\ SoundAlways'
  BY SoundStep DEF SoundAlways
<1>1. \A q \in PE : Grows(pe[q], pe'[q])
  BY <1>0, StepGrows
<1>2. Idle => Idle'
  BY IdleStays
<1>3. CASE UNCHANGED <<waiting, reduction, main, atRound>>
  BY <1>1, <1>2, <1>3 DEF Snapshots, Between, QuietAtRound, Grows
<1>4. ASSUME NEW p \in PE, p \in waiting, NEW s, Contribute(p, s), pe'[p] = s,
             UNCHANGED <<main, atRound>>
      PROVE  Snapshots'
  <2>1. /\ waiting' = waiting \ {p}
        /\ reduction'.created[p] = s.created /\ reduction'.processed[p] = s.processed
        /\ \A q \in PE : q # p => /\ reduction'.created[q] = reduction.created[q]
                                  /\ reduction'.processed[q] = reduction.processed[q]
    <3>1. reduction.created \in Counters /\ reduction.processed \in Counters
      BY <1>0 DEF Typed, ReductionType
    <3>2. /\ reduction'.created = [reduction.created EXCEPT ![p] = s.created]
          /\ reduction'.processed = [reduction.processed EXCEPT ![p] = s.processed]
      BY <1>4 DEF Contribute
    <3> QED BY <1>4, <3>1, <3>2 DEF Contribute, Counters
  <2>2. Between'
    <3>1. ASSUME NEW q \in PE \ waiting'
          PROVE  /\ atRound.created[q] \subseteq reduction'.created[q]
                 /\ reduction'.created[q] \subseteq pe'[q].created
                 /\ atRound.processed[q] \subseteq reduction'.processed[q]
                 /\ reduction'.processed[q] \subseteq pe'[q].processed
      <4>1. CASE q = p
        <5>1. /\ atRound.created[p] \subseteq pe'[p].created
              /\ atRound.processed[p] \subseteq pe'[p].processed
          BY <1>1 DEF Snapshots, Between, Grows
        <5> QED BY <1>4, <2>1, <4>1, <5>1
      <4>2. CASE q # p
        <5>1. q \in PE \ waiting
          BY <2>1, <4>2
        <5> QED BY <1>1, <2>1, <4>2, <5>1 DEF Snapshots, Between, Grows
      <4> QED BY <4>1, <4>2
    <3> QED BY <1>1, <1>4, <3>1 DEF Snapshots, Between, Grows
  <2> QED BY <1>2, <1>4, <2>2 DEF Snapshots, QuietAtRound
<1>5. ASSUME NEW p \in PE, FirstContribution(p) PROVE Snapshots'
  BY <1>4, <1>5 DEF FirstContribution
<1>6. ASSUME NEW p \in PE, CurrentThresholds(p) PROVE Snapshots'
  <2> DEFINE s == TakeUp(pe[p], round)
  <2>1. p \in waiting /\ Contribute(p, s) /\ pe' = [pe EXCEPT ![p] = s] /\ MainFrame
    BY <1>0, <1>6, ThresholdsIs
  <2>2. pe'[p] = s
    BY <1>0, <2>1 DEF Typed, Chares
  <2> HIDE DEF s
  <2> QED BY <1>4, <2>1, <2>2 DEF MainFrame
<1>7. CASE Finish
  <2>1. Idle
    BY <1>7, DoubleSnapshot DEF Finish, Complete
  <2>2. main'.created = main.created /\ main'.processed = main.processed
    BY <1>0, <1>7 DEF Finish, Typed, MainType
  <2> QED BY <1>2, <1>7, <2>1, <2>2 DEF Finish, Snapshots, Between, QuietAtRound
<1>8. CASE NextRound
  <2>1. /\ waiting = {} /\ waiting' = PE /\ pe' = pe /\ ~main.done
        /\ atRound' = [created |-> [p \in PE |-> pe[p].created],
                       processed |-> [p \in PE |-> pe[p].processed]]
    BY <1>8 DEF NextRound, Complete
  <2>2. /\ main'.created = All(reduction.created) /\ main'.processed = All(reduction.processed)
        /\ main'.done = main.done
    BY <1>0, <1>8 DEF NextRound, Typed, MainType
  <2>3. All(atRound'.created) = Created(pe) /\ All(atRound'.processed) = Processed(pe)
    BY <2>1 DEF All, Created, Processed
  <2>4. /\ All(reduction.created) \subseteq Created(pe)
        /\ All(reduction.processed) \subseteq Processed(pe)
    BY <2>1 DEF Snapshots, Between, All, Created, Processed
  <2>5. Processed(pe) \subseteq Created(pe)
    BY DEF SoundAlways, Sound, View, Accounted
  <2>6. Between'
    BY <2>1, <2>2, <2>3, <2>4, <2>5 DEF Between
  <2> QED BY <2>1, <2>2, <2>3, <2>6 DEF Snapshots, QuietAtRound, Idle
<1> QED BY <1>3, <1>5, <1>6, <1>7, <1>8 DEF Next, vars, Start, Deliver, FoldBatch, ProcessHeap, ClearPqHold

LEMMA RunAlways == Spec => [](SoundAlways /\ Snapshots)
<1>1. Init => SoundAlways /\ Snapshots
  BY SoundInit, SnapshotsInit
<1>2. SoundAlways /\ Snapshots /\ [Next]_vars => (SoundAlways /\ Snapshots)'
  BY SoundStep, SnapshotsStep
<1> QED BY <1>1, <1>2, PTL DEF Spec

\* What is where when everything created is processed.
LEMMA IdleIs ==
  ASSUME SoundAlways, Idle
  PROVE  /\ Travelling(pe, net) = {} /\ Queued(pe) = {} /\ LiveUpdates = {}
         /\ All([p \in PE |-> pe[p].created]) # {}
<1>1. Travelling(pe, net) = {} /\ Queued(pe) = {}
  BY DEF SoundAlways, Sound, View, Accounted, Idle
<1>2. ASSUME NEW p \in PE
      PROVE  /\ pe[p].pq = {} /\ ToSet(pe[p].deferred) = {}
             /\ \A b \in Bucket : pe[p].hold[b] = {} /\ pe[p].tramHold[b] = {}
  <2>1. Queue(pe[p]) = {} /\ Listed(pe[p].tramHold) = {} /\ ToSet(pe[p].deferred) = {}
    BY <1>1 DEF Queued, Travelling, InTram, Deferred
  <2> QED BY <2>1 DEF Queue, Listed
<1>3. \A p \in PE : AtPE(p) = {}
  BY <1>2 DEF AtPE
<1>4. InFlight = {}
  BY <1>1, <1>2 DEF InFlight, Travelling
<1>5. All([p \in PE |-> pe[p].created]) = Created(pe)
  BY DEF All, Created
<1> QED BY <1>1, <1>3, <1>4, <1>5 DEF LiveUpdates, Idle

\* When Main announces the end no update is live: not in a message, in htram's
\* hold, deferred, in pq_hold or in a queue, although its two sums were taken
\* at different times on different PEs and thresholds kept work back.
THEOREM TerminationSafe == Spec => []NoFalseTermination
<1>1. SoundAlways /\ Snapshots => NoFalseTermination
  BY IdleIs DEF Snapshots, NoFalseTermination
<1> QED BY <1>1, RunAlways, PTL

LEMMA IdleShortest ==
  ASSUME SoundAlways, Idle
  PROVE  IsShortest(Dist)
<1>1. Dist = D(pe)
  BY DEF Dist, D
<1>2. Dist \in [Vertex -> Distance]
  <2>1. ASSUME NEW v \in Vertex PROVE pe[Owner[v]].dist[v] \in Distance
    <3>1. Owner[v] \in PE
      BY AcicAssumption
    <3>2. pe[Owner[v]] \in Chare(Owner[v])
      BY <3>1 DEF SoundAlways, Typed, Chares, ChareOK
    <3> QED BY <3>2 DEF Chare
  <2> QED BY <2>1 DEF Dist
<1>3. View(D(pe), {}, {}, Created(pe), Processed(pe)) /\ Created(pe) # {}
  BY IdleIs DEF SoundAlways, Sound, Idle
<1> DEFINE d == Dist
<1>4. \A e \in Edge : d[To[e]] <= d[From[e]] + Weight[e]
  BY <1>1, <1>3 DEF View, Owed, Beaten
<1>5. d[Source] = 0
  <2>1. d[Source] <= 0
    BY <1>1, <1>3 DEF View, Begun, Beaten
  <2>2. d[Source] \in Nat
    BY <1>2, SourceAssumption, GraphAssumption DEF Distance
  <2> QED BY <2>1, <2>2
<1>6. \A g \in Potential : \A v \in Vertex : g[v] <= d[v]
  BY <1>1, <1>3 DEF View, Bounded
<1> HIDE DEF d
<1>7. d \in PotentialFrom(Source)
  BY <1>2, <1>4, <1>5 DEF PotentialFrom, d
<1> QED BY <1>6, <1>7 DEF IsShortest, IsShortestFrom, Potential, d

\* The distances at the announced end are the shortest ones, for every graph,
\* distribution, number of PEs and of buckets, and every setting of the
\* scheduling options modelled.
THEOREM AnswerIsShortest == Spec => []AnswerCorrect
<1>1. SoundAlways /\ Snapshots => AnswerCorrect
  BY IdleShortest DEF Snapshots, AnswerCorrect
<1> QED BY <1>1, RunAlways, PTL

-----------------------------------------------------------------------------
(* The queue's head *)

LEMMA HeadSuffices ==
  ASSUME PqOverflowLast, Typed
  PROVE  NothingHidden
<1> SUFFICES ASSUME NEW p \in PE, NEW u \in pe[p].pq, NEW w \in pe[p].pq,
                    BucketAt(pe[p], u) > pe[p].heap,
                    NotAfter(u, w)
             PROVE  BucketAt(pe[p], w) > pe[p].heap
  BY DEF NothingHidden
<1> DEFINE s == pe[p]
<1>1. s \in Chare(p) /\ Fits(s.scale, s.limit)
  BY DEF Typed, Chares, ChareOK
<1>2. u \in Update /\ w \in Update
  BY <1>1 DEF Chare, Mine
<1>3. /\ u.d \in Nat /\ u.ovf \in BOOLEAN /\ w.d \in Nat /\ w.ovf \in BOOLEAN
      /\ s.scale \in Nat \ {0} /\ s.limit \in Nat
      /\ s.heap \in Bucket
  BY <1>1, <1>2 DEF Chare, Update
<1>4. BucketAt(s, u) \in Bucket /\ BucketAt(s, w) \in Bucket
  BY <1>1, <1>2, BucketAtIn
<1>5. BucketAt(s, u) <= BucketAt(s, w)
  BY <1>1, <1>3, QueueOrderMonotone DEF BucketAt
<1> DEFINE x == BucketAt(s, u)
           y == BucketAt(s, w)
           h == s.heap
<1>6. x \in Nat /\ y \in Nat /\ h \in Nat /\ x > h /\ x <= y
  BY <1>3, <1>4, <1>5, BucketType
<1> HIDE DEF x, y, h
<1>7. y > h
  BY <1>6
<1> QED BY <1>7 DEF y, h

\* With flagged updates ordered last, process_heap() never stops in front of
\* an update it could admit.
THEOREM QueueHead ==
  ASSUME PqOverflowLast
  PROVE  Spec => []NothingHidden
<1>1. Typed => NothingHidden
  BY HeadSuffices
<1> QED BY <1>1, TypedAlways, PTL

-----------------------------------------------------------------------------
(* Scales: PEs are at most the round's merge apart *)

Works(p) == Start(p) \/ Deliver(p) \/ FoldBatch(p) \/ ProcessHeap(p) \/ ClearPqHold(p)

\* Work on updates leaves every PE's scale, and every part of the round, alone.
LEMMA WorkRules ==
  ASSUME Typed, NEW p \in PE, Works(p)
  PROVE  /\ Unchanged
         /\ \A q \in PE : pe'[q].scale = pe[q].scale /\ pe'[q].limit = pe[q].limit
         /\ \A q \in PE : q # p => pe'[q] = pe[q]
<1>0. ChareOK(p, pe[p]) /\ pe[p] \in Chare(p)
  BY DEF Typed, Chares, ChareOK
<1>1. ASSUME NEW t, Changes(p, t), t.scale = pe[p].scale, t.limit = pe[p].limit, Unchanged
      PROVE  /\ Unchanged
             /\ \A q \in PE : pe'[q].scale = pe[q].scale /\ pe'[q].limit = pe[q].limit
             /\ \A q \in PE : q # p => pe'[q] = pe[q]
  <2>1. pe'[p] = t /\ \A q \in PE : q # p => pe'[q] = pe[q]
    BY <1>1 DEF Typed, Chares, Changes
  <2> QED BY <1>1, <2>1
<1>2. CASE Start(p)
  <2>1. PICK u \in Mine(p) :
           /\ pe' = [pe EXCEPT ![p] = ProcessUpdate(Charge(pe[p], {u}), u)]
           /\ Unchanged
    BY <1>2, StartIs
  <2> DEFINE us == {u}
             c == Charge(pe[p], us)
             t == ProcessUpdate(c, u)
  <2>2. us \in SUBSET Update /\ IsFiniteSet(us)
    BY FS_Singleton DEF Mine
  <2>3. Changes(p, t)
    BY <2>1 DEF Changes
  <2> HIDE DEF us
  <2>4. c \in Chare(p) /\ c.scale = pe[p].scale /\ c.limit = pe[p].limit
    BY <1>0, <2>2, ChargeIs
  <2> HIDE DEF c
  <2>5. SameRules(c, t)
    BY <2>4, ProcessUpdateIs
  <2> HIDE DEF t
  <2>6. t.scale = pe[p].scale /\ t.limit = pe[p].limit
    BY <2>4, <2>5 DEF SameRules
  <2> QED BY <1>1, <2>1, <2>3, <2>6
<1>3. CASE Deliver(p)
  <2>1. PICK u \in Mine(p) : Changes(p, ProcessUpdate(pe[p], u)) /\ Unchanged
    BY <1>3, DeliverIs DEF Changes
  <2> DEFINE t == ProcessUpdate(pe[p], u)
  <2>2. SameRules(pe[p], t)
    BY <1>0, ProcessUpdateIs
  <2>3. Changes(p, t)
    BY <2>1
  <2> HIDE DEF t
  <2> QED BY <1>1, <2>1, <2>2, <2>3 DEF SameRules
<1>4. CASE FoldBatch(p)
  <2>1. PICK x, y, s :
           /\ x \in Mine(p) /\ y \in Mine(p)
           /\ s = ProcessUpdate(pe[p], x) \/ s = Retire(pe[p], x)
           /\ ChareOK(p, s) /\ Changes(p, ProcessUpdate(s, y)) /\ Unchanged
    BY <1>4, FoldIs DEF Changes
  <2>2. s \in Chare(p) /\ SameRules(pe[p], s)
    <3>1. x \in Update
      BY <2>1 DEF Mine
    <3>2. /\ s = ProcessUpdate(pe[p], x) => SameRules(pe[p], s)
          /\ s = Retire(pe[p], x) => SameRules(pe[p], s)
      BY <1>0, <2>1, <3>1, ProcessUpdateIs, RetireIs
    <3> QED BY <2>1, <3>2 DEF ChareOK
  <2> DEFINE t == ProcessUpdate(s, y)
  <2>3. SameRules(s, t) /\ Changes(p, t)
    BY <2>1, <2>2, ProcessUpdateIs
  <2> HIDE DEF t
  <2> QED BY <1>1, <2>1, <2>2, <2>3 DEF SameRules
<1>5. CASE ProcessHeap(p)
  <2>1. PICK u \in pe[p].pq : Changes(p, Expanded(pe[p], u)) /\ Unchanged
    BY <1>5, HeapIs DEF Changes
  <2> DEFINE t == Expanded(pe[p], u)
  <2>2. t.scale = pe[p].scale /\ t.limit = pe[p].limit
    BY <1>0, ExpandedIs
  <2>3. Changes(p, t)
    BY <2>1
  <2> HIDE DEF t
  <2> QED BY <1>1, <2>1, <2>2, <2>3
<1>6. CASE ClearPqHold(p)
  <2> DEFINE t == Admitted(pe[p])
  <2>1. SameRules(pe[p], t)
    BY <1>0, AdmittedIs
  <2>2. Changes(p, t) /\ Unchanged
    BY <1>6, ClearIs DEF Changes
  <2> HIDE DEF t
  <2> QED BY <1>1, <2>1, <2>2 DEF SameRules
<1> QED BY <1>2, <1>3, <1>4, <1>5, <1>6 DEF Works

RulesAgree == OneMergeApart /\ (round.first => round.coarsen = 1)

\* The rules all PEs will have once they have taken up the round.
SettledStay(p) == SettledScale(p)' = SettledScale(p) /\ SettledLimit(p)' = SettledLimit(p)

LEMMA SettledStays ==
  ASSUME Typed, RulesAgree, [Next]_vars, ~NextRound
  PROVE  /\ \A q \in PE : SettledStay(q)
         /\ round' = round /\ main'.scale = main.scale
<1>1. ASSUME NEW p \in PE, Works(p) PROVE round' = round /\ \A q \in PE : SettledStay(q)
  BY <1>1, WorkRules DEF SettledStay, SettledScale, SettledLimit, Pending, Unchanged
<1>2. ASSUME NEW p \in PE, FirstContribution(p) PROVE round' = round /\ \A q \in PE : SettledStay(q)
  <2>1. round.coarsen = 1 /\ pe' = pe /\ round' = round
    BY <1>2 DEF FirstContribution, RulesAgree
  <2>2. \A q \in PE : ~Pending(q) /\ ~Pending(q)'
    BY <2>1 DEF Pending
  <2> QED BY <2>1, <2>2 DEF SettledStay, SettledScale, SettledLimit
<1>3. ASSUME NEW p \in PE, CurrentThresholds(p) PROVE round' = round /\ \A q \in PE : SettledStay(q)
  <2> DEFINE t == TakeUp(pe[p], round)
  <2>1. /\ p \in waiting /\ pe' = [pe EXCEPT ![p] = t] /\ Contribute(p, t) /\ MainFrame
    BY <1>3, ThresholdsIs
  <2>2. Rescales(pe[p], t, round)
    <3>1. pe[p] \in Chare(p) /\ Fits(pe[p].scale, pe[p].limit) /\ round \in RoundType
      BY DEF Typed, Chares, ChareOK
    <3> QED BY <3>1, TakeUpIs
  <2> HIDE DEF t
  <2>3. pe'[p] = t /\ \A q \in PE : q # p => pe'[q] = pe[q]
    BY <2>1 DEF Typed, Chares
  <2>4. waiting' = waiting \ {p} /\ round' = round
    BY <2>1 DEF Contribute, MainFrame
  <2>5. \A q \in PE : q # p => SettledStay(q)
    BY <2>3, <2>4 DEF SettledStay, SettledScale, SettledLimit, Pending
  <2>6. SettledStay(p)
    <3>1. ~Pending(p)'
      BY <2>4 DEF Pending
    <3>2. Pending(p) <=> round.coarsen > 1
      BY <2>1 DEF Pending
    <3>3. SettledScale(p)' = t.scale /\ SettledLimit(p)' = t.limit
      BY <2>3, <3>1 DEF SettledScale, SettledLimit
    <3>4. SettledScale(p) = t.scale /\ SettledLimit(p) = t.limit
      BY <2>2, <3>2 DEF Rescales, SettledScale, SettledLimit
    <3> QED BY <3>3, <3>4 DEF SettledStay
  <2> QED BY <2>4, <2>5, <2>6
<1>4. ASSUME UNCHANGED <<pe, waiting, round>> PROVE round' = round /\ \A q \in PE : SettledStay(q)
  BY <1>4 DEF SettledStay, SettledScale, SettledLimit, Pending
<1>5. main'.scale = main.scale
  <2>1. \A p \in PE : Works(p) => main' = main
    BY WorkRules DEF Unchanged
  <2>2. \A p \in PE : FirstContribution(p) => main' = main
    BY DEF FirstContribution
  <2>3. \A p \in PE : CurrentThresholds(p) => main' = main
    BY ThresholdsIs DEF MainFrame
  <2>4. Finish => main'.scale = main.scale
    BY DEF Finish, Typed, MainType
  <2> QED BY <2>1, <2>2, <2>3, <2>4 DEF Next, Works, vars
<1> QED BY <1>1, <1>2, <1>3, <1>4, <1>5 DEF Next, Works, Finish, vars

LEMMA RulesStep == Typed /\ RulesAgree /\ [Next]_vars => RulesAgree'
<1> SUFFICES ASSUME Typed, RulesAgree, [Next]_vars PROVE RulesAgree'
  OBVIOUS
<1>1. CASE ~NextRound
  BY <1>1, SettledStays DEF RulesAgree, OneMergeApart, SettledStay
<1>2. CASE NextRound
  <2>1. waiting = {} /\ waiting' = PE /\ pe' = pe /\ ~round'.first
    BY <1>2 DEF NextRound, Complete
  <2>2. \A p, q \in PE : pe[p].scale = main.scale /\ pe[p].limit = pe[q].limit
    BY <2>1 DEF RulesAgree, OneMergeApart, SettledScale, SettledLimit, Pending
  <2>3. \A p \in PE : Pending(p)' <=> round'.coarsen > 1
    BY <2>1 DEF Pending
  <2>4. main'.scale = main.scale * round'.coarsen /\ main.scale \in Nat /\ round'.coarsen \in Nat \ {0}
    BY <1>2, NextRoundType DEF NextRound, Typed, MainType, RoundType
  <2>5. round'.coarsen > 1 \/ main'.scale = main.scale
    BY <2>4
  <2> QED BY <2>1, <2>2, <2>3, <2>4, <2>5 DEF RulesAgree, OneMergeApart, SettledScale, SettledLimit
<1> QED BY <1>1, <1>2

LEMMA RulesInit == Init => RulesAgree
<1> SUFFICES ASSUME Init PROVE RulesAgree
  OBVIOUS
<1>1. round.coarsen = 1 /\ main.scale = 1 /\ \A p \in PE : pe[p].scale = 1 /\ pe[p].limit = B
  BY DEF Init, FirstRound, NewPE
<1> QED BY <1>1 DEF RulesAgree, OneMergeApart, SettledScale, SettledLimit, Pending

\* PEs are at most one merge apart, the one being broadcast: applied where it
\* is still due, every PE has the same clamp, and the scale Main holds.
THEOREM AtMostOneMergeApart == Spec => []OneMergeApart
<1>1. RulesAgree => OneMergeApart
  BY DEF RulesAgree
<1> QED BY <1>1, RulesInit, RulesStep, TypedAlways, PTL DEF Spec

-----------------------------------------------------------------------------
(* The flag: an update its creator did not flag never reaches the overflow   *)
(* slot at a later scale                                                     *)

Placed(u, s, l) == u.ovf \/ HistoBucket(u.d, s, l) # Top

LEMMA StaysPlaced ==
  ASSUME NEW u \in Update, NEW s \in Nat \ {0}, NEW l \in Nat \ {0}, Fits(s, l),
         NEW k \in Nat \ {0}, NEW extend \in BOOLEAN, Placed(u, s, l)
  PROVE  Placed(u, s * k, MergedLimit(l, s, k, extend))
<1> DEFINE n == u.d \div Width
           m == MergedLimit(l, s, k, extend)
<1>1. CASE u.ovf
  BY <1>1 DEF Placed
<1>2. CASE ~u.ovf
  <2>1. n \in Nat /\ u.d \in Nat
    BY BucketAssumption DEF Update
  <2>2. ~(n >= l) /\ HistoBucket(u.d, s, l) = n \div s /\ n \div s # Top
    BY <1>2 DEF HistoBucket, Beyond, Placed
  <2>3. n \div s \in Nat /\ n \div s < Top /\ Top \in Nat
    <3>1. n \div s \in Bucket
      BY <2>1, <2>2, BucketInRange
    <3> QED BY <2>2, <3>1, BucketType DEF Bucket
  <2>4. m \in Nat /\ l <= m
    <3>1. l * k \in Nat /\ l <= l * k
      OBVIOUS
    <3>2. B * s * k \in Nat /\ B * s <= B * s * k /\ l <= B * s /\ B * s \in Nat
      <4>1. B * s \in Nat /\ l <= B * s
        BY BucketAssumption DEF Fits
      <4> QED BY <4>1
    <3>3. l <= B * s * k
      BY <3>2
    <3> QED BY <3>1, <3>2, <3>3 DEF MergedLimit
  <2>5. (n \div s) \div k = n \div (s * k)
    BY <2>1, DivDiv
  <2> DEFINE x == n \div s
  <2>6. x \in Nat /\ x < Top /\ Top \in Nat
    BY <2>3
  <2> HIDE DEF x
  <2>7. x \div k < Top
    <3>1. x \div k <= x
      BY <2>6
    <3>2. x \div k \in Nat
      BY <2>6
    <3> QED BY <2>6, <3>1, <3>2
  <2>8. ~Beyond(u.d, m)
    BY <2>1, <2>2, <2>4 DEF Beyond
  <2>9. HistoBucket(u.d, s * k, m) = x \div k
    BY <2>5, <2>8 DEF HistoBucket, x
  <2> QED BY <2>6, <2>7, <2>9 DEF Placed
<1> QED BY <1>1, <1>2

LEMMA ChargedPlaced ==
  ASSUME NEW s, NEW r \in Update
  PROVE  Placed(Charged(s, r), s.scale, s.limit)
<1>1. Charged(s, r).ovf = (HistoBucket(r.d, s.scale, s.limit) = Top) /\ Charged(s, r).d = r.d
  BY DEF Charged, Update
<1> QED BY <1>1 DEF Placed

LEMMA RelaxationsPlaced ==
  ASSUME NEW s, NEW u \in Update
  PROVE  \A k \in Relaxations(s, u) : Placed(k, s.scale, s.limit)
<1> DEFINE r(e) == [via |-> e, to |-> To[e], d |-> u.d + Weight[e], ovf |-> FALSE]
<1>1. ASSUME NEW e \in Out(u.to) PROVE r(e) \in Update
  <2>1. e \in Edge /\ To[e] \in Vertex /\ Weight[e] \in Nat /\ u.d \in Nat
    BY GraphAssumption DEF Update, Out
  <2> QED BY <2>1 DEF Update
<1>2. Relaxations(s, u) = IF u.d = s.dist[u.to] THEN {Charged(s, r(e)) : e \in Out(u.to)} ELSE {}
  BY DEF Relaxations
<1> HIDE DEF r
<1> QED BY <1>1, <1>2, ChargedPlaced

\* Every update is placed at its creator.
Own == \A p \in PE : \A u \in pe[p].created : Placed(u, pe[p].scale, pe[p].limit)

LEMMA OwnStep == Typed /\ Own /\ [Next]_vars => Own'
<1> SUFFICES ASSUME Typed, Own, [Next]_vars PROVE Own'
  OBVIOUS
<1>0. ASSUME NEW p \in PE
      PROVE  /\ ChareOK(p, pe[p]) /\ pe[p] \in Chare(p) /\ Fits(pe[p].scale, pe[p].limit)
             /\ pe[p].scale \in Nat \ {0} /\ pe[p].limit \in Nat \ {0}
             /\ pe[p].created \in SUBSET Update
  BY DEF Typed, Chares, ChareOK, Chare
<1>1. ASSUME NEW p \in PE, Start(p) PROVE Own'
  <2>1. PICK u \in Mine(p) :
           /\ u = Charged(pe[p], [via |-> NoEdge, to |-> Source, d |-> 0, ovf |-> FALSE])
           /\ pe[p].created = {}
           /\ pe' = [pe EXCEPT ![p] = ProcessUpdate(Charge(pe[p], {u}), u)]
    BY <1>1, StartIs
  <2> DEFINE us == {u}
             c == Charge(pe[p], us)
             t == ProcessUpdate(c, u)
  <2>2. us \in SUBSET Update /\ IsFiniteSet(us)
    BY FS_Singleton DEF Mine
  <2>3. pe'[p] = t /\ \A q \in PE : q # p => pe'[q] = pe[q]
    BY <2>1 DEF Typed, Chares
  <2>4. Placed(u, pe[p].scale, pe[p].limit)
    <3>1. [via |-> NoEdge, to |-> Source, d |-> 0, ovf |-> FALSE] \in Update
      BY SourceAssumption DEF Update
    <3> QED BY <2>1, <3>1, ChargedPlaced
  <2>5. us = {u}
    OBVIOUS
  <2> HIDE DEF us
  <2>6. c \in Chare(p) /\ c.scale = pe[p].scale /\ c.limit = pe[p].limit
        /\ c.created = pe[p].created \cup us
    BY <1>0, <2>2, ChargeIs
  <2> HIDE DEF c
  <2>7. SameRules(c, t)
    BY <2>6, ProcessUpdateIs
  <2> HIDE DEF t
  <2>8. t.created = {u} /\ t.scale = pe[p].scale /\ t.limit = pe[p].limit
    BY <2>1, <2>5, <2>6, <2>7 DEF SameRules
  <2> QED BY <2>3, <2>4, <2>8 DEF Own
<1>2. ASSUME NEW p \in PE, ProcessHeap(p) PROVE Own'
  <2>1. PICK u \in pe[p].pq : Changes(p, Expanded(pe[p], u))
    BY <1>2, HeapIs DEF Changes
  <2> DEFINE t == Expanded(pe[p], u)
  <2>2. /\ t.scale = pe[p].scale /\ t.limit = pe[p].limit
        /\ t.created = pe[p].created \cup Relaxations(pe[p], u)
    BY <1>0, ExpandedIs
  <2>3. pe'[p] = t /\ \A q \in PE : q # p => pe'[q] = pe[q]
    BY <2>1 DEF Typed, Chares, Changes
  <2>4. u \in Update
    BY <1>0 DEF Chare, Mine
  <2>5. \A k \in Relaxations(pe[p], u) : Placed(k, pe[p].scale, pe[p].limit)
    BY <2>4, RelaxationsPlaced
  <2> HIDE DEF t
  <2> QED BY <2>2, <2>3, <2>5 DEF Own
<1>3. ASSUME NEW p \in PE, CurrentThresholds(p) PROVE Own'
  <2> DEFINE t == TakeUp(pe[p], round)
             r == round
             s == pe[p]
  <2>1. pe' = [pe EXCEPT ![p] = t] /\ r \in RoundType
    BY <1>3, ThresholdsIs DEF Typed
  <2>2. Rescales(s, t, r) /\ t.created = s.created
    BY <1>0, <2>1, TakeUpIs
  <2>3. pe'[p] = t /\ \A q \in PE : q # p => pe'[q] = pe[q]
    BY <2>1 DEF Typed, Chares
  <2>4. r.coarsen \in Nat \ {0} /\ r.extend \in BOOLEAN
    BY <2>1 DEF RoundType
  <2> HIDE DEF t, r
  <2>5. ASSUME NEW u \in s.created PROVE Placed(u, t.scale, t.limit)
    <3>1. u \in Update /\ Placed(u, s.scale, s.limit)
      BY <1>0 DEF Own
    <3>2. Placed(u, s.scale * r.coarsen, MergedLimit(s.limit, s.scale, r.coarsen, r.extend))
      BY <1>0, <2>4, <3>1, StaysPlaced
    <3> QED BY <2>2, <3>1, <3>2 DEF Rescales
  <2> QED BY <2>2, <2>3, <2>5 DEF Own
<1>4. ASSUME NEW p \in PE, Works(p), \A q \in PE : pe'[q].created = pe[q].created PROVE Own'
  BY <1>4, WorkRules DEF Own
<1>5. ASSUME pe' = pe PROVE Own'
  BY <1>5 DEF Own
<1> QED BY <1>1, <1>2, <1>3, <1>4, <1>5, StepGrows
        DEF Next, vars, Works, FirstContribution, Finish, NextRound

LEMMA OwnInit == Init => Own
  BY DEF Init, NewPE, Own

\* So it is placed everywhere, once the round is taken up.
LEMMA PlacedSettled ==
  ASSUME Typed, RulesAgree, Own, NEW p \in PE, NEW u \in Created(pe)
  PROVE  Placed(u, SettledScale(p), SettledLimit(p))
<1>1. PICK q \in PE : u \in pe[q].created
  BY DEF Created
<1>2. /\ pe[q].scale \in Nat \ {0} /\ pe[q].limit \in Nat \ {0}
      /\ Fits(pe[q].scale, pe[q].limit) /\ u \in Update
      /\ round.coarsen \in Nat \ {0} /\ round.extend \in BOOLEAN
      /\ Placed(u, pe[q].scale, pe[q].limit)
  BY <1>1 DEF Typed, Chares, ChareOK, Chare, RoundType, Own
<1> DEFINE s == pe[q].scale
           l == pe[q].limit
           k == round.coarsen
           x == round.extend
<1>3. Placed(u, s * k, MergedLimit(l, s, k, x))
  BY <1>2, StaysPlaced
<1>4. Placed(u, SettledScale(q), SettledLimit(q))
  BY <1>2, <1>3 DEF SettledScale, SettledLimit
<1> QED BY <1>4 DEF RulesAgree, OneMergeApart

-----------------------------------------------------------------------------
(* Deferral *)

LEMMA PlacedIsTaken ==
  ASSUME NEW s, NEW u, Placed(u, s.scale, s.limit)
  PROVE  ~MustDefer(s, u) /\ (u.ovf \/ BucketAt(s, u) # Top)
BY DEF Placed, MustDefer, ChargedTopBySkew, BucketAt, BucketOf

LEMMA TakenIsNotDeferred ==
  ASSUME NEW p, NEW s \in Chare(p), NEW u \in Mine(p), Placed(u, s.scale, s.limit)
  PROVE  ProcessUpdate(s, u).deferred = s.deferred
<1> DEFINE t == ProcessUpdate(s, u)
           z == Improved(s, u)
<1>0. u \in Update
  BY DEF Mine
<1>1. /\ ~MustDefer(s, u)
      /\ \/ MustDefer(s, u) /\ t = Defer(s, u)
         \/ ~(u.d < s.dist[u.to]) /\ t = Retire(s, u)
         \/ u.d < s.dist[u.to] /\ Out(u.to) = {} /\ t = Retire(z, u)
         \/ u.d < s.dist[u.to] /\ t = Kept(z, u)
  BY ProcessUpdateIs, PlacedIsTaken
<1>2. ASSUME u.d < s.dist[u.to] PROVE z \in Chare(p) /\ z.deferred = s.deferred
  <2>1. /\ z \in Chare(p)
        /\ SameRules(s, z) /\ z.dist = [s.dist EXCEPT ![u.to] = u.d]
        /\ z.deferred = s.deferred /\ z.pq = s.pq /\ z.hold = s.hold
        /\ z.processed = s.processed /\ z.histogram = s.histogram
    BY <1>2, ImprovedIs
  <2> QED BY <2>1
<1> HIDE DEF t, z
<1>3. CASE t = Retire(s, u)
  BY <1>0, <1>3, RetireIs DEF t
<1>4. CASE u.d < s.dist[u.to] /\ t = Retire(z, u)
  <2>1. t.deferred = z.deferred
    BY <1>0, <1>2, <1>4, RetireIs
  <2> QED BY <1>2, <1>4, <2>1 DEF t
<1>5. CASE u.d < s.dist[u.to] /\ t = Kept(z, u)
  <2>1. t.deferred = z.deferred
    BY <1>2, <1>5, KeptIs
  <2> QED BY <1>2, <1>5, <2>1 DEF t
<1> QED BY <1>1, <1>3, <1>4, <1>5

\* A PE that has no merge to apply has every update where its creator has it.
LEMMA PlacedHere ==
  ASSUME Typed, RulesAgree, Own, NEW p \in PE, ~Pending(p), NEW u \in Created(pe)
  PROVE  Placed(u, pe[p].scale, pe[p].limit)
BY PlacedSettled DEF SettledScale, SettledLimit

Scaled == SoundAlways /\ RulesAgree /\ Own

LEMMA CreatedHas ==
  ASSUME SoundAlways, NEW p \in PE
  PROVE  /\ net \subseteq Created(pe) /\ ToSet(pe[p].deferred) \subseteq Created(pe)
         /\ Queue(pe[p]) \subseteq Created(pe)
<1>1. Travelling(pe, net) \subseteq Created(pe) /\ Queued(pe) \subseteq Created(pe)
  BY DEF SoundAlways, Sound, View, Accounted
<1> QED BY <1>1 DEF Travelling, Deferred, Queued

\* With the merge applied, everything deferred is taken.
LEMMA TakeUpTakes ==
  ASSUME Scaled, NEW p \in PE, p \in waiting
  PROVE  TakeUp(pe[p], round).deferred = <<>>
<1> DEFINE s == pe[p]
           z == Merged(s, round)
           q == z.deferred
           n == Len(q)
<1>1. s \in Chare(p) /\ Fits(s.scale, s.limit) /\ round \in RoundType
  BY DEF Scaled, SoundAlways, Typed, Chares, ChareOK
<1>2. z \in Chare(p) /\ Rescales(s, z, round) /\ z.deferred = s.deferred
  BY <1>1, MergedIs
<1>3. TakeUp(s, round).deferred = Reprocess(z).deferred
  BY <1>1, TakeUpIs
<1> HIDE DEF z
<1>4. PICK w : /\ Passes(z, w)
               /\ \A i \in 0..n : w[i] \in Chare(p) /\ SameRules(z, w[i])
  BY <1>2, ReprocessIs
<1>5. n \in Nat /\ \A i \in 1..n : q[i] \in Mine(p) /\ q[i] \in Created(pe)
  <2>1. q \in Seq(Mine(p)) /\ ToSet(q) \subseteq Created(pe)
    BY <1>2, CreatedHas DEF Chare, Scaled
  <2> HIDE DEF q
  <2>2. n \in Nat /\ \A i \in 1..n : q[i] \in Mine(p) /\ q[i] \in ToSet(q)
    BY <2>1 DEF ToSet
  <2> QED BY <2>1, <2>2
<1>6. /\ w[0] = [z EXCEPT !.deferred = <<>>] /\ Reprocess(z) = w[n]
      /\ \A i \in 1..n : w[i] = ProcessUpdate(w[i - 1], q[i])
  BY <1>4 DEF Passes
<1>7. \A i \in 1..n : Placed(q[i], z.scale, z.limit)
  <2>1. z.scale = SettledScale(p) /\ z.limit = SettledLimit(p)
    BY <1>2 DEF Rescales, SettledScale, SettledLimit, Pending
  <2> QED BY <1>5, <2>1, PlacedSettled DEF Scaled, SoundAlways
<1> HIDE DEF q, n
<1> DEFINE G == {i \in 0..n : w[i].deferred = <<>>}
<1>8. 0 \in G
  <2>1. w[0].deferred = <<>> /\ 0 \in 0..n
    BY <1>2, <1>5, <1>6 DEF Chare
  <2> QED BY <2>1
<1>9. ASSUME NEW i \in 1..n, i - 1 \in G PROVE i \in G
  <2>1. /\ w[i - 1] \in Chare(p) /\ SameRules(z, w[i - 1]) /\ w[i - 1].deferred = <<>>
        /\ q[i] \in Mine(p) /\ i \in 0..n
    BY <1>4, <1>5, <1>9
  <2>2. Placed(q[i], w[i - 1].scale, w[i - 1].limit)
    BY <1>7, <2>1 DEF SameRules
  <2>3. ProcessUpdate(w[i - 1], q[i]).deferred = w[i - 1].deferred
    BY <2>1, <2>2, TakenIsNotDeferred
  <2> QED BY <1>6, <2>1, <2>3
<1> HIDE DEF G
<1>10. n \in G
  <2>1. \A i \in 0..n : i \in G
    BY <1>5, <1>8, <1>9, Climb
  <2> QED BY <1>5, <2>1
<1> QED BY <1>3, <1>6, <1>10 DEF G

LEMMA DeferredStep == Scaled /\ DeferredOneRound /\ [Next]_vars => DeferredOneRound'
<1> SUFFICES ASSUME Scaled, DeferredOneRound, [Next]_vars,
                    NEW p \in PE, ~Pending(p)'
             PROVE  pe'[p].deferred = <<>>
  BY DEF DeferredOneRound
<1>0. /\ Typed /\ RulesAgree /\ Own /\ pe[p] \in Chare(p)
      /\ net \subseteq Created(pe) /\ Queue(pe[p]) \subseteq Created(pe)
  BY CreatedHas DEF Scaled, SoundAlways, Typed, Chares, ChareOK
<1>1. ASSUME ~Pending(p), pe'[p].deferred = pe[p].deferred PROVE pe'[p].deferred = <<>>
  BY <1>1 DEF DeferredOneRound
<1>2. ASSUME NEW q \in PE, Works(q) PROVE pe'[p].deferred = <<>>
  <2>1. ~Pending(p) /\ (q # p => pe'[p] = pe[p])
    BY <1>0, <1>2, WorkRules DEF Pending, Unchanged
  <2>2. CASE q # p
    BY <1>1, <2>1, <2>2
  <2> DEFINE s == pe[p]
  <2>3. CASE q = p /\ Start(p)
    <3>1. PICK u \in Mine(p) :
             /\ u = Charged(pe[p], [via |-> NoEdge, to |-> Source, d |-> 0, ovf |-> FALSE])
             /\ pe' = [pe EXCEPT ![p] = ProcessUpdate(Charge(pe[p], {u}), u)]
      BY <1>0, <2>3, StartIs
    <3> DEFINE us == {u}
               c == Charge(pe[p], us)
               t == ProcessUpdate(c, u)
    <3>2. us \in SUBSET Update /\ IsFiniteSet(us)
      BY FS_Singleton DEF Mine
    <3>3. pe'[p] = t
      BY <1>0, <3>1 DEF Typed, Chares
    <3>4. Placed(u, s.scale, s.limit)
      <4>1. [via |-> NoEdge, to |-> Source, d |-> 0, ovf |-> FALSE] \in Update
        BY SourceAssumption DEF Update
      <4> QED BY <3>1, <4>1, ChargedPlaced
    <3> HIDE DEF us
    <3>5. c \in Chare(p) /\ c.scale = s.scale /\ c.limit = s.limit /\ c.deferred = s.deferred
      BY <1>0, <3>2, ChargeIs
    <3> HIDE DEF c
    <3>6. t.deferred = c.deferred
      BY <3>4, <3>5, TakenIsNotDeferred
    <3> HIDE DEF t
    <3> QED BY <1>1, <2>1, <3>3, <3>5, <3>6
  <2>4. CASE q = p /\ Deliver(p)
    <3>1. PICK u \in net : u \in Mine(p) /\ pe' = [pe EXCEPT ![p] = ProcessUpdate(pe[p], u)]
      BY <1>0, <2>4, DeliverIs
    <3> DEFINE t == ProcessUpdate(s, u)
    <3>2. pe'[p] = t
      BY <1>0, <3>1 DEF Typed, Chares
    <3>3. Placed(u, s.scale, s.limit)
      BY <1>0, <2>1, PlacedHere
    <3>4. t.deferred = s.deferred
      BY <1>0, <3>1, <3>3, TakenIsNotDeferred
    <3> HIDE DEF t
    <3> QED BY <1>1, <2>1, <3>2, <3>4
  <2>5. CASE q = p /\ FoldBatch(p)
    <3>1. PICK x, y, z :
             /\ x \in net /\ y \in net
             /\ x \in Mine(p) /\ y \in Mine(p)
             /\ z = ProcessUpdate(pe[p], x) \/ z = Retire(pe[p], x)
             /\ ChareOK(p, z) /\ pe' = [pe EXCEPT ![p] = ProcessUpdate(z, y)]
      BY <1>0, <2>5, FoldIs
    <3> DEFINE t == ProcessUpdate(z, y)
    <3>2. pe'[p] = t
      BY <1>0, <3>1 DEF Typed, Chares
    <3>3. Placed(x, s.scale, s.limit) /\ Placed(y, s.scale, s.limit) /\ x \in Update
      BY <1>0, <2>1, <3>1, PlacedHere DEF Mine
    <3>4. z.deferred = s.deferred /\ SameRules(s, z)
      <4>1. CASE z = ProcessUpdate(s, x)
        BY <1>0, <3>1, <3>3, <4>1, TakenIsNotDeferred, ProcessUpdateIs
      <4>2. CASE z = Retire(s, x)
        BY <1>0, <3>3, <4>2, RetireIs
      <4> QED BY <3>1, <4>1, <4>2
    <3>5. z \in Chare(p) /\ Placed(y, z.scale, z.limit)
      BY <3>1, <3>3, <3>4 DEF ChareOK, SameRules
    <3>6. t.deferred = z.deferred
      BY <3>1, <3>5, TakenIsNotDeferred
    <3> HIDE DEF t
    <3> QED BY <1>1, <2>1, <3>2, <3>4, <3>6
  <2>6. CASE q = p /\ ProcessHeap(p)
    <3>1. PICK u \in pe[p].pq : Changes(p, Expanded(pe[p], u))
      BY <1>0, <2>6, HeapIs DEF Changes
    <3>2. Expanded(pe[p], u).deferred = pe[p].deferred
      BY <1>0, ExpandedIs
    <3>3. pe'[p] = Expanded(pe[p], u)
      BY <1>0, <3>1 DEF Typed, Chares, Changes
    <3> QED BY <1>1, <2>1, <3>2, <3>3
  <2>7. CASE q = p /\ ClearPqHold(p)
    <3>1. pe'[p] = Admitted(pe[p])
      BY <1>0, <2>7, ClearIs DEF Typed, Chares
    <3>2. Admitted(pe[p]).deferred = pe[p].deferred
      BY <1>0, AdmittedIs
    <3> QED BY <1>1, <2>1, <3>1, <3>2
  <2> QED BY <1>2, <2>2, <2>3, <2>4, <2>5, <2>6, <2>7 DEF Works
<1>3. ASSUME NEW q \in PE, CurrentThresholds(q) PROVE pe'[p].deferred = <<>>
  <2>1. /\ q \in waiting /\ pe' = [pe EXCEPT ![q] = TakeUp(pe[q], round)]
        /\ waiting' = waiting \ {q} /\ round' = round
    BY <1>0, <1>3, ThresholdsIs DEF Contribute, MainFrame
  <2>2. CASE q = p
    <3>1. pe'[p] = TakeUp(pe[p], round)
      BY <1>0, <2>1, <2>2 DEF Typed, Chares
    <3> QED BY <2>1, <2>2, <3>1, TakeUpTakes
  <2>3. CASE q # p
    <3>1. pe'[p] = pe[p] /\ ~Pending(p)
      BY <1>0, <2>1, <2>3 DEF Typed, Chares, Pending
    <3> QED BY <1>1, <3>1
  <2> QED BY <2>2, <2>3
<1>4. ASSUME NEW q \in PE, FirstContribution(q) PROVE pe'[p].deferred = <<>>
  <2>1. round.coarsen = 1 /\ pe' = pe
    BY <1>0, <1>4 DEF FirstContribution, RulesAgree
  <2> QED BY <1>1, <2>1 DEF Pending
<1>5. CASE NextRound
  <2>1. waiting = {} /\ pe' = pe
    BY <1>5 DEF NextRound, Complete
  <2> QED BY <1>1, <2>1 DEF Pending
<1>6. CASE UNCHANGED <<pe, waiting, round>>
  BY <1>1, <1>6 DEF Pending
<1> QED BY <1>2, <1>3, <1>4, <1>5, <1>6 DEF Next, Works, Finish, vars

LEMMA ScaledAlways == Spec => []Scaled
<1>1. Init => Scaled
  BY SoundInit, RulesInit, OwnInit DEF Scaled
<1>2. Scaled /\ [Next]_vars => Scaled'
  BY SoundStep, RulesStep, OwnStep DEF Scaled, SoundAlways
<1> QED BY <1>1, <1>2, PTL DEF Spec

\* An update waits in a PE's deferred queue only while that PE has a merge of
\* the current round to apply: no update is deferred over two broadcasts.
THEOREM DeferredNoLonger == Spec => []DeferredOneRound
<1>1. Init => DeferredOneRound
  BY DEF Init, NewPE, DeferredOneRound
<1> QED BY <1>1, ScaledAlways, DeferredStep, PTL DEF Spec

-----------------------------------------------------------------------------
(* The books of a chare: what its queues and its histogram say               *)

At(s) == [u \in Update |-> BucketAt(s, u)]

\* A list of the hold has the updates of its bucket, and nothing that waits
\* would be charged to the overflow slot without its flag.
Indexed(s) ==
  /\ \A u \in Queue(s) : Placed(u, s.scale, s.limit)
  /\ \A b \in Bucket : \A u \in s.hold[b] : BucketAt(s, u) = b

\* The histogram is what the chare has created less what it has retired, each
\* at the bucket where it belongs now.
Ledger(s) ==
  /\ IsFiniteSet(s.processed)
  /\ \A u \in s.created \cup s.processed : Placed(u, s.scale, s.limit)
  /\ \A b \in Bucket :
       s.histogram[b] = Cardinality(Part(At(s), s.created, b))
                          - Cardinality(Part(At(s), s.processed, b))

Books(s) == Indexed(s) /\ (~BatchFold => Ledger(s))

LEMMA SameAt ==
  ASSUME NEW s, NEW t, t.scale = s.scale, t.limit = s.limit
  PROVE  At(t) = At(s) /\ \A u : BucketAt(t, u) = BucketAt(s, u)
BY DEF At, BucketAt

LEMMA SameLedger ==
  ASSUME NEW s, NEW t, t.scale = s.scale, t.limit = s.limit, t.created = s.created,
         t.processed = s.processed, t.histogram = s.histogram, Ledger(s)
  PROVE  Ledger(t)
BY SameAt DEF Ledger

LEMMA SameIndexed ==
  ASSUME NEW s, NEW t, t.scale = s.scale, t.limit = s.limit,
         t.pq = s.pq, t.hold = s.hold, Indexed(s)
  PROVE  Indexed(t)
BY SameAt DEF Indexed, Queue

LEMMA RetireLedger ==
  ASSUME NEW p, NEW s \in Chare(p), IsFiniteSet(s.created), Ledger(s), NEW u \in Update,
         Placed(u, s.scale, s.limit), u \notin s.processed
  PROVE  Ledger(Retire(s, u))
<1> DEFINE t == Retire(s, u)
           h == s.histogram
<1>1. /\ SameRules(s, t)
      /\ t.processed = s.processed \cup {u}
      /\ t.histogram = RetiredCounts(h, s, u)
  BY RetireIs
<1> HIDE DEF t
<1>2. At(t) = At(s) /\ t.created = s.created /\ t.scale = s.scale /\ t.limit = s.limit
  BY <1>1, SameAt DEF SameRules
<1>3. IsFiniteSet(s.processed) /\ IsFiniteSet(t.processed)
  BY <1>1, FS_AddElement DEF Ledger
<1>4. ASSUME NEW b \in Bucket
      PROVE  t.histogram[b] = Cardinality(Part(At(t), t.created, b))
                                - Cardinality(Part(At(t), t.processed, b))
  <2> DEFINE c == Cardinality(Part(At(s), s.created, b))
             x == Part(At(s), s.processed, b)
             y == Part(At(t), t.processed, b)
  <2>1. h \in [Bucket -> Int] /\ h[b] = c - Cardinality(x)
    BY DEF Chare, Ledger
  <2>2. c \in Nat /\ IsFiniteSet(x) /\ Cardinality(x) \in Nat
    BY <1>3, PartsFinite
  <2>3. Cardinality(Part(At(t), t.created, b)) = c
    BY <1>2
  <2>4. CASE BucketAt(s, u) = b
    <3>1. y = x \cup {u} /\ u \notin x
      BY <1>1, <1>2, <2>4 DEF Part, At
    <3> HIDE DEF x, y, c
    <3>2. Cardinality(y) = Cardinality(x) + 1
      BY <2>2, <3>1, FS_AddElement
    <3>3. t.histogram[b] = h[b] - 1
      BY <1>1, <2>1, <2>4 DEF RetiredCounts
    <3> QED BY <2>1, <2>2, <2>3, <3>2, <3>3 DEF y
  <2>5. CASE BucketAt(s, u) # b
    <3>1. y = x
      BY <1>1, <1>2, <2>5 DEF Part, At
    <3>2. t.histogram[b] = h[b]
      BY <1>1, <2>1, <2>5 DEF RetiredCounts
    <3> QED BY <2>1, <2>3, <3>1, <3>2
  <2> QED BY <2>4, <2>5
<1>5. \A w \in t.created \cup t.processed : Placed(w, t.scale, t.limit)
  BY <1>1, <1>2 DEF Ledger
<1> QED BY <1>3, <1>4, <1>5 DEF Ledger, t

LEMMA ChargeLedger ==
  ASSUME NEW p, NEW s \in Chare(p), IsFiniteSet(s.created), Ledger(s),
         NEW us \in SUBSET Update, IsFiniteSet(us), us \cap s.created = {},
         \A u \in us : Placed(u, s.scale, s.limit)
  PROVE  Ledger(Charge(s, us))
<1> DEFINE t == Charge(s, us)
<1>1. /\ t.scale = s.scale /\ t.limit = s.limit
      /\ t.created = s.created \cup us /\ t.processed = s.processed
      /\ t.histogram = ChargedCounts(s, us)
  BY ChargeIs
<1> HIDE DEF t
<1>2. At(t) = At(s)
  BY <1>1, SameAt
<1>3. IsFiniteSet(s.processed)
  BY DEF Ledger
<1>4. ASSUME NEW b \in Bucket
      PROVE  t.histogram[b] = Cardinality(Part(At(t), t.created, b))
                                - Cardinality(Part(At(t), t.processed, b))
  <2> DEFINE c == Part(At(s), s.created, b)
             n == Part(At(s), us, b)
             x == Cardinality(Part(At(s), s.processed, b))
  <2>1. s.histogram[b] = Cardinality(c) - x
    BY DEF Ledger
  <2>2. /\ IsFiniteSet(c) /\ IsFiniteSet(n)
        /\ Cardinality(c) \in Nat /\ Cardinality(n) \in Nat /\ x \in Nat
    BY <1>3, PartsFinite
  <2>3. {u \in us : BucketAt(s, u) = b} = n
    BY DEF Part, At
  <2>4. t.histogram[b] = s.histogram[b] + Cardinality(n)
    BY <1>1, <2>3 DEF ChargedCounts
  <2>5. Part(At(t), t.created, b) = c \cup n /\ c \cap n = {}
    BY <1>1, <1>2 DEF Part
  <2> HIDE DEF c, n
  <2>6. Cardinality(c \cup n) = Cardinality(c) + Cardinality(n)
    BY <2>2, <2>5, CardDisjoint
  <2>7. Cardinality(Part(At(t), t.processed, b)) = x
    BY <1>1, <1>2
  <2> HIDE DEF x
  <2> QED BY <2>1, <2>2, <2>4, <2>5, <2>6, <2>7
<1>5. \A w \in t.created \cup t.processed : Placed(w, t.scale, t.limit)
  BY <1>1 DEF Ledger
<1> QED BY <1>1, <1>3, <1>4, <1>5 DEF Ledger, t

LEMMA RetireBooks ==
  ASSUME NEW p, NEW s, ChareOK(p, s), Books(s), NEW u \in Update,
         Placed(u, s.scale, s.limit), u \notin s.processed
  PROVE  Books(Retire(s, u))
<1> DEFINE t == Retire(s, u)
<1>1. s \in Chare(p) /\ IsFiniteSet(s.created)
  BY DEF ChareOK
<1>2. SameRules(s, t) /\ t.pq = s.pq /\ t.hold = s.hold
  BY <1>1, RetireIs
<1>3. ~BatchFold => Ledger(t)
  BY <1>1, RetireLedger DEF Books
<1> HIDE DEF t
<1>4. Indexed(t)
  BY <1>2, SameIndexed DEF Books, SameRules
<1> QED BY <1>3, <1>4 DEF Books, t

LEMMA KeptBooks ==
  ASSUME NEW p, NEW s \in Chare(p), Books(s), NEW u \in Mine(p), Placed(u, s.scale, s.limit)
  PROVE  Books(Kept(s, u))
<1> DEFINE t == Kept(s, u)
           b == BucketAt(s, u)
<1>1. /\ SameRules(s, t)
      /\ t.processed = s.processed /\ t.histogram = s.histogram
      /\ \/ t.pq = s.pq /\ t.hold = ListedAt(s.hold, b, u)
         \/ t.pq = s.pq \cup {u} /\ t.hold = s.hold
  BY KeptIs
<1> HIDE DEF t, b
<1>2. Ledger(s) => Ledger(t)
  BY <1>1, SameLedger DEF SameRules
<1>3. \A w : BucketAt(t, w) = BucketAt(s, w)
  BY <1>1, SameAt DEF SameRules
<1>4. s.hold \in [Bucket -> SUBSET Mine(p)]
  BY DEF Chare
<1>5. \A c \in Bucket : \A w \in t.hold[c] : w \in s.hold[c] \/ (w = u /\ c = b)
  BY <1>1, <1>4 DEF ListedAt
<1>6. \A w \in Queue(t) : w \in Queue(s) \/ w = u
  BY <1>1, <1>5 DEF Queue, Listed
<1>7. Indexed(t)
  BY <1>1, <1>3, <1>5, <1>6 DEF Indexed, Books, SameRules, b
<1> QED BY <1>2, <1>7 DEF Books, t

\* process_update()
LEMMA UpdateBooks ==
  ASSUME SkewDefer, NEW p, NEW s, ChareOK(p, s), Books(s), NEW u \in Mine(p),
         u \notin s.processed
  PROVE  Books(ProcessUpdate(s, u))
<1> DEFINE t == ProcessUpdate(s, u)
           z == Improved(s, u)
<1>1. s \in Chare(p) /\ u \in Update
  BY DEF ChareOK, Mine
<1>2. \/ MustDefer(s, u) /\ t = Defer(s, u)
      \/ /\ ~MustDefer(s, u)
         /\ \/ t = Retire(s, u)
            \/ u.d < s.dist[u.to] /\ t = Retire(z, u)
            \/ u.d < s.dist[u.to] /\ t = Kept(z, u)
  BY <1>1, ProcessUpdateIs
<1>3. ASSUME u.d < s.dist[u.to]
      PROVE  ChareOK(p, z) /\ Books(z) /\ z.processed = s.processed
             /\ z.scale = s.scale /\ z.limit = s.limit
  <2>1. /\ z \in Chare(p)
        /\ SameRules(s, z) /\ z.pq = s.pq /\ z.hold = s.hold
        /\ z.processed = s.processed /\ z.histogram = s.histogram
    <3>1. LET y == Improved(s, u) IN
         /\ y \in Chare(p)
         /\ SameRules(s, y) /\ y.dist = [s.dist EXCEPT ![u.to] = u.d]
         /\ y.deferred = s.deferred /\ y.pq = s.pq /\ y.hold = s.hold
         /\ y.processed = s.processed /\ y.histogram = s.histogram
      BY <1>1, <1>3, ImprovedIs
    <3> QED BY <3>1
  <2> HIDE DEF z
  <2>2. ChareOK(p, z)
    BY <2>1, ChareKeeps
  <2>3. Ledger(s) => Ledger(z)
    BY <2>1, SameLedger DEF SameRules
  <2>4. Indexed(z)
    BY <2>1, SameIndexed DEF SameRules, Books
  <2> QED BY <2>1, <2>2, <2>3, <2>4 DEF SameRules, Books
<1> HIDE DEF t, z
<1>4. ASSUME ~MustDefer(s, u) PROVE Placed(u, s.scale, s.limit)
  BY <1>4 DEF MustDefer, ChargedTopBySkew, BucketAt, BucketOf, Placed
<1>5. CASE t = Defer(s, u)
  <2>1. /\ SameRules(s, t) /\ t.pq = s.pq /\ t.hold = s.hold
        /\ t.processed = s.processed /\ t.histogram = s.histogram
    BY <1>1, <1>5, DeferIs
  <2>2. Ledger(s) => Ledger(t)
    BY <2>1, SameLedger DEF SameRules
  <2>3. Indexed(t)
    BY <2>1, SameIndexed DEF SameRules, Books
  <2> QED BY <2>2, <2>3 DEF Books, t
<1>6. CASE ~MustDefer(s, u) /\ t = Retire(s, u)
  BY <1>1, <1>4, <1>6, RetireBooks DEF t
<1>7. CASE ~MustDefer(s, u) /\ u.d < s.dist[u.to] /\ t = Retire(z, u)
  <2>1. Placed(u, z.scale, z.limit) /\ u \notin z.processed
    BY <1>3, <1>4, <1>7
  <2>2. Books(Retire(z, u))
    BY <1>1, <1>3, <1>7, <2>1, RetireBooks
  <2> QED BY <1>7, <2>2 DEF t
<1>8. CASE ~MustDefer(s, u) /\ u.d < s.dist[u.to] /\ t = Kept(z, u)
  <2>1. Placed(u, z.scale, z.limit) /\ z \in Chare(p)
    BY <1>3, <1>4, <1>8 DEF ChareOK
  <2>2. Books(Kept(z, u))
    BY <1>3, <1>8, <2>1, KeptBooks
  <2> QED BY <1>8, <2>2 DEF t
<1> QED BY <1>2, <1>5, <1>6, <1>7, <1>8 DEF t

\* start_algo()
LEMMA StartBooks ==
  ASSUME SkewDefer, NEW p, NEW s, ChareOK(p, s), Books(s), NEW u \in Mine(p),
         Placed(u, s.scale, s.limit), u \notin s.created, u \notin s.processed
  PROVE  Books(ProcessUpdate(Charge(s, {u}), u))
<1> DEFINE us == {u}
           c == Charge(s, us)
<1>1. s \in Chare(p) /\ IsFiniteSet(s.created)
  BY DEF ChareOK
<1>2. us \in SUBSET Update /\ IsFiniteSet(us) /\ us \cap s.created = {}
      /\ \A w \in us : Placed(w, s.scale, s.limit)
  BY FS_Singleton DEF Mine
<1>3. us = {u}
  OBVIOUS
<1> HIDE DEF us
<1>4. ChareOK(p, c)
  BY <1>2, ChargeOK
<1>5. c.scale = s.scale /\ c.limit = s.limit /\ c.processed = s.processed
      /\ c.pq = s.pq /\ c.hold = s.hold
  BY <1>1, <1>2, ChargeIs
<1>6. Ledger(s) => Ledger(c)
  BY <1>1, <1>2, ChargeLedger
<1> HIDE DEF c
<1>7. Indexed(c)
  BY <1>5, SameIndexed DEF Books
<1>8. Books(c)
  BY <1>6, <1>7 DEF Books
<1>9. Books(ProcessUpdate(c, u))
  BY <1>4, <1>5, <1>8, UpdateBooks
<1> QED BY <1>3, <1>9 DEF c

\* process_heap()
LEMMA ExpandBooks ==
  ASSUME NEW p, NEW s, ChareOK(p, s), Books(s), NEW u \in s.pq,
         u \notin s.processed, Relaxations(s, u) \cap s.created = {}
  PROVE  Books(Expanded(s, u))
<1> DEFINE sent == Relaxations(s, u)
           t == Expanded(s, u)
           c == Charge(s, sent)
           r == Retire(c, u)
<1>1. s \in Chare(p) /\ IsFiniteSet(s.created) /\ u \in Update
  BY DEF ChareOK, Chare, Mine
<1>2. /\ t.scale = s.scale /\ t.limit = s.limit /\ t.hold = s.hold /\ t.pq = s.pq \ {u}
      /\ t.created = s.created \cup sent /\ t.processed = s.processed \cup {u}
      /\ t.histogram = RetiredCounts(ChargedCounts(s, sent), s, u)
  BY <1>1, ExpandedIs
<1>3. sent \in SUBSET Update /\ IsFiniteSet(sent) /\ \A k \in sent : Placed(k, s.scale, s.limit)
  BY <1>1, RelaxationsIs, RelaxationsPlaced
<1>4. Placed(u, s.scale, s.limit)
  BY DEF Books, Indexed, Queue
<1> HIDE DEF t, sent
<1>5. /\ c \in Chare(p) /\ c.scale = s.scale /\ c.limit = s.limit
      /\ c.created = s.created \cup sent /\ c.processed = s.processed
      /\ c.histogram = ChargedCounts(s, sent)
  BY <1>1, <1>3, ChargeIs
<1>6. ChareOK(p, c)
  BY <1>3, ChargeOK
<1>7. Ledger(s) => Ledger(c)
  BY <1>1, <1>3, ChargeLedger DEF sent
<1> HIDE DEF c
<1>8. /\ SameRules(c, r) /\ r.processed = c.processed \cup {u}
      /\ r.histogram = RetiredCounts(c.histogram, c, u)
  BY <1>1, <1>5, RetireIs
<1>9. Ledger(s) => Ledger(r)
  <2>1. IsFiniteSet(c.created) /\ Placed(u, c.scale, c.limit) /\ u \notin c.processed
    BY <1>4, <1>5, <1>6 DEF ChareOK
  <2> QED BY <1>1, <1>5, <1>7, <2>1, RetireLedger
<1> HIDE DEF r
<1>10. RetiredCounts(c.histogram, c, u) = RetiredCounts(ChargedCounts(s, sent), s, u)
  BY <1>5, SameAt DEF RetiredCounts
<1>11. Ledger(r) => Ledger(t)
  <2>1. t.scale = r.scale /\ t.limit = r.limit /\ t.created = r.created
        /\ t.processed = r.processed /\ t.histogram = r.histogram
    BY <1>2, <1>5, <1>8, <1>10 DEF SameRules
  <2> QED BY <2>1, SameLedger
<1>12. Indexed(t)
  BY <1>2, SameAt DEF Books, Indexed, Queue
<1> QED BY <1>9, <1>11, <1>12 DEF Books, t

\* clear_pq_hold()
LEMMA AdmitBooks ==
  ASSUME NEW p, NEW s, ChareOK(p, s), Books(s)
  PROVE  Books(Admitted(s))
<1> DEFINE t == Admitted(s)
<1>1. s \in Chare(p) /\ s.hold \in [Bucket -> SUBSET Mine(p)]
  BY DEF ChareOK, Chare
<1>2. /\ SameRules(s, t)
      /\ t.processed = s.processed /\ t.histogram = s.histogram
      /\ t.pq = s.pq \cup UpTo(s.hold, s.heap)
      /\ t.hold = Cleared(s.hold, s.heap)
  BY <1>1, AdmittedIs
<1> HIDE DEF t
<1>3. Ledger(s) => Ledger(t)
  BY <1>2, SameLedger DEF SameRules
<1>4. \A w : BucketAt(t, w) = BucketAt(s, w)
  BY <1>2, SameAt DEF SameRules
<1>5. \A b \in Bucket : t.hold[b] \subseteq s.hold[b]
  BY <1>2 DEF Cleared
<1>6. UpTo(s.hold, s.heap) \subseteq Listed(s.hold)
  BY DEF UpTo, Listed
<1>7. Queue(t) \subseteq Queue(s)
  BY <1>2, <1>5, <1>6 DEF Queue, Listed
<1>8. Indexed(t)
  BY <1>2, <1>4, <1>5, <1>7 DEF Books, Indexed, SameRules
<1> QED BY <1>3, <1>8 DEF Books, t

LEMMA MergeKeepsBucket ==
  ASSUME ClampFreeze, NEW p, NEW s \in Chare(p), NEW k \in Nat \ {0}, NEW extend \in BOOLEAN,
         NEW t, t.scale = s.scale * k, t.limit = MergedLimit(s.limit, s.scale, k, extend),
         NEW u \in Update, Placed(u, s.scale, s.limit)
  PROVE  BucketAt(t, u) = MergedIndex(BucketAt(s, u), k)
<1>1. s.scale \in Nat \ {0} /\ s.limit \in Nat /\ u.d \in Nat /\ u.ovf \in BOOLEAN
  BY DEF Chare, Update
<1>2. ~u.ovf => HistoBucket(u.d, s.scale, s.limit) # Top
  BY DEF Placed
<1>3. MergedIndex(BucketOf(u, s.scale, s.limit), k)
        = BucketOf(u, s.scale * k, MergedLimit(s.limit, s.scale, k, extend))
  BY <1>1, <1>2, MergeExact
<1> QED BY <1>3 DEF BucketAt

\* coarsen_buckets(), with the clamp frozen.
LEMMA MergeBooks ==
  ASSUME ClampFreeze, NEW p, NEW s, ChareOK(p, s), Books(s),
         NEW k \in Nat \ {0}, NEW extend \in BOOLEAN
  PROVE  Books(CoarsenBuckets(s, k, extend))
<1> DEFINE t == CoarsenBuckets(s, k, extend)
<1>1. s \in Chare(p) /\ Fits(s.scale, s.limit) /\ IsFiniteSet(s.created)
      /\ s.scale \in Nat \ {0} /\ s.limit \in Nat \ {0}
      /\ s.created \in SUBSET Update /\ s.processed \in SUBSET Update
      /\ s.hold \in [Bucket -> SUBSET Mine(p)] /\ Queue(s) \in SUBSET Update
  BY DEF ChareOK, Chare, Queue, Listed, Mine
<1>2. /\ t.scale = s.scale * k /\ t.limit = MergedLimit(s.limit, s.scale, k, extend)
      /\ t.histogram = MergedCounts(s.histogram, k)
      /\ t.hold = MergedLists(s.hold, k)
      /\ t.created = s.created /\ t.processed = s.processed /\ t.pq = s.pq
  BY <1>1, CoarsenIs
<1> HIDE DEF t
<1>3. \A u \in Update : Placed(u, s.scale, s.limit) =>
        /\ BucketAt(t, u) = MergedIndex(BucketAt(s, u), k)
        /\ Placed(u, t.scale, t.limit)
  BY <1>1, <1>2, MergeKeepsBucket, StaysPlaced
<1>4. ASSUME Ledger(s) PROVE Ledger(t)
  <2>1. IsFiniteSet(t.processed)
        /\ \A u \in t.created \cup t.processed : Placed(u, t.scale, t.limit)
    BY <1>1, <1>2, <1>3, <1>4 DEF Ledger
  <2>2. ASSUME NEW j \in Bucket
        PROVE  t.histogram[j] = Cardinality(Part(At(t), t.created, j))
                                  - Cardinality(Part(At(t), t.processed, j))
    <3> DEFINE T == {i \in Bucket : MergedIndex(i, k) = j}
               h == s.histogram
    <3>1. t.histogram[j] = Sum(h, T)
      BY <1>2 DEF MergedCounts, Sum
    <3>2. IsFiniteSet(T) /\ T \subseteq Bucket
      <4>1. IsFiniteSet(Bucket)
        BY BucketType, FS_Interval DEF Bucket
      <4> QED BY <4>1, FS_Subset
    <3>3. ASSUME NEW A \in SUBSET Update, \A u \in A : Placed(u, s.scale, s.limit)
          PROVE  Parts(At(s), A, T) = Part(At(t), A, j)
      <4>1. \A u \in A : BucketAt(s, u) \in T <=> BucketAt(t, u) = j
        BY <1>1, <1>3, <3>3, BucketAtIn
      <4>2. \A u \in A : At(s)[u] = BucketAt(s, u) /\ At(t)[u] = BucketAt(t, u)
        BY <3>3 DEF At
      <4> HIDE DEF T
      <4> QED BY <4>1, <4>2 DEF Parts, Part
    <3> HIDE DEF T
    <3>4. /\ \A i \in T : h[i] = Cardinality(Part(At(s), s.created, i))
                                  - Cardinality(Part(At(s), s.processed, i))
          /\ IsFiniteSet(s.processed)
      BY <1>4, <3>2 DEF Ledger
    <3> HIDE DEF h
    <3>5. Sum(h, T) = Cardinality(Parts(At(s), s.created, T))
                        - Cardinality(Parts(At(s), s.processed, T))
      BY <1>1, <3>2, <3>4, SumParts
    <3>6. /\ Parts(At(s), s.created, T) = Part(At(t), t.created, j)
          /\ Parts(At(s), s.processed, T) = Part(At(t), t.processed, j)
      BY <1>1, <1>2, <1>4, <3>3 DEF Ledger
    <3> QED BY <3>1, <3>5, <3>6
  <2> QED BY <2>1, <2>2 DEF Ledger
<1>5. Indexed(t)
  <2>1. Listed(t.hold) = Listed(s.hold)
        /\ \A b \in Bucket : \A u \in t.hold[b] :
             \E i \in Bucket : u \in s.hold[i] /\ b = MergedIndex(i, k)
    <3> DEFINE l == s.hold
    <3>1. l \in [Bucket -> SUBSET Mine(p)]
      BY <1>1
    <3> HIDE DEF l
    <3>2. LET m == MergedLists(l, k) IN
          /\ m \in [Bucket -> SUBSET Mine(p)]
          /\ Listed(m) = Listed(l)
          /\ Apart(l) => Apart(m)
          /\ \A b \in Bucket : \A u \in m[b] :
              \E i \in Bucket : u \in l[i] /\ b = MergedIndex(i, k)
      BY <3>1, MergedListsIs
    <3> QED BY <1>2, <3>2 DEF l
  <2>2. Queue(t) = Queue(s)
    BY <1>2, <2>1 DEF Queue
  <2>3. \A u \in Queue(t) : Placed(u, t.scale, t.limit)
    BY <1>1, <1>3, <2>2 DEF Books, Indexed
  <2>4. ASSUME NEW b \in Bucket, NEW u \in t.hold[b] PROVE BucketAt(t, u) = b
    <3>1. PICK i \in Bucket : u \in s.hold[i] /\ b = MergedIndex(i, k)
      BY <2>1
    <3>2. u \in Queue(s) /\ u \in Update
      BY <1>1, <3>1 DEF Queue, Listed
    <3>3. Placed(u, s.scale, s.limit) /\ BucketAt(s, u) = i
      BY <3>1, <3>2 DEF Books, Indexed
    <3> QED BY <1>3, <3>1, <3>2, <3>3
  <2> QED BY <2>3, <2>4 DEF Indexed
<1> QED BY <1>4, <1>5 DEF Books, t

LEMMA RetiresAtMost ==
  ASSUME NEW p, NEW s \in Chare(p), NEW u \in Mine(p)
  PROVE  ProcessUpdate(s, u).processed \subseteq s.processed \cup {u}
<1> DEFINE t == ProcessUpdate(s, u)
           z == Improved(s, u)
<1>0. u \in Update
  BY DEF Mine
<1>1. \/ t = Defer(s, u)
      \/ t = Retire(s, u)
      \/ u.d < s.dist[u.to] /\ t = Retire(z, u)
      \/ u.d < s.dist[u.to] /\ t = Kept(z, u)
  BY ProcessUpdateIs
<1>2. ASSUME u.d < s.dist[u.to] PROVE z \in Chare(p) /\ z.processed = s.processed
  <2>1. /\ z \in Chare(p)
        /\ SameRules(s, z) /\ z.dist = [s.dist EXCEPT ![u.to] = u.d]
        /\ z.deferred = s.deferred /\ z.pq = s.pq /\ z.hold = s.hold
        /\ z.processed = s.processed /\ z.histogram = s.histogram
    BY <1>2, ImprovedIs
  <2> QED BY <2>1
<1> HIDE DEF t, z
<1>3. CASE t = Defer(s, u)
  BY <1>3, DeferIs DEF t
<1>4. CASE t = Retire(s, u)
  BY <1>0, <1>4, RetireIs DEF t
<1>5. CASE u.d < s.dist[u.to] /\ t = Retire(z, u)
  <2>1. t.processed = z.processed \cup {u}
    BY <1>0, <1>2, <1>5, RetireIs
  <2> QED BY <1>2, <1>5, <2>1 DEF t
<1>6. CASE u.d < s.dist[u.to] /\ t = Kept(z, u)
  <2>1. t.processed = z.processed
    BY <1>2, <1>6, KeptIs
  <2> QED BY <1>2, <1>6, <2>1 DEF t
<1> QED BY <1>1, <1>3, <1>4, <1>5, <1>6

\* The deferred updates go through process_update() again.
LEMMA ReprocessBooks ==
  ASSUME SkewDefer, NEW p, NEW s, ChareOK(p, s), Books(s),
         NoRepeat(s.deferred), ToSet(s.deferred) \cap s.processed = {}
  PROVE  Books(Reprocess(s))
<1> DEFINE q == s.deferred
           n == Len(q)
           seen(i) == {q[j] : j \in 1..i}
<1>1. s \in Chare(p)
  BY DEF ChareOK
<1>2. PICK w : /\ Passes(s, w)
               /\ \A i \in 0..n : w[i] \in Chare(p) /\ SameRules(s, w[i])
  BY <1>1, ReprocessIs
<1>3. /\ n \in Nat
      /\ \A i \in 1..n : q[i] \in Mine(p) /\ q[i] \notin s.processed
      /\ \A i, j \in 1..n : q[i] = q[j] => i = j
  <2>1. q \in Seq(Mine(p)) /\ NoRepeat(q) /\ ToSet(q) \cap s.processed = {}
    BY <1>1 DEF Chare
  <2> HIDE DEF q
  <2>2. n \in Nat /\ DOMAIN q = 1..n
        /\ \A i \in 1..n : q[i] \in Mine(p) /\ q[i] \in ToSet(q)
    BY <2>1 DEF ToSet
  <2> QED BY <2>1, <2>2 DEF NoRepeat
<1>4. /\ w[0] = [s EXCEPT !.deferred = <<>>] /\ Reprocess(s) = w[n]
      /\ \A i \in 1..n : w[i] = ProcessUpdate(w[i - 1], q[i])
  BY <1>2 DEF Passes
<1>5. \A i \in 0..n : ChareOK(p, w[i])
  BY <1>2, ChareKeeps
<1> HIDE DEF q, n
<1> DEFINE G == {i \in 0..n : Books(w[i]) /\ w[i].processed \subseteq s.processed \cup seen(i)}
<1>6. 0 \in G
  <2> DEFINE z == w[0]
  <2>1. /\ z.scale = s.scale /\ z.limit = s.limit /\ z.created = s.created
        /\ z.processed = s.processed /\ z.histogram = s.histogram
        /\ z.pq = s.pq /\ z.hold = s.hold
    BY <1>1, <1>4 DEF Chare
  <2> HIDE DEF z
  <2>2. Ledger(s) => Ledger(z)
    BY <2>1, SameLedger
  <2>3. Indexed(z)
    BY <2>1, SameIndexed DEF Books
  <2> QED BY <1>3, <2>1, <2>2, <2>3 DEF Books, z
<1>7. ASSUME NEW i \in 1..n, i - 1 \in G PROVE i \in G
  <2> DEFINE z == w[i - 1]
             t == ProcessUpdate(z, q[i])
  <2>1. /\ ChareOK(p, z) /\ Books(z) /\ z.processed \subseteq s.processed \cup seen(i - 1)
        /\ q[i] \in Mine(p) /\ i \in 0..n /\ w[i] = t
    BY <1>3, <1>4, <1>5, <1>7
  <2>2. q[i] \notin z.processed
    <3>1. \A j \in 1..(i - 1) : j \in 1..n /\ j # i
      BY <1>3
    <3> QED BY <1>3, <2>1, <3>1
  <2> HIDE DEF z
  <2>3. Books(t)
    BY <2>1, <2>2, UpdateBooks
  <2>4. t.processed \subseteq z.processed \cup {q[i]}
    BY <2>1, RetiresAtMost DEF ChareOK
  <2> HIDE DEF t
  <2>5. seen(i - 1) \cup {q[i]} \subseteq seen(i)
    BY <1>3
  <2> QED BY <2>1, <2>3, <2>4, <2>5
<1> HIDE DEF G
<1>8. n \in G
  <2>1. \A i \in 0..n : i \in G
    BY <1>3, <1>6, <1>7, Climb
  <2> QED BY <1>3, <2>1
<1> QED BY <1>4, <1>8 DEF G

\* current_thresholds()
LEMMA TakeUpBooks ==
  ASSUME ClampFreeze, SkewDefer, NEW p, NEW s, ChareOK(p, s), Books(s),
         NoRepeat(s.deferred), ToSet(s.deferred) \cap s.processed = {},
         NEW r \in RoundType
  PROVE  Books(TakeUp(s, r))
<1> DEFINE m == Merged(s, r)
           x == Reprocess(m)
           t == TakeUp(s, r)
<1>1. s \in Chare(p) /\ Fits(s.scale, s.limit) /\ IsFiniteSet(s.created)
      /\ r.coarsen \in Nat \ {0} /\ r.extend \in BOOLEAN
  BY DEF ChareOK, RoundType
<1>2. /\ m \in Chare(p) /\ Fits(m.scale, m.limit) /\ Rescales(s, m, r)
      /\ m.created = s.created /\ m.processed = s.processed /\ m.deferred = s.deferred
  BY <1>1, MergedIs
<1>3. ChareOK(p, m)
  BY <1>1, <1>2 DEF ChareOK
<1>4. Books(m)
  <2>1. CASE r.coarsen > 1
    BY <1>1, <2>1, MergeBooks DEF Merged
  <2>2. CASE ~(r.coarsen > 1)
    BY <2>2 DEF Merged
  <2> QED BY <2>1, <2>2
<1>5. /\ SameRules(m, x) /\ Rescales(s, t, r)
      /\ t.created = s.created /\ t.processed = x.processed /\ t.histogram = x.histogram
      /\ t.pq = x.pq /\ t.hold = x.hold
  BY <1>1, TakeUpIs
<1> HIDE DEF m
<1>6. Books(x)
  BY <1>2, <1>3, <1>4, ReprocessBooks
<1> HIDE DEF x, t
<1>7. t.scale = x.scale /\ t.limit = x.limit /\ t.created = x.created
  BY <1>2, <1>5 DEF SameRules, Rescales
<1>8. Ledger(x) => Ledger(t)
  BY <1>5, <1>7, SameLedger
<1>9. Indexed(t)
  BY <1>5, <1>6, <1>7, SameIndexed DEF Books
<1> QED BY <1>6, <1>8, <1>9 DEF Books, t

\* Who charges an update to a histogram; its owner retires it.
Creator(u) == IF u.via = NoEdge THEN Owner[Source] ELSE Owner[From[u.via]]
Entries(p, s) == (\A u \in s.created : Creator(u) = p) /\ s.processed \subseteq Mine(p)

LEMMA UpdateEntries ==
  ASSUME NEW p, NEW s \in Chare(p), Entries(p, s), NEW u \in Mine(p)
  PROVE  Entries(p, ProcessUpdate(s, u))
<1>1. SameRules(s, ProcessUpdate(s, u))
  BY ProcessUpdateIs
<1>2. ProcessUpdate(s, u).processed \subseteq s.processed \cup {u}
  BY RetiresAtMost
<1> QED BY <1>1, <1>2 DEF SameRules, Entries

LEMMA ExpandEntries ==
  ASSUME NEW p, NEW s \in Chare(p), Entries(p, s), NEW u \in s.pq
  PROVE  Entries(p, Expanded(s, u))
<1> DEFINE sent == Relaxations(s, u)
           t == Expanded(s, u)
<1>1. t.created = s.created \cup sent /\ t.processed = s.processed \cup {u}
  BY ExpandedIs
<1>2. u \in Mine(p)
  BY DEF Chare
<1>3. Expands(s.dist, u, sent)
  BY RelaxationsShape
<1> HIDE DEF t, sent
<1>4. ASSUME NEW k \in sent PROVE Creator(k) = p
  <2>1. k.via \in Edge /\ From[k.via] = u.to
    BY <1>3 DEF Expands, Out
  <2>2. k.via # NoEdge
    BY <2>1, AcicAssumption
  <2> QED BY <1>2, <2>1, <2>2 DEF Creator, Mine
<1> QED BY <1>1, <1>2, <1>4 DEF Entries, t

LEMMA TakeUpEntries ==
  ASSUME NEW p, NEW s \in Chare(p), Fits(s.scale, s.limit), Entries(p, s),
         NEW r \in RoundType
  PROVE  Entries(p, TakeUp(s, r))
<1> DEFINE m == Merged(s, r)
           t == TakeUp(s, r)
           q == m.deferred
           n == Len(q)
<1>1. /\ m \in Chare(p) /\ m.created = s.created /\ m.processed = s.processed
  BY MergedIs
<1>2. t.created = s.created /\ t.processed = Reprocess(m).processed
  BY TakeUpIs
<1> HIDE DEF m, t
<1>3. PICK w : /\ Passes(m, w)
               /\ \A i \in 0..n : w[i] \in Chare(p) /\ SameRules(m, w[i])
  BY <1>1, ReprocessIs
<1>4. n \in Nat /\ \A i \in 1..n : q[i] \in Mine(p)
  <2>1. q \in Seq(Mine(p))
    BY <1>1 DEF Chare
  <2> HIDE DEF q
  <2> QED BY <2>1
<1>5. /\ w[0] = [m EXCEPT !.deferred = <<>>] /\ Reprocess(m) = w[n]
      /\ \A i \in 1..n : w[i] = ProcessUpdate(w[i - 1], q[i])
  BY <1>3 DEF Passes
<1> HIDE DEF q, n
<1> DEFINE G == {i \in 0..n : w[i].processed \subseteq Mine(p)}
<1>6. 0 \in G
  <2>1. w[0].processed = m.processed
    BY <1>1, <1>5 DEF Chare
  <2> QED BY <1>1, <1>4, <2>1 DEF Entries
<1>7. ASSUME NEW i \in 1..n, i - 1 \in G PROVE i \in G
  <2>1. w[i - 1] \in Chare(p) /\ w[i - 1].processed \subseteq Mine(p) /\ q[i] \in Mine(p)
        /\ i \in 0..n
    BY <1>3, <1>4, <1>7
  <2>2. ProcessUpdate(w[i - 1], q[i]).processed \subseteq w[i - 1].processed \cup {q[i]}
    BY <2>1, RetiresAtMost
  <2> QED BY <1>5, <2>1, <2>2
<1> HIDE DEF G
<1>8. n \in G
  <2>1. \A i \in 0..n : i \in G
    BY <1>4, <1>6, <1>7, Climb
  <2> QED BY <1>4, <2>1
<1> QED BY <1>2, <1>5, <1>8 DEF G, Entries, t

AllEntries == \A p \in PE : Entries(p, pe[p])
AllBooks == \A p \in PE : Books(pe[p])

LEMMA NewRelaxations ==
  ASSUME SoundAlways, NEW p \in PE, NEW u \in pe[p].pq
  PROVE  Relaxations(pe[p], u) \cap Created(pe) = {}
<1> DEFINE s == pe[p]
           sent == Relaxations(s, u)
           d == D(pe)
           n == Travelling(pe, net)
           q == Queued(pe)
           c == Created(pe)
           x == Processed(pe)
<1>1. View(d, n, q, c, x) /\ Chares(pe)
  BY DEF SoundAlways, Sound
<1>2. /\ s \in Chare(p) /\ \A v \in Vertex : Owner[v] = p => d[v] = s.dist[v]
  BY <1>1, Gathered
<1>3. u \in q /\ u \in Mine(p) /\ u \in Update
  BY <1>2 DEF Queued, Queue, Chare, Mine
<1>4. sent \in SUBSET Update
  BY <1>2, <1>3, RelaxationsIs
<1>5. Expands(d, u, sent)
  <2>1. d[u.to] = s.dist[u.to]
    BY <1>2, <1>3 DEF Mine, Update
  <2>2. Expands(s.dist, u, sent)
    BY RelaxationsShape
  <2> HIDE DEF sent, s, d
  <2> QED BY <2>1, <2>2 DEF Expands
<1> HIDE DEF d, n, q, c, x, sent
<1>6. sent \cap c = {}
  BY <1>1, <1>3, <1>4, <1>5, ViewExpand
<1> QED BY <1>6 DEF sent, c

\* Live updates are not processed, created ones are somewhere.
LEMMA NotYetProcessed ==
  ASSUME SoundAlways, NEW p \in PE
  PROVE  /\ net \cap pe[p].processed = {} /\ Queue(pe[p]) \cap pe[p].processed = {}
         /\ ToSet(pe[p].deferred) \cap pe[p].processed = {}
         /\ NoRepeat(pe[p].deferred)
         /\ ChareOK(p, pe[p]) /\ pe[p] \in Chare(p) /\ Fits(pe[p].scale, pe[p].limit)
         /\ pe[p].created \subseteq Created(pe)
<1>1. Accounted(Travelling(pe, net), Queued(pe), Created(pe), Processed(pe))
      /\ Chares(pe) /\ Places(pe, net)
  BY DEF SoundAlways, Sound, View
<1>2. pe[p].processed \subseteq Processed(pe) /\ pe[p].created \subseteq Created(pe)
      /\ Queue(pe[p]) \subseteq Queued(pe)
      /\ ToSet(pe[p].deferred) \subseteq Deferred(pe)
  BY DEF Processed, Created, Queued, Deferred
<1> QED BY <1>1, <1>2 DEF Accounted, Travelling, Places, Tidy, Chares, ChareOK


LEMMA EntriesStep == SoundAlways /\ AllEntries /\ [Next]_vars => AllEntries'
<1> SUFFICES ASSUME SoundAlways, AllEntries, [Next]_vars PROVE AllEntries'
  OBVIOUS
<1>0. Typed /\ \A p \in PE : /\ pe[p] \in Chare(p) /\ Fits(pe[p].scale, pe[p].limit)
                             /\ Entries(p, pe[p])
  BY NotYetProcessed DEF SoundAlways, AllEntries
<1>1. ASSUME NEW p \in PE, NEW t, Changes(p, t), Entries(p, t) PROVE AllEntries'
  <2>1. pe'[p] = t /\ \A q \in PE : q # p => pe'[q] = pe[q]
    BY <1>0, <1>1 DEF Typed, Chares, Changes
  <2> QED BY <1>0, <1>1, <2>1 DEF AllEntries
<1>2. ASSUME NEW p \in PE, Start(p) PROVE AllEntries'
  <2>1. PICK u \in Mine(p) :
           /\ u.via = NoEdge /\ p = Owner[Source]
           /\ pe' = [pe EXCEPT ![p] = ProcessUpdate(Charge(pe[p], {u}), u)]
    BY <1>0, <1>2, StartIs
  <2> DEFINE us == {u}
             c == Charge(pe[p], us)
             t == ProcessUpdate(c, u)
  <2>2. us \in SUBSET Update /\ IsFiniteSet(us)
    BY FS_Singleton DEF Mine
  <2>3. Changes(p, t)
    BY <2>1 DEF Changes
  <2>4. \A w \in us : Creator(w) = p
    BY <2>1 DEF Creator
  <2> HIDE DEF us
  <2>5. c \in Chare(p) /\ c.created = pe[p].created \cup us /\ c.processed = pe[p].processed
    BY <1>0, <2>2, ChargeIs
  <2> HIDE DEF c
  <2>6. Entries(p, c)
    BY <1>0, <2>4, <2>5 DEF Entries
  <2>7. Entries(p, t)
    BY <2>5, <2>6, UpdateEntries
  <2> HIDE DEF t
  <2> QED BY <1>1, <2>3, <2>7
<1>3. ASSUME NEW p \in PE, Deliver(p) PROVE AllEntries'
  <2>1. PICK u \in Mine(p) : Changes(p, ProcessUpdate(pe[p], u))
    BY <1>0, <1>3, DeliverIs DEF Changes
  <2>2. Entries(p, ProcessUpdate(pe[p], u))
    BY <1>0, UpdateEntries
  <2> QED BY <1>1, <2>1, <2>2
<1>4. ASSUME NEW p \in PE, FoldBatch(p) PROVE AllEntries'
  <2>1. PICK x, y, s :
           /\ x \in Mine(p) /\ y \in Mine(p)
           /\ s = ProcessUpdate(pe[p], x) \/ s = Retire(pe[p], x)
           /\ ChareOK(p, s) /\ Changes(p, ProcessUpdate(s, y))
    BY <1>0, <1>4, FoldIs DEF Changes
  <2>2. s \in Chare(p) /\ Entries(p, s)
    <3>1. CASE s = ProcessUpdate(pe[p], x)
      BY <1>0, <2>1, <3>1, UpdateEntries DEF ChareOK
    <3>2. CASE s = Retire(pe[p], x)
      <4>1. x \in Update
        BY <2>1 DEF Mine
      <4>2. SameRules(pe[p], s) /\ s.processed = pe[p].processed \cup {x}
        BY <1>0, <3>2, <4>1, RetireIs
      <4> QED BY <1>0, <2>1, <4>2 DEF SameRules, Entries, ChareOK
    <3> QED BY <2>1, <3>1, <3>2
  <2>3. Entries(p, ProcessUpdate(s, y))
    BY <2>1, <2>2, UpdateEntries
  <2> QED BY <1>1, <2>1, <2>3
<1>5. ASSUME NEW p \in PE, ProcessHeap(p) PROVE AllEntries'
  <2>1. PICK u \in pe[p].pq : Changes(p, Expanded(pe[p], u))
    BY <1>0, <1>5, HeapIs DEF Changes
  <2>2. Entries(p, Expanded(pe[p], u))
    BY <1>0, ExpandEntries
  <2> QED BY <1>1, <2>1, <2>2
<1>6. ASSUME NEW p \in PE, ClearPqHold(p) PROVE AllEntries'
  <2>1. Changes(p, Admitted(pe[p]))
    BY <1>0, <1>6, ClearIs DEF Changes
  <2>2. SameRules(pe[p], Admitted(pe[p])) /\ Admitted(pe[p]).processed = pe[p].processed
    BY <1>0, AdmittedIs
  <2>3. Entries(p, Admitted(pe[p]))
    BY <1>0, <2>2 DEF SameRules, Entries
  <2> QED BY <1>1, <2>1, <2>3
<1>7. ASSUME NEW p \in PE, CurrentThresholds(p) PROVE AllEntries'
  <2>1. Changes(p, TakeUp(pe[p], round)) /\ round \in RoundType
    BY <1>0, <1>7, ThresholdsIs DEF Changes, Typed
  <2>2. Entries(p, TakeUp(pe[p], round))
    BY <1>0, <2>1, TakeUpEntries
  <2> QED BY <1>1, <2>1, <2>2
<1>8. CASE pe' = pe
  BY <1>8 DEF AllEntries
<1> QED BY <1>2, <1>3, <1>4, <1>5, <1>6, <1>7, <1>8
        DEF Next, vars, FirstContribution, Finish, NextRound

LEMMA BooksStep ==
  ASSUME ClampFreeze, SkewDefer, SoundAlways, AllBooks, [Next]_vars
  PROVE  AllBooks'
<1>0. Typed /\ \A p \in PE : /\ pe[p] \in Chare(p) /\ ChareOK(p, pe[p])
                             /\ Books(pe[p])
                             /\ net \cap pe[p].processed = {}
  BY NotYetProcessed DEF SoundAlways, AllBooks
<1>1. ASSUME NEW p \in PE, NEW t, Changes(p, t), Books(t) PROVE AllBooks'
  <2>1. pe'[p] = t /\ \A q \in PE : q # p => pe'[q] = pe[q]
    BY <1>0, <1>1 DEF Typed, Chares, Changes
  <2> QED BY <1>0, <1>1, <2>1 DEF AllBooks
<1>2. ASSUME NEW p \in PE, Start(p) PROVE AllBooks'
  <2>1. PICK u \in Mine(p) :
           /\ u = Charged(pe[p], [via |-> NoEdge, to |-> Source, d |-> 0, ovf |-> FALSE])
           /\ pe[p].created = {} /\ p = Owner[Source]
           /\ pe' = [pe EXCEPT ![p] = ProcessUpdate(Charge(pe[p], {u}), u)]
    BY <1>0, <1>2, StartIs
  <2>2. Placed(u, pe[p].scale, pe[p].limit)
    <3>1. [via |-> NoEdge, to |-> Source, d |-> 0, ovf |-> FALSE] \in Update
      BY SourceAssumption DEF Update
    <3> QED BY <2>1, <3>1, ChargedPlaced
  <2>3. u \notin pe[p].processed
    <3>1. Created(pe) = {}
      BY <2>1 DEF SoundAlways, SourceFirst
    <3>2. pe[p].processed \subseteq Processed(pe) /\ Processed(pe) \subseteq Created(pe)
      BY DEF SoundAlways, Sound, View, Accounted, Processed
    <3> QED BY <3>1, <3>2
  <2>4. Books(ProcessUpdate(Charge(pe[p], {u}), u))
    BY <1>0, <2>1, <2>2, <2>3, StartBooks
  <2>5. Changes(p, ProcessUpdate(Charge(pe[p], {u}), u))
    BY <2>1 DEF Changes
  <2> QED BY <1>1, <2>4, <2>5
<1>3. ASSUME NEW p \in PE, Deliver(p) PROVE AllBooks'
  <2>1. PICK u \in net : u \in Mine(p) /\ Changes(p, ProcessUpdate(pe[p], u))
    BY <1>0, <1>3, DeliverIs DEF Changes
  <2>2. u \notin pe[p].processed
    BY <1>0
  <2>3. Books(ProcessUpdate(pe[p], u))
    BY <1>0, <2>1, <2>2, UpdateBooks
  <2> QED BY <1>1, <2>1, <2>3
<1>4. ASSUME NEW p \in PE, FoldBatch(p) PROVE AllBooks'
  <2>0. BatchFold
    BY <1>4 DEF FoldBatch
  <2>1. PICK x, y, s :
           /\ x \in net /\ y \in net /\ x # y
           /\ x \in Mine(p) /\ y \in Mine(p)
           /\ s = ProcessUpdate(pe[p], x) \/ s = Retire(pe[p], x)
           /\ ChareOK(p, s) /\ Changes(p, ProcessUpdate(s, y))
    BY <1>0, <1>4, FoldIs DEF Changes
  <2>2. x \notin pe[p].processed /\ y \notin pe[p].processed
    BY <1>0, <2>1
  <2>3. Books(s) /\ s.processed \subseteq pe[p].processed \cup {x}
    <3>1. CASE s = ProcessUpdate(pe[p], x)
      BY <1>0, <2>1, <2>2, <3>1, UpdateBooks, RetiresAtMost
    <3>2. CASE s = Retire(pe[p], x)
      <4>1. x \in Update
        BY <2>1 DEF Mine
      <4>2. /\ SameRules(pe[p], s) /\ s.processed = pe[p].processed \cup {x}
            /\ s.pq = pe[p].pq /\ s.hold = pe[p].hold
        BY <1>0, <3>2, <4>1, RetireIs
      <4>3. Indexed(pe[p])
        BY <1>0 DEF Books
      <4>4. Indexed(s)
        BY <4>2, <4>3, SameIndexed DEF SameRules
      <4> QED BY <2>0, <4>2, <4>4 DEF Books
    <3> QED BY <2>1, <3>1, <3>2
  <2>4. y \notin s.processed
    BY <2>1, <2>2, <2>3
  <2>5. Books(ProcessUpdate(s, y))
    BY <2>1, <2>3, <2>4, UpdateBooks
  <2> QED BY <1>1, <2>1, <2>5
<1>5. ASSUME NEW p \in PE, ProcessHeap(p) PROVE AllBooks'
  <2>1. PICK u \in pe[p].pq : Changes(p, Expanded(pe[p], u))
    BY <1>0, <1>5, HeapIs DEF Changes
  <2>2. u \notin pe[p].processed /\ Relaxations(pe[p], u) \cap pe[p].created = {}
    BY NotYetProcessed, NewRelaxations DEF Queue
  <2>3. Books(Expanded(pe[p], u))
    BY <1>0, <2>2, ExpandBooks
  <2> QED BY <1>1, <2>1, <2>3
<1>6. ASSUME NEW p \in PE, ClearPqHold(p) PROVE AllBooks'
  <2>1. Changes(p, Admitted(pe[p]))
    BY <1>0, <1>6, ClearIs DEF Changes
  <2>2. Books(Admitted(pe[p]))
    BY <1>0, AdmitBooks
  <2> QED BY <1>1, <2>1, <2>2
<1>7. ASSUME NEW p \in PE, CurrentThresholds(p) PROVE AllBooks'
  <2>1. Changes(p, TakeUp(pe[p], round)) /\ round \in RoundType
    BY <1>0, <1>7, ThresholdsIs DEF Changes, Typed
  <2>2. NoRepeat(pe[p].deferred) /\ ToSet(pe[p].deferred) \cap pe[p].processed = {}
    BY NotYetProcessed
  <2>3. Books(TakeUp(pe[p], round))
    BY <1>0, <2>1, <2>2, TakeUpBooks
  <2> QED BY <1>1, <2>1, <2>3
<1>8. CASE pe' = pe
  BY <1>8 DEF AllBooks
<1> QED BY <1>2, <1>3, <1>4, <1>5, <1>6, <1>7, <1>8
        DEF Next, vars, FirstContribution, Finish, NextRound

LEMMA BooksInit == Init => AllBooks /\ AllEntries
<1> SUFFICES ASSUME Init, NEW p \in PE PROVE Books(pe[p]) /\ Entries(p, pe[p])
  BY DEF AllBooks, AllEntries
<1> DEFINE s == pe[p]
<1>1. /\ s.created = {} /\ s.processed = {} /\ s.pq = {} /\ s.hold = NoLists
      /\ s.histogram = NoCounts
  BY DEF Init, NewPE
<1> HIDE DEF s
<1>2. Entries(p, s)
  BY <1>1 DEF Entries
<1>3. Indexed(s)
  BY <1>1 DEF Indexed, Queue, Listed, NoLists
<1>4. Ledger(s)
  <2>1. IsFiniteSet({}) /\ Cardinality({}) = 0
    BY FS_EmptySet
  <2>2. \A b : Part(At(s), {}, b) = {}
    BY DEF Part
  <2>3. \A b \in Bucket : s.histogram[b] = 0
    BY <1>1 DEF NoCounts
  <2> QED BY <1>1, <2>1, <2>2, <2>3 DEF Ledger
<1> QED BY <1>2, <1>3, <1>4 DEF Books, s


-----------------------------------------------------------------------------
(* The books of all PEs together *)

LEMMA BooksAlways ==
  ASSUME ClampFreeze, SkewDefer
  PROVE  Spec => [](Scaled /\ AllEntries /\ AllBooks)
<1>1. Init => AllBooks /\ AllEntries
  BY BooksInit
<1>2. Scaled /\ AllEntries /\ [Next]_vars => AllEntries'
  BY EntriesStep DEF Scaled
<1>3. Scaled /\ AllBooks /\ [Next]_vars => AllBooks'
  BY BooksStep DEF Scaled
<1> QED BY <1>1, <1>2, <1>3, ScaledAlways, PTL DEF Spec

\* With the clamp frozen and skewed updates deferred, a merge never leaves an
\* update in pq_hold under a bucket that is not its own, so the threshold that
\* reaches its bucket releases it.
THEOREM HoldsStayIndexed ==
  ASSUME ClampFreeze, SkewDefer
  PROVE  Spec => []HoldsIndexed
<1>1. AllBooks => HoldsIndexed
  BY DEF AllBooks, Books, Indexed, HoldsIndexed
<1> QED BY <1>1, BooksAlways, PTL

\* A PE once it has taken up the round's merge.
AfterMerge(q) ==
  IF Pending(q) THEN CoarsenBuckets(pe[q], round.coarsen, round.extend) ELSE pe[q]

LEMMA AfterMergeIs ==
  ASSUME ClampFreeze, Scaled, AllBooks, NEW q \in PE
  PROVE  LET t == AfterMerge(q) IN
         /\ t.scale = SettledScale(q) /\ t.limit = SettledLimit(q)
         /\ t.histogram = Settled(q) /\ t.created = pe[q].created
         /\ t.processed = pe[q].processed /\ Books(t)
<1>1. /\ pe[q] \in Chare(q) /\ ChareOK(q, pe[q]) /\ Fits(pe[q].scale, pe[q].limit)
      /\ round.coarsen \in Nat \ {0} /\ round.extend \in BOOLEAN /\ Books(pe[q])
  BY NotYetProcessed DEF Scaled, SoundAlways, Typed, RoundType, AllBooks
<1>2. CASE Pending(q)
  <2> DEFINE k == round.coarsen
             e == round.extend
             t == CoarsenBuckets(pe[q], k, e)
  <2>1. Books(t)
    BY <1>1, MergeBooks
  <2>2. /\ t.scale = pe[q].scale * k
        /\ t.limit = MergedLimit(pe[q].limit, pe[q].scale, k, e)
        /\ t.histogram = MergedCounts(pe[q].histogram, k)
        /\ t.created = pe[q].created /\ t.processed = pe[q].processed
    BY <1>1, CoarsenIs
  <2>3. AfterMerge(q) = t
    BY <1>2 DEF AfterMerge
  <2> HIDE DEF t
  <2> QED BY <1>2, <2>1, <2>2, <2>3 DEF SettledScale, SettledLimit, Settled
<1>3. CASE ~Pending(q)
  BY <1>1, <1>3 DEF AfterMerge, SettledScale, SettledLimit, Settled
<1> QED BY <1>2, <1>3

\* A bucket's count summed over the PEs, as LedgerExact writes it.
LEMMA SumOfCounts ==
  ASSUME NEW b, NEW h, h = [q \in PE |-> Settled(q)[b]], \A q \in PE : h[q] \in Int
  PROVE  MapThenSumSet(LAMBDA q : Settled(q)[b], PE) = Sum(h, PE)
<1> DEFINE P(g) == g = [T \in SUBSET PE |->
                          IF T = {} THEN 0
                          ELSE Settled(Picked(T))[b] + g[T \ {Picked(T)}]]
           f == CHOOSE g : P(g)
<1>1. MapThenSumSet(LAMBDA q : Settled(q)[b], PE) = f[PE]
  BY DEF MapThenSumSet, MapThenFoldSet, Picked
<1>2. \A g : P(g) <=> Adds(h, PE, g)
  <2>1. \A T \in SUBSET PE : T # {} => h[Picked(T)] = Settled(Picked(T))[b]
    BY DEF Picked
  <2> QED BY <2>1 DEF Adds
<1>3. PICK g : IsSum(h, PE, g)
  BY AcicAssumption, SumExists
<1>4. P(f)
  <2>1. P(g)
    BY <1>2, <1>3 DEF IsSum
  <2> QED BY <2>1
<1> HIDE DEF f
<1>5. Adds(h, PE, f)
  BY <1>2, <1>4
<1>6. f[PE] = g[PE]
  BY <1>3, <1>5, AcicAssumption, SumSame DEF IsSum
<1>7. Sum(h, PE) = g[PE]
  BY <1>3, AcicAssumption, SumIs
<1> QED BY <1>1, <1>6, <1>7

LEMMA LiveIs ==
  ASSUME SoundAlways
  PROVE  /\ \A u : u \in LiveUpdates <=> u \in Created(pe) /\ u \notin Processed(pe)
         /\ Processed(pe) \subseteq Created(pe) /\ Created(pe) \subseteq Update
<1>1. /\ Accounted(Travelling(pe, net), Queued(pe), Created(pe), Processed(pe))
      /\ Created(pe) \subseteq Update
  BY DEF SoundAlways, Sound, View
<1>2. LiveUpdates = Travelling(pe, net) \cup Queued(pe)
  <2>1. \A y : y \in InFlight <=> y \in net \/ y \in InTram(pe)
    BY DEF InFlight, InTram, Listed
  <2>2. \A p \in PE : AtPE(p) = Queue(pe[p]) \cup ToSet(pe[p].deferred)
    BY DEF AtPE, Queue, Listed
  <2>3. \A y : y \in LiveUpdates <=> y \in InFlight \/ \E p \in PE : y \in AtPE(p)
    BY DEF LiveUpdates
  <2>4. \A y : y \in Deferred(pe) <=> \E p \in PE : y \in ToSet(pe[p].deferred)
    BY DEF Deferred
  <2>5. \A y : y \in Queued(pe) <=> \E p \in PE : y \in Queue(pe[p])
    BY DEF Queued
  <2>6. \A y : y \in Travelling(pe, net) <=>
                y \in net \/ y \in InTram(pe) \/ y \in Deferred(pe)
    BY DEF Travelling
  <2>7. \A y : y \in LiveUpdates <=> y \in Travelling(pe, net) \/ y \in Queued(pe)
    BY <2>1, <2>2, <2>3, <2>4, <2>5, <2>6
  <2> QED BY <2>7
<1> QED BY <1>1, <1>2 DEF Accounted

LEMMA LedgerSums ==
  ASSUME ClampFreeze, ~BatchFold, Scaled, AllEntries, AllBooks, NEW b \in Bucket, NEW p \in PE
  PROVE  MapThenSumSet(LAMBDA q : Settled(q)[b], PE) =
           Cardinality({u \in LiveUpdates :
                          BucketOf(u, SettledScale(p), SettledLimit(p)) = b})
<1> DEFINE t(q) == AfterMerge(q)
           F == At(t(p))
           h == [q \in PE |-> Settled(q)[b]]
           c == Part(F, Created(pe), b)
           x == Part(F, Processed(pe), b)
           f == [u \in Update |-> Creator(u)]
           g == [u \in Update |-> Owner[u.to]]
<1>1. SoundAlways /\ RulesAgree /\ Typed
  BY DEF Scaled, SoundAlways
<1>2. \A q \in PE : /\ t(q).scale = SettledScale(q) /\ t(q).limit = SettledLimit(q)
                    /\ t(q).histogram = Settled(q) /\ t(q).created = pe[q].created
                    /\ t(q).processed = pe[q].processed /\ Ledger(t(q))
  BY AfterMergeIs DEF Books
<1>3. \A q \in PE : At(t(q)) = F
  <2>1. \A q \in PE : t(q).scale = t(p).scale /\ t(q).limit = t(p).limit
    BY <1>1, <1>2 DEF RulesAgree, OneMergeApart
  <2> QED BY <2>1, SameAt
<1>4. /\ Processed(pe) \subseteq Created(pe) /\ Created(pe) \subseteq Update
      /\ IsFiniteSet(Created(pe)) /\ IsFiniteSet(Processed(pe))
  BY <1>1, LiveIs, CreatedFinite, FS_Subset
<1>5. \A u \in Update : BucketOf(u, SettledScale(p), SettledLimit(p)) = F[u]
  BY <1>2 DEF At, BucketAt
<1> HIDE DEF t, F
<1>6. \A q \in PE : h[q] = Cardinality(Part(F, pe[q].created, b))
                             - Cardinality(Part(F, pe[q].processed, b))
  BY <1>2, <1>3 DEF Ledger
<1>7. IsFiniteSet(c) /\ IsFiniteSet(x) /\ Cardinality(c) \in Nat /\ Cardinality(x) \in Nat
  BY <1>4, PartsFinite
<1>8. ASSUME NEW q \in PE
      PROVE  /\ Part(F, pe[q].created, b) = Part(f, c, q)
             /\ Part(F, pe[q].processed, b) = Part(g, x, q)
  <2>1. \A u : u \in pe[q].created <=> u \in Created(pe) /\ f[u] = q
    BY <1>4 DEF AllEntries, Entries, Created
  <2>2. \A u : u \in pe[q].processed <=> u \in Processed(pe) /\ g[u] = q
    BY <1>4 DEF AllEntries, Entries, Processed, Mine
  <2> HIDE DEF f, g
  <2> QED BY <2>1, <2>2 DEF Part
<1>9. Parts(f, c, PE) = c /\ Parts(g, x, PE) = x
  <2>1. \A u \in Created(pe) : f[u] \in PE
    BY <1>4 DEF AllEntries, Entries, Created
  <2>2. \A u \in Processed(pe) : g[u] \in PE
    BY <1>4, AcicAssumption DEF Update
  <2> HIDE DEF f, g
  <2> QED BY <2>1, <2>2 DEF Parts, Part
<1>10. Sum(h, PE) = Cardinality(c) - Cardinality(x)
  <2>1. \A q \in PE : h[q] = Cardinality(Part(f, c, q)) - Cardinality(Part(g, x, q))
    BY <1>6, <1>8
  <2> HIDE DEF h, f, g, c, x
  <2>2. Sum(h, PE) = Cardinality(Parts(f, c, PE)) - Cardinality(Parts(g, x, PE))
    BY <1>7, <2>1, AcicAssumption, SumParts
  <2> QED BY <1>9, <2>2
<1>11. \A q \in PE : h[q] \in Int
  <2>1. \A q \in PE : IsFiniteSet(pe[q].created) /\ IsFiniteSet(pe[q].processed)
    BY <1>2 DEF Ledger, Typed, Chares, ChareOK, Scaled, SoundAlways
  <2>2. \A q \in PE : /\ Cardinality(Part(F, pe[q].created, b)) \in Nat
                      /\ Cardinality(Part(F, pe[q].processed, b)) \in Nat
    BY <2>1, PartsFinite
  <2> HIDE DEF h
  <2> QED BY <1>6, <2>2
<1>12. MapThenSumSet(LAMBDA q : Settled(q)[b], PE) = Sum(h, PE)
  BY <1>11, SumOfCounts
<1> DEFINE l == {u \in LiveUpdates : BucketOf(u, SettledScale(p), SettledLimit(p)) = b}
<1>13. c = x \cup l /\ x \cap l = {}
  <2>1. \A u : u \in l <=> u \in c /\ u \notin x
    BY <1>1, <1>4, <1>5, LiveIs DEF Part
  <2>2. x \subseteq c
    BY <1>4 DEF Part
  <2> HIDE DEF l, c, x
  <2> QED BY <2>1, <2>2
<1>14. IsFiniteSet(l)
  <2> HIDE DEF l, c, x
  <2>1. l \in SUBSET c
    BY <1>13
  <2> QED BY <1>7, <2>1, FS_Subset
<1>15. Cardinality(c) = Cardinality(x) + Cardinality(l) /\ Cardinality(l) \in Nat
  <2> HIDE DEF l, c, x
  <2> QED BY <1>7, <1>13, <1>14, CardDisjoint, FS_CardinalityType
<1> HIDE DEF c, x, l, h
<1> QED BY <1>7, <1>10, <1>12, <1>15 DEF l

\* With the clamp frozen, skewed updates deferred and no batch folded, the sum
\* of the histograms is exact: whichever PE charged an update, at whichever
\* scale, and whichever retires it at whichever other, each bucket counts the
\* live updates in it.
THEOREM LedgerStaysExact ==
  ASSUME ClampFreeze, SkewDefer, ~BatchFold
  PROVE  Spec => []LedgerExact
<1>1. Scaled /\ AllEntries /\ AllBooks => LedgerExact
  BY LedgerSums DEF LedgerExact
<1> QED BY <1>1, BooksAlways, PTL

-----------------------------------------------------------------------------
(* The scheduled solver implements Solver: with the clamp where it began no  *)
(* update is deferred, and without folding each step is one of Solver's.     *)

\* The range never grows and no update is flagged for its bucket alone.
NoSkew ==
  /\ ~round.extend
  /\ \A p \in PE : pe[p].limit = B /\ pe[p].deferred = <<>>

\* Without its flag an update can still be told from any other.
Distinct(c) == \A u, w \in c : Unflagged(u) = Unflagged(w) => u = w

LEMMA NeverDeferred ==
  ASSUME ~SkewDefer, NEW s, s.limit = B, NEW u, NEW k, Placed(u, k, B)
  PROVE  ~MustDefer(s, u)
<1>1. CASE u.ovf
  BY <1>1 DEF MustDefer, CreatedBeyondMyClamp
<1>2. CASE ~u.ovf
  <2>1. ~Beyond(u.d, B)
    BY <1>2 DEF Placed, HistoBucket
  <2> QED BY <2>1 DEF MustDefer, CreatedBeyondMyClamp
<1> QED BY <1>1, <1>2

LEMMA NotDeferredHere ==
  ASSUME ~SkewDefer, Own, NoSkew, NEW p \in PE, NEW u \in Created(pe)
  PROVE  ~MustDefer(pe[p], u)
<1>1. PICK q \in PE : u \in pe[q].created
  BY DEF Created
<1>2. pe[p].limit = B /\ Placed(u, pe[q].scale, B)
  BY <1>1 DEF Own, NoSkew
<1> QED BY <1>2, NeverDeferred

\* An update taken is deferred by nobody.
LEMMA TakenStays ==
  ASSUME NEW p, NEW s \in Chare(p), NEW u \in Mine(p), ~MustDefer(s, u)
  PROVE  ProcessUpdate(s, u).deferred = s.deferred
<1> DEFINE t == ProcessUpdate(s, u)
           z == Improved(s, u)
<1>0. u \in Update
  BY DEF Mine
<1>1. \/ ~(u.d < s.dist[u.to]) /\ t = Retire(s, u)
      \/ u.d < s.dist[u.to] /\ t = Retire(z, u)
      \/ u.d < s.dist[u.to] /\ t = Kept(z, u)
  BY ProcessUpdateIs
<1> HIDE DEF t
<1>2. CASE t = Retire(s, u)
  BY <1>0, <1>2, RetireIs DEF t
<1>3. ASSUME u.d < s.dist[u.to]
      PROVE  z \in Chare(p) /\ z.deferred = s.deferred
  <2>1. /\ z \in Chare(p)
        /\ SameRules(s, z) /\ z.dist = [s.dist EXCEPT ![u.to] = u.d]
        /\ z.deferred = s.deferred /\ z.pq = s.pq /\ z.hold = s.hold
        /\ z.processed = s.processed /\ z.histogram = s.histogram
    BY <1>3, ImprovedIs
  <2> QED BY <2>1
<1> HIDE DEF z
<1>4. CASE u.d < s.dist[u.to] /\ t = Retire(z, u)
  BY <1>0, <1>3, <1>4, RetireIs DEF t
<1>5. CASE u.d < s.dist[u.to] /\ t = Kept(z, u)
  BY <1>3, <1>5, KeptIs DEF t
<1> QED BY <1>1, <1>2, <1>4, <1>5

\* What start_algo() charges is taken too.
LEMMA SourceTaken ==
  ASSUME ~SkewDefer, Typed, NoSkew, NEW p \in PE, NEW u \in Mine(p),
         u = Charged(pe[p], [via |-> NoEdge, to |-> Source, d |-> 0, ovf |-> FALSE])
  PROVE  LET c == Charge(pe[p], {u}) IN
         /\ c \in Chare(p) /\ ~MustDefer(c, u)
         /\ c.created = pe[p].created \cup {u} /\ c.processed = pe[p].processed
         /\ c.dist = pe[p].dist /\ c.deferred = pe[p].deferred
<1> DEFINE us == {u}
           c == Charge(pe[p], us)
<1>1. pe[p] \in Chare(p) /\ us \in SUBSET Update /\ IsFiniteSet(us)
  BY FS_Singleton DEF Typed, Chares, ChareOK, Mine
<1>2. Placed(u, pe[p].scale, pe[p].limit)
  <2>1. [via |-> NoEdge, to |-> Source, d |-> 0, ovf |-> FALSE] \in Update
    BY SourceAssumption DEF Update
  <2> QED BY <2>1, ChargedPlaced
<1> HIDE DEF us
<1>3. /\ c \in Chare(p) /\ c.limit = pe[p].limit
      /\ c.created = pe[p].created \cup us /\ c.processed = pe[p].processed
      /\ c.dist = pe[p].dist /\ c.deferred = pe[p].deferred
  BY <1>1, ChargeIs
<1> HIDE DEF c
<1>4. ~MustDefer(c, u)
  BY <1>2, <1>3, NeverDeferred DEF NoSkew
<1> QED BY <1>3, <1>4 DEF us, c


\* An update in the net is taken where it arrives.
LEMMA WorkTakes ==
  ASSUME ~SkewDefer, ~BatchFold, Scaled, NoSkew, NEW p \in PE, Works(p)
  PROVE  \A q \in PE : pe'[q].deferred = <<>>
<1>0. Typed /\ Own /\ pe[p] \in Chare(p) /\ net \subseteq Created(pe)
  BY CreatedHas DEF Scaled, SoundAlways, Typed, Chares, ChareOK
<1>1. ASSUME NEW t, Changes(p, t), t.deferred = <<>> PROVE \A q \in PE : pe'[q].deferred = <<>>
  <2>1. pe'[p] = t /\ \A q \in PE : q # p => pe'[q] = pe[q]
    BY <1>0, <1>1 DEF Typed, Chares, Changes
  <2> QED BY <1>1, <2>1 DEF NoSkew
<1>2. CASE Start(p)
  <2>1. PICK u \in Mine(p) :
           /\ u = Charged(pe[p], [via |-> NoEdge, to |-> Source, d |-> 0, ovf |-> FALSE])
           /\ pe' = [pe EXCEPT ![p] = ProcessUpdate(Charge(pe[p], {u}), u)]
    BY <1>0, <1>2, StartIs
  <2> DEFINE c == Charge(pe[p], {u})
             t == ProcessUpdate(c, u)
  <2>2. c \in Chare(p) /\ ~MustDefer(c, u) /\ c.deferred = pe[p].deferred
    BY <1>0, <2>1, SourceTaken
  <2>3. Changes(p, t)
    BY <2>1 DEF Changes
  <2> HIDE DEF c
  <2>4. t.deferred = c.deferred
    BY <2>2, TakenStays
  <2> HIDE DEF t
  <2> QED BY <1>1, <2>2, <2>3, <2>4 DEF NoSkew
<1>3. CASE Deliver(p)
  <2>1. PICK u \in net : u \in Mine(p) /\ Changes(p, ProcessUpdate(pe[p], u))
    BY <1>0, <1>3, DeliverIs DEF Changes
  <2>2. ~MustDefer(pe[p], u)
    BY <1>0, NotDeferredHere
  <2>3. ProcessUpdate(pe[p], u).deferred = pe[p].deferred
    BY <1>0, <2>1, <2>2, TakenStays
  <2> QED BY <1>1, <2>1, <2>3 DEF NoSkew
<1>4. CASE ProcessHeap(p)
  <2>1. PICK u \in pe[p].pq : Changes(p, Expanded(pe[p], u))
    BY <1>0, <1>4, HeapIs DEF Changes
  <2>2. Expanded(pe[p], u).deferred = pe[p].deferred
    BY <1>0, ExpandedIs
  <2> QED BY <1>1, <2>1, <2>2 DEF NoSkew
<1>5. CASE ClearPqHold(p)
  <2>1. Changes(p, Admitted(pe[p])) /\ Admitted(pe[p]).deferred = pe[p].deferred
    BY <1>0, <1>5, ClearIs, AdmittedIs DEF Changes
  <2> QED BY <1>1, <2>1 DEF NoSkew
<1> QED BY <1>2, <1>3, <1>4, <1>5 DEF Works, FoldBatch

LEMMA NoSkewStep ==
  ASSUME ClampFreeze, ~SkewDefer, ~RangeExtend, ~BatchFold, Scaled, NoSkew, [Next]_vars
  PROVE  NoSkew'
<1>0. Typed
  BY DEF Scaled, SoundAlways
<1>1. ASSUME NEW p \in PE, Works(p) PROVE NoSkew'
  BY <1>0, <1>1, WorkRules, WorkTakes DEF NoSkew, Unchanged
<1>2. ASSUME NEW p \in PE, CurrentThresholds(p) PROVE NoSkew'
  <2> DEFINE t == TakeUp(pe[p], round)
  <2>1. /\ p \in waiting /\ pe' = [pe EXCEPT ![p] = t] /\ round' = round
    BY <1>0, <1>2, ThresholdsIs DEF MainFrame
  <2>2. Rescales(pe[p], t, round)
    <3>1. pe[p] \in Chare(p) /\ Fits(pe[p].scale, pe[p].limit) /\ round \in RoundType
      BY <1>0 DEF Typed, Chares, ChareOK
    <3> QED BY <3>1, TakeUpIs
  <2>3. t.deferred = <<>>
    BY <2>1, TakeUpTakes
  <2> HIDE DEF t
  <2>4. pe'[p] = t /\ \A q \in PE : q # p => pe'[q] = pe[q]
    BY <1>0, <2>1 DEF Typed, Chares
  <2>5. t.limit = B
    BY <2>2 DEF Rescales, MergedLimit, NoSkew
  <2> QED BY <2>1, <2>3, <2>4, <2>5 DEF NoSkew
<1>3. CASE NextRound
  <2>1. ~round'.extend /\ pe' = pe
    BY <1>3 DEF NextRound, Extension
  <2> QED BY <2>1 DEF NoSkew
<1>4. CASE UNCHANGED <<pe, round>>
  BY <1>4 DEF NoSkew
<1> QED BY <1>1, <1>2, <1>3, <1>4 DEF Next, Works, FirstContribution, Finish, vars

CreatesMore(s, t, us) == t.created = s.created \cup us

\* The updates of f and, at p, those of us.
LEMMA CreatedWith ==
  ASSUME NEW f, Chares(f), NEW p \in PE, NEW t, ChareOK(p, t),
         NEW us, CreatesMore(f[p], t, us)
  PROVE  Created([f EXCEPT ![p] = t]) = Created(f) \cup us
<1> DEFINE g == [f EXCEPT ![p] = t]
<1>1. Gathers(f, g, p, t) /\ Gathers(f, f, p, f[p])
  BY Replaced, Gathered
<1> HIDE DEF g
<1>2. \A y : y \in Created(g) <=> y \in Created(f) \/ y \in us
  BY <1>1 DEF Gathers, CreatesMore
<1> QED BY <1>2 DEF g

LEMMA OnePerEdge ==
  ASSUME NEW s, NEW u
  PROVE  \A x, y \in Relaxations(s, u) : x.via = y.via => x = y
<1> DEFINE r(e) == [via |-> e, to |-> To[e], d |-> u.d + Weight[e], ovf |-> FALSE]
<1>1. \A e : Charged(s, r(e)).via = e
  BY DEF Charged
<1>2. Relaxations(s, u) = IF u.d = s.dist[u.to] THEN {Charged(s, r(e)) : e \in Out(u.to)} ELSE {}
  BY DEF Relaxations
<1> HIDE DEF r
<1> QED BY <1>1, <1>2

\* An edge is relaxed from each of its tail's distances once.
LEMMA DistinctStep ==
  ASSUME SoundAlways, Distinct(Created(pe)), [Next]_vars
  PROVE  Distinct(Created(pe'))
<1>0. Typed /\ Sound(pe, net) /\ Chares(pe)
  BY DEF SoundAlways, Typed
<1>1. ASSUME NEW p \in PE, Start(p) PROVE Distinct(Created(pe'))
  <2>1. PICK u \in Mine(p) :
           /\ pe[p].created = {} /\ p = Owner[Source]
           /\ ChareOK(p, Charge(pe[p], {u}))
           /\ ChareOK(p, ProcessUpdate(Charge(pe[p], {u}), u))
           /\ pe' = [pe EXCEPT ![p] = ProcessUpdate(Charge(pe[p], {u}), u)]
    BY <1>0, <1>1, StartIs
  <2> DEFINE us == {u}
             c == Charge(pe[p], us)
             t == ProcessUpdate(c, u)
  <2>2. us \in SUBSET Update /\ IsFiniteSet(us) /\ pe[p] \in Chare(p)
    BY <1>0, FS_Singleton DEF Mine, Chares, ChareOK
  <2>3. pe' = [pe EXCEPT ![p] = t] /\ ChareOK(p, t)
    BY <2>1
  <2>4. \A x, y \in us : x = y
    OBVIOUS
  <2> HIDE DEF us
  <2>5. c \in Chare(p) /\ c.created = pe[p].created \cup us
    BY <2>2, ChargeIs
  <2> HIDE DEF c
  <2>6. t.created = c.created
    BY <2>5, ProcessUpdateGrows
  <2> HIDE DEF t
  <2>7. Created(pe') = Created(pe) \cup us
    <3>1. CreatesMore(pe[p], t, us)
      BY <2>5, <2>6 DEF CreatesMore
    <3>2. Created([pe EXCEPT ![p] = t]) = Created(pe) \cup us
      BY <1>0, <2>3, <3>1, CreatedWith
    <3> QED BY <2>3, <3>2
  <2>8. Created(pe) = {}
    BY <2>1 DEF SoundAlways, SourceFirst
  <2> QED BY <2>4, <2>7, <2>8 DEF Distinct
<1>2. ASSUME NEW p \in PE, ProcessHeap(p) PROVE Distinct(Created(pe'))
  <2>1. PICK u \in pe[p].pq : /\ pe' = [pe EXCEPT ![p] = Expanded(pe[p], u)]
                              /\ ChareOK(p, Expanded(pe[p], u))
    BY <1>0, <1>2, HeapIs
  <2> DEFINE s == pe[p]
             sent == Relaxations(s, u)
             t == Expanded(s, u)
             d == D(pe)
  <2>2. s \in Chare(p) /\ \A v \in Vertex : Owner[v] = p => d[v] = s.dist[v]
    BY <1>0, Gathered
  <2>3. u \in Queued(pe) /\ u \in Mine(p) /\ u.to \in Vertex /\ u.d \in Nat
    BY <2>2 DEF Queued, Queue, Chare, Mine, Update
  <2>4. t.created = s.created \cup sent
    BY <2>2, ExpandedIs
  <2>5. Expands(s.dist, u, sent)
    BY RelaxationsShape
  <2>6. pe' = [pe EXCEPT ![p] = t] /\ ChareOK(p, t)
    BY <2>1
  <2>7. Fresh(d, Queued(pe), Created(pe)) /\ d[u.to] = s.dist[u.to]
    BY <1>0, <2>2, <2>3 DEF Sound, View, Mine
  <2> HIDE DEF sent, t, s, d
  <2>8. Created(pe') = Created(pe) \cup sent
    <3>1. CreatesMore(pe[p], t, sent)
      BY <2>4 DEF s, CreatesMore
    <3>2. Created([pe EXCEPT ![p] = t]) = Created(pe) \cup sent
      BY <1>0, <2>6, <3>1, CreatedWith
    <3> QED BY <2>6, <3>2
  <2>9. ASSUME NEW x \in sent, NEW y \in Created(pe) PROVE Unflagged(x) # Unflagged(y)
    <3>1. x.via \in Edge /\ From[x.via] = u.to /\ x.d = u.d + Weight[x.via] /\ u.d = d[u.to]
      BY <2>5, <2>7 DEF Expands, Out
    <3>2. y.via = x.via => x.d < y.d
      BY <2>3, <2>7, <3>1 DEF Fresh
    <3>3. ~(x.d < x.d)
      BY <2>3, <3>1, GraphAssumption
    <3> QED BY <3>2, <3>3 DEF Unflagged
  <2>10. ASSUME NEW x \in sent, NEW y \in sent, Unflagged(x) = Unflagged(y) PROVE x = y
    <3>1. x.via = y.via
      BY <2>10 DEF Unflagged
    <3> QED BY <2>10, <3>1, OnePerEdge DEF sent, s
  <2> QED BY <2>8, <2>9, <2>10 DEF Distinct
<1>3. ASSUME \A q \in PE : pe'[q].created = pe[q].created PROVE Distinct(Created(pe'))
  <2>1. Created(pe') = Created(pe)
    BY <1>3 DEF Created
  <2> QED BY <2>1
<1> QED BY <1>0, <1>1, <1>2, <1>3, StepGrows


-----------------------------------------------------------------------------
(* Updates without their flags                                               *)

LEMMA PlainMore ==
  ASSUME NEW S, NEW T, NEW u
  PROVE  /\ UnflaggedAll(S \cup T) = UnflaggedAll(S) \cup UnflaggedAll(T)
         /\ UnflaggedAll({u}) = {Unflagged(u)} /\ UnflaggedAll({}) = {}
BY DEF UnflaggedAll

LEMMA PlainLess ==
  ASSUME NEW c, Distinct(c), NEW S \in SUBSET c, NEW u \in c
  PROVE  UnflaggedAll(S \ {u}) = UnflaggedAll(S) \ {Unflagged(u)}
BY DEF UnflaggedAll, Distinct

LEMMA PlainSize ==
  ASSUME NEW c, Distinct(c), NEW S \in SUBSET c, IsFiniteSet(S)
  PROVE  Cardinality(UnflaggedAll(S)) = Cardinality(S)
<1> DEFINE f == [u \in S |-> Unflagged(u)]
           T == UnflaggedAll(S)
<1>1. T = {f[u] : u \in S}
  BY DEF UnflaggedAll
<1>2. \A u, w \in S : f[u] = f[w] => u = w
  BY DEF Distinct
<1> HIDE DEF T
<1>3. f \in Bijection(S, T)
  <2>1. f \in [S -> T]
    BY <1>1
  <2> HIDE DEF f
  <2> QED BY <1>1, <1>2, <2>1 DEF Bijection, Injection, Surjection, IsInjective
<1> HIDE DEF f
<1> QED BY <1>3, FS_Bijection DEF T, ExistsBijection

LEMMA PlainAll ==
  ASSUME NEW h
  PROVE  Unscheduled!All(PerPE(h)) = UnflaggedAll(All(h))
<1>1. \A p \in PE : PerPE(h)[p] = UnflaggedAll(h[p])
  BY DEF PerPE
<1>2. \A y : y \in Unscheduled!All(PerPE(h)) <=> \E p \in PE : y \in UnflaggedAll(h[p])
  BY <1>1 DEF Unscheduled!All
<1>3. \A y : y \in UnflaggedAll(All(h)) <=> \E p \in PE : y \in UnflaggedAll(h[p])
  BY DEF UnflaggedAll, All
<1> QED BY <1>2, <1>3

\* The counters of the PEs as Solver has them.
CreatedBy(f) == PerPE([p \in PE |-> f[p].created])
ProcessedBy(f) == PerPE([p \in PE |-> f[p].processed])

\* Where Solver has the updates.
LEMMA MappedIs ==
  /\ Dist = D(pe) /\ SolverNet = UnflaggedAll(Travelling(pe, net))
  /\ SolverQueued = UnflaggedAll(Queued(pe))
  /\ SolverCreated = CreatedBy(pe) /\ SolverProcessed = ProcessedBy(pe)
<1>1. InFlight \cup UNION {ToSet(pe[p].deferred) : p \in PE} = Travelling(pe, net)
  BY DEF Travelling, InFlight, InTram, Deferred, Listed
<1>2. UNION {pe[p].pq \cup UNION {pe[p].hold[b] : b \in Bucket} : p \in PE} = Queued(pe)
  BY DEF Queued, Queue, Listed
<1> QED BY <1>1, <1>2 DEF Dist, D, SolverNet, SolverQueued, SolverCreated, SolverProcessed,
                          CreatedBy, ProcessedBy

LEMMA MappedNext ==
  /\ Dist' = D(pe') /\ SolverNet' = UnflaggedAll(Travelling(pe', net'))
  /\ SolverQueued' = UnflaggedAll(Queued(pe'))
  /\ SolverCreated' = CreatedBy(pe') /\ SolverProcessed' = ProcessedBy(pe')
<1>1. InFlight' \cup UNION {ToSet(pe'[p].deferred) : p \in PE} = Travelling(pe', net')
  BY DEF Travelling, InFlight, InTram, Deferred, Listed
<1>2. UNION {pe'[p].pq \cup UNION {pe'[p].hold[b] : b \in Bucket} : p \in PE} = Queued(pe')
  BY DEF Queued, Queue, Listed
<1> QED BY <1>1, <1>2 DEF Dist, D, SolverNet, SolverQueued, SolverCreated, SolverProcessed,
                          CreatedBy, ProcessedBy

\* The counters after one PE's step.
ProcessesMore(s, t, ws) == t.processed = s.processed \cup ws
Counted(f, g, p, us, ws) ==
  /\ CreatedBy(g) = Unscheduled!Count(CreatedBy(f), p, UnflaggedAll(us))
  /\ ProcessedBy(g) = Unscheduled!Count(ProcessedBy(f), p, UnflaggedAll(ws))

LEMMA CountersWith ==
  ASSUME NEW f, Chares(f), NEW p \in PE, NEW t, NEW us, NEW ws,
         CreatesMore(f[p], t, us), ProcessesMore(f[p], t, ws)
  PROVE  Counted(f, [f EXCEPT ![p] = t], p, us, ws)
<1> DEFINE g == [f EXCEPT ![p] = t]
<1>1. g[p] = t /\ \A q \in PE : q # p => g[q] = f[q]
  BY DEF Chares
<1>2. t.created = f[p].created \cup us /\ t.processed = f[p].processed \cup ws
  BY DEF CreatesMore, ProcessesMore
<1> HIDE DEF g
<1>3. CreatedBy(g) = Unscheduled!Count(CreatedBy(f), p, UnflaggedAll(us))
  <2>1. \A q \in PE : UnflaggedAll(g[q].created)
                      = IF q = p THEN UnflaggedAll(f[p].created) \cup UnflaggedAll(us)
                        ELSE UnflaggedAll(f[q].created)
    <3>1. UnflaggedAll(f[p].created \cup us) = UnflaggedAll(f[p].created) \cup UnflaggedAll(us)
      BY PlainMore
    <3>2. UnflaggedAll(g[p].created) = UnflaggedAll(f[p].created) \cup UnflaggedAll(us)
      BY <1>1, <1>2, <3>1
    <3> QED BY <1>1, <3>2
  <2> QED BY <2>1 DEF CreatedBy, PerPE, Unscheduled!Count
<1>4. ProcessedBy(g) = Unscheduled!Count(ProcessedBy(f), p, UnflaggedAll(ws))
  <2>1. \A q \in PE : UnflaggedAll(g[q].processed)
                      = IF q = p THEN UnflaggedAll(f[p].processed) \cup UnflaggedAll(ws)
                        ELSE UnflaggedAll(f[q].processed)
    <3>1. UnflaggedAll(f[p].processed \cup ws) = UnflaggedAll(f[p].processed) \cup UnflaggedAll(ws)
      BY PlainMore
    <3>2. UnflaggedAll(g[p].processed) = UnflaggedAll(f[p].processed) \cup UnflaggedAll(ws)
      BY <1>1, <1>2, <3>1
    <3> QED BY <1>1, <3>2
  <2> QED BY <2>1 DEF ProcessedBy, PerPE, Unscheduled!Count
<1> QED BY <1>3, <1>4 DEF g, Counted

LEMMA CountNone ==
  ASSUME NEW f, NEW p \in PE
  PROVE  /\ Unscheduled!Count(CreatedBy(f), p, {}) = CreatedBy(f)
         /\ Unscheduled!Count(ProcessedBy(f), p, {}) = ProcessedBy(f)
BY DEF CreatedBy, ProcessedBy, PerPE, Unscheduled!Count

LEMMA SameCounters ==
  ASSUME NEW f, Chares(f), NEW p \in PE, NEW t,
         t.created = f[p].created, t.processed = f[p].processed,
         NEW g, g = [f EXCEPT ![p] = t]
  PROVE  CreatedBy(g) = CreatedBy(f) /\ ProcessedBy(g) = ProcessedBy(f)
<1>1. \A q \in PE : g[q].created = f[q].created /\ g[q].processed = f[q].processed
  BY DEF Chares
<1> QED BY <1>1 DEF CreatedBy, ProcessedBy, PerPE

\* What Solver's Apply makes of the states f and g.
Applied(f, g, p, u) ==
  IF u.d < D(f)[u.to]
  THEN /\ D(g) = [D(f) EXCEPT ![u.to] = u.d]
       /\ IF Out(u.to) # {}
          THEN /\ UnflaggedAll(Queued(g)) = UnflaggedAll(Queued(f)) \cup {Unflagged(u)}
               /\ ProcessedBy(g) = ProcessedBy(f)
          ELSE /\ UnflaggedAll(Queued(g)) = UnflaggedAll(Queued(f))
               /\ ProcessedBy(g) = Unscheduled!Count(ProcessedBy(f), p, {Unflagged(u)})
  ELSE /\ D(g) = D(f) /\ UnflaggedAll(Queued(g)) = UnflaggedAll(Queued(f))
       /\ ProcessedBy(g) = Unscheduled!Count(ProcessedBy(f), p, {Unflagged(u)})

\* ... and where the update goes.
Takes(f, m, g, k, p, u) ==
  /\ Applied(f, g, p, u) /\ CreatedBy(g) = CreatedBy(f)
  /\ UnflaggedAll(Travelling(g, k)) = UnflaggedAll(Travelling(f, m)) \ {Unflagged(u)}

\* An update that is taken is applied as in Solver.
LEMMA TakenApplies ==
  ASSUME NEW f, NEW m, Sound(f, m), Distinct(Created(f)), NEW p \in PE,
         NEW u \in m, u \in Mine(p), ~MustDefer(f[p], u)
  PROVE  Takes(f, m, [f EXCEPT ![p] = ProcessUpdate(f[p], u)], m \ {u}, p, u)
<1> DEFINE s == f[p]
           t == ProcessUpdate(s, u)
           g == [f EXCEPT ![p] = t]
           k == m \ {u}
<1>1. Chares(f) /\ ChareOK(p, s) /\ s \in Chare(p) /\ Fits(s.scale, s.limit)
  BY Gathered DEF ChareOK, Sound
<1>2. u \notin Queue(s) /\ u \notin ToSet(s.deferred) /\ Tidy(s) /\ u \in Travelling(f, m)
  BY Elsewhere
<1>3. /\ t.tramHold = s.tramHold /\ t.created = s.created
      /\ \/ ~(u.d < s.dist[u.to]) /\ Retiring(s, t, u)
         \/ Settling(s, t, u)
         \/ Improving(s, t, u)
  BY <1>1, <1>2, UpdateEnds
<1>4. ChareOK(p, t)
  BY <1>1, ProcessUpdateOK
<1> HIDE DEF t
<1>5. Ends(f, m, g, k, p, u, t)
  BY <1>3, <1>4, EndMoves
<1>6. UnflaggedAll(Travelling(f, m) \ {u}) = UnflaggedAll(Travelling(f, m)) \ {Unflagged(u)}
  <2>1. Travelling(f, m) \in SUBSET Created(f)
    BY DEF Sound, View, Accounted
  <2> HIDE DEF k, g
  <2> QED BY <1>2, <2>1, PlainLess
<1>7. ASSUME NEW ws, t.processed = s.processed \cup ws
      PROVE  /\ CreatedBy(g) = CreatedBy(f)
             /\ ProcessedBy(g) = Unscheduled!Count(ProcessedBy(f), p, UnflaggedAll(ws))
  <2> DEFINE us == {}
  <2>1. CreatesMore(s, t, us) /\ ProcessesMore(s, t, ws) /\ UnflaggedAll(us) = {}
    BY <1>3, <1>7, PlainMore DEF CreatesMore, ProcessesMore
  <2> HIDE DEF us
  <2>2. Counted(f, g, p, us, ws)
    BY <1>1, <2>1, CountersWith
  <2> QED BY <2>1, <2>2, CountNone DEF Counted
<1>8. ASSUME t.processed = s.processed \cup {u}
      PROVE  /\ CreatedBy(g) = CreatedBy(f)
             /\ ProcessedBy(g) = Unscheduled!Count(ProcessedBy(f), p, {Unflagged(u)})
  <2> DEFINE ws == {u}
  <2>1. t.processed = s.processed \cup ws /\ UnflaggedAll(ws) = {Unflagged(u)}
    BY <1>8, PlainMore
  <2> HIDE DEF ws, g
  <2> QED BY <1>7, <2>1
<1>9. ASSUME t.processed = s.processed
      PROVE  CreatedBy(g) = CreatedBy(f) /\ ProcessedBy(g) = ProcessedBy(f)
  <2> DEFINE ws == {}
  <2>1. t.processed = s.processed \cup ws /\ UnflaggedAll(ws) = {}
    BY <1>9, PlainMore
  <2> HIDE DEF ws, g
  <2> QED BY <1>7, <2>1, CountNone
<1>10. UnflaggedAll(Queued(f) \cup {u}) = UnflaggedAll(Queued(f)) \cup {Unflagged(u)}
  BY DEF UnflaggedAll
<1> HIDE DEF g, k
<1>11. CASE ~(u.d < s.dist[u.to]) /\ Retiring(s, t, u)
  BY <1>5, <1>6, <1>8, <1>11 DEF Ends, Retiring, Takes, Applied, g, k, t
<1>12. CASE Settling(s, t, u)
  BY <1>5, <1>6, <1>8, <1>12 DEF Ends, Settling, Takes, Applied, g, k, t
<1>13. CASE Improving(s, t, u)
  BY <1>5, <1>6, <1>9, <1>10, <1>13 DEF Ends, Improving, Takes, Applied, g, k, t
<1> QED BY <1>3, <1>11, <1>12, <1>13


-----------------------------------------------------------------------------
(* Each step is one of Solver's                                              *)

\* What Main and the reduction are to Solver.
Others ==
  <<SolverContributed, SolverSnapCreated, SolverSnapProcessed, SolverPrevCreated,
    SolverPrevProcessed, SolverRoundCreated, SolverRoundProcessed, SolverDone>>

LEMMA OthersStay == Unchanged => UNCHANGED Others
BY DEF Unchanged, Others, SolverContributed, SolverSnapCreated, SolverSnapProcessed,
       SolverPrevCreated, SolverPrevProcessed, SolverRoundCreated, SolverRoundProcessed,
       SolverDone, PerPE

LEMMA DeliverImplements ==
  ASSUME ~SkewDefer, Scaled, NoSkew, Distinct(Created(pe)), NEW p \in PE, Deliver(p)
  PROVE  Unscheduled!Next
<1>0. Typed /\ Sound(pe, net) /\ Own /\ net \subseteq Created(pe)
  BY CreatedHas DEF Scaled, SoundAlways
<1>1. PICK u \in net :
           /\ u \in Mine(p)
           /\ pe' = [pe EXCEPT ![p] = ProcessUpdate(pe[p], u)]
           /\ net' = net \ {u} /\ Unchanged
  BY <1>0, DeliverIs
<1> DEFINE v == Unflagged(u)
<1>2. ~MustDefer(pe[p], u)
  BY <1>0, <1>1, NotDeferredHere
<1>3. /\ Applied(pe, pe', p, u) /\ CreatedBy(pe') = CreatedBy(pe)
      /\ UnflaggedAll(Travelling(pe', net')) = UnflaggedAll(Travelling(pe, net)) \ {v}
  <2>1. Takes(pe, net, [pe EXCEPT ![p] = ProcessUpdate(pe[p], u)], net \ {u}, p, u)
    BY <1>0, <1>1, <1>2, TakenApplies
  <2>2. Takes(pe, net, pe', net', p, u)
    BY <1>1, <2>1
  <2> QED BY <2>2 DEF Takes
<1>4. v \in SolverNet /\ v.to = u.to /\ v.d = u.d /\ u.to \in Vertex /\ Owner[u.to] = p
  BY <1>1, MappedIs DEF UnflaggedAll, Travelling, Mine, Update, Unflagged
<1>5. UNCHANGED Others
  BY <1>1, OthersStay
<1> HIDE DEF v
<1>6. SolverNet' = SolverNet \ {v} /\ SolverCreated' = SolverCreated
  BY <1>3, MappedIs, MappedNext
<1>7. Unscheduled!Apply(p, v)
  BY <1>3, <1>4, MappedIs, MappedNext
     DEF Applied, Unscheduled!Apply, Unscheduled!QueueWorthy, Unscheduled!Out, Out, v
<1>8. Unscheduled!Receive(p, v)
  BY <1>4, <1>5, <1>6, <1>7 DEF Unscheduled!Receive, Unscheduled!mainvars, Others
<1> QED BY <1>4, <1>8 DEF Unscheduled!Next

LEMMA PlainRelaxations ==
  ASSUME NEW s, NEW u, u.d = s.dist[u.to]
  PROVE  UnflaggedAll(Relaxations(s, u)) = {Unscheduled!Relaxation(e, u.d) : e \in Out(u.to)}
<1> DEFINE r(e) == [via |-> e, to |-> To[e], d |-> u.d + Weight[e], ovf |-> FALSE]
<1>1. ASSUME NEW e PROVE Unflagged(Charged(s, r(e))) = Unscheduled!Relaxation(e, u.d)
  BY DEF Charged, Unflagged, Unscheduled!Relaxation
<1>2. Relaxations(s, u) = {Charged(s, r(e)) : e \in Out(u.to)}
  BY DEF Relaxations
<1> HIDE DEF r
<1> QED BY <1>1, <1>2 DEF UnflaggedAll

LEMMA HeapImplements ==
  ASSUME Scaled, Distinct(Created(pe)), NEW p \in PE, ProcessHeap(p)
  PROVE  Unscheduled!Next
<1>0. Typed /\ Sound(pe, net) /\ Chares(pe) /\ pe[p] \in Chare(p)
  BY DEF Scaled, SoundAlways, Typed, Chares, ChareOK
<1>1. PICK u \in pe[p].pq :
           /\ ChareOK(p, Expanded(pe[p], u))
           /\ pe' = [pe EXCEPT ![p] = Expanded(pe[p], u)]
           /\ net' = net \cup {k \in Relaxations(pe[p], u) : BucketAt(pe[p], k) <= pe[p].tram}
           /\ Unchanged
  BY <1>0, HeapIs
<1> DEFINE s == pe[p]
           t == Expanded(s, u)
           sent == Relaxations(s, u)
           v == Unflagged(u)
           S == UnflaggedAll(sent)
<1>2. ExpandedPlaces(pe, net, pe', net', u, sent)
  BY <1>0, <1>1, ExpandSound
<1>3. /\ Travelling(pe', net') = Travelling(pe, net) \cup sent
      /\ Queued(pe') = Queued(pe) \ {u} /\ u \in Queued(pe) /\ D(pe') = D(pe)
  BY <1>2 DEF ExpandedPlaces
<1>4. t.created = s.created \cup sent /\ t.processed = s.processed \cup {u}
  BY <1>0, ExpandedIs
<1>5. u.to \in Vertex /\ Owner[u.to] = p /\ D(pe)[u.to] = s.dist[u.to]
  <2>1. u \in Mine(p)
    BY <1>0 DEF Chare
  <2>2. \A w \in Vertex : Owner[w] = p => D(pe)[w] = s.dist[w]
    BY <1>0, Gathered
  <2> QED BY <2>1, <2>2 DEF Mine, Update
<1>6. pe' = [pe EXCEPT ![p] = t]
  BY <1>1
<1>7. UNCHANGED Others
  BY <1>1, OthersStay
<1>8. v.to = u.to /\ v.d = u.d
  BY DEF Unflagged
<1>9. S = Unscheduled!Relaxations(v)
  <2>1. CASE u.d = s.dist[u.to]
    <3>1. S = {Unscheduled!Relaxation(e, u.d) : e \in Out(u.to)}
      BY <2>1, PlainRelaxations
    <3>2. u.d = Dist[u.to]
      BY <1>5, <2>1, MappedIs
    <3> QED BY <1>8, <3>1, <3>2 DEF Unscheduled!Relaxations, Unscheduled!Out, Out
  <2>2. CASE u.d # s.dist[u.to]
    <3>1. S = {}
      BY <2>2 DEF Relaxations, UnflaggedAll
    <3>2. u.d # Dist[u.to]
      BY <1>5, <2>2, MappedIs
    <3> QED BY <1>8, <3>1, <3>2 DEF Unscheduled!Relaxations
  <2> QED BY <2>1, <2>2
<1> HIDE DEF sent, t, s, v, S
<1>10. SolverNet' = SolverNet \cup S
  <2>1. UnflaggedAll(Travelling(pe, net) \cup sent) = UnflaggedAll(Travelling(pe, net)) \cup S
    BY DEF UnflaggedAll, S
  <2> QED BY <1>3, <2>1, MappedIs, MappedNext
<1>11. SolverQueued' = SolverQueued \ {v} /\ v \in SolverQueued
  <2>1. Queued(pe) \in SUBSET Created(pe) /\ u \in Created(pe)
    BY <1>0, <1>3 DEF Sound, View, Accounted
  <2>2. UnflaggedAll(Queued(pe) \ {u}) = UnflaggedAll(Queued(pe)) \ {Unflagged(u)}
    BY <2>1, PlainLess
  <2>3. Unflagged(u) \in UnflaggedAll(Queued(pe))
    BY <1>3 DEF UnflaggedAll
  <2> QED BY <1>3, <2>2, <2>3, MappedIs, MappedNext DEF v
<1>12. /\ SolverCreated' = Unscheduled!Count(SolverCreated, p, S)
       /\ SolverProcessed' = Unscheduled!Count(SolverProcessed, p, {v})
  <2> DEFINE ws == {u}
  <2>1. CreatesMore(pe[p], t, sent) /\ ProcessesMore(pe[p], t, ws) /\ UnflaggedAll(ws) = {v}
    BY <1>4, PlainMore DEF s, v, CreatesMore, ProcessesMore
  <2> HIDE DEF ws
  <2>2. Counted(pe, [pe EXCEPT ![p] = t], p, sent, ws)
    BY <1>0, <2>1, CountersWith
  <2>3. Counted(pe, pe', p, sent, ws)
    BY <1>6, <2>2
  <2> QED BY <2>1, <2>3, MappedIs, MappedNext DEF S, Counted
<1>13. Dist' = Dist
  BY <1>3, MappedIs, MappedNext
<1>14. Unscheduled!Expand(p, v)
  BY <1>5, <1>7, <1>8, <1>9, <1>10, <1>11, <1>12, <1>13
     DEF Unscheduled!Expand, Unscheduled!mainvars, Others
<1> QED BY <1>11, <1>14 DEF Unscheduled!Next

\* What the source's charge makes of the state.
LEMMA SourceCharged ==
  ASSUME ~SkewDefer, SoundAlways, NoSkew, NEW p \in PE, NEW u \in Mine(p),
         u = Charged(pe[p], [via |-> NoEdge, to |-> Source, d |-> 0, ovf |-> FALSE]),
         u.via = NoEdge, u.to = Source, u.d = 0, Created(pe) = {},
         NEW g, g = [pe EXCEPT ![p] = Charge(pe[p], {u})]
  PROVE  /\ Sound(g, net \cup {u}) /\ ~MustDefer(g[p], u)
         /\ Created(g) = {u} /\ D(g) = D(pe) /\ Queued(g) = Queued(pe)
         /\ Counted(pe, g, p, {u}, {})
<1> DEFINE us == {u}
           c == Charge(pe[p], us)
<1>0. Typed /\ Sound(pe, net) /\ Chares(pe)
  BY DEF SoundAlways, Typed
<1>1. Sound([pe EXCEPT ![p] = c], net \cup {u})
  BY <1>0, ChargeSound DEF IsSourceUpdate
<1>2. Sound(g, net \cup {u})
  BY <1>1
<1>3. /\ c \in Chare(p) /\ ~MustDefer(c, u)
      /\ c.created = pe[p].created \cup us /\ c.processed = pe[p].processed
      /\ c.dist = pe[p].dist
  BY <1>0, SourceTaken
<1>4. g = [pe EXCEPT ![p] = c] /\ us = {u}
  OBVIOUS
<1>5. c.pq = pe[p].pq /\ c.hold = pe[p].hold
  <2>1. us \in SUBSET Update /\ IsFiniteSet(us) /\ pe[p] \in Chare(p)
    BY <1>0, FS_Singleton DEF Mine, Chares, ChareOK
  <2> HIDE DEF us
  <2> QED BY <2>1, ChargeIs
<1> HIDE DEF c, us
<1>6. g[p] = c
  BY <1>0, <1>4 DEF Chares
<1>7. ChareOK(p, c)
  BY <1>2, <1>6 DEF Sound, Chares
<1>8. Created(g) = {u}
  <2>1. CreatesMore(pe[p], c, us)
    BY <1>3 DEF CreatesMore
  <2>2. Created([pe EXCEPT ![p] = c]) = Created(pe) \cup us
    BY <1>0, <1>7, <2>1, CreatedWith
  <2> QED BY <1>4, <2>2
<1>9. Gathers(pe, g, p, c) /\ Gathers(pe, pe, p, pe[p])
  <2>1. Gathers(pe, [pe EXCEPT ![p] = c], p, c)
    BY <1>0, <1>7, Replaced
  <2> QED BY <1>0, <1>4, <2>1, Gathered
<1>10. D(g) = D(pe)
  <2>1. D(g) = DWith(pe, p, c) /\ D(pe) = DWith(pe, p, pe[p])
    BY <1>9 DEF Gathers
  <2> QED BY <1>3, <2>1 DEF DWith
<1>11. Queued(g) = Queued(pe)
  <2>1. Queue(c) = Queue(pe[p])
    BY <1>5 DEF Queue
  <2>2. \A y : y \in Queued(g) <=> y \in Queued(pe)
    BY <1>9, <2>1 DEF Gathers
  <2> QED BY <2>2
<1>12. Counted(pe, g, p, us, {})
  <2> DEFINE ws == {}
  <2>1. CreatesMore(pe[p], c, us) /\ ProcessesMore(pe[p], c, ws)
    BY <1>3 DEF CreatesMore, ProcessesMore
  <2> HIDE DEF ws
  <2>2. Counted(pe, [pe EXCEPT ![p] = c], p, us, ws)
    BY <1>0, <2>1, CountersWith
  <2>3. Counted(pe, g, p, us, ws)
    BY <1>4, <2>2
  <2> QED BY <2>3 DEF ws
<1> QED BY <1>2, <1>3, <1>4, <1>6, <1>8, <1>10, <1>11, <1>12

LEMMA StartImplements ==
  ASSUME ~SkewDefer, SoundAlways, NoSkew, NEW p \in PE, Start(p)
  PROVE  Unscheduled!Next
<1>0. Typed /\ Sound(pe, net) /\ Chares(pe)
  BY DEF SoundAlways, Typed
<1>1. PICK u \in Mine(p) :
           /\ u = Charged(pe[p], [via |-> NoEdge, to |-> Source, d |-> 0, ovf |-> FALSE])
           /\ u.via = NoEdge /\ u.to = Source /\ u.d = 0
           /\ pe[p].created = {} /\ p = Owner[Source]
           /\ pe' = [pe EXCEPT ![p] = ProcessUpdate(Charge(pe[p], {u}), u)]
           /\ net' = net /\ Unchanged
  BY <1>0, StartIs
<1>2. Created(pe) = {}
  BY <1>1 DEF SoundAlways, SourceFirst
<1> DEFINE c == Charge(pe[p], {u})
           v == Unflagged(u)
<1>3. PICK g : g = [pe EXCEPT ![p] = c]
  OBVIOUS
<1>4. /\ Sound(g, net \cup {u}) /\ ~MustDefer(g[p], u)
      /\ Created(g) = {u} /\ D(g) = D(pe) /\ Queued(g) = Queued(pe)
      /\ Counted(pe, g, p, {u}, {})
  BY <1>1, <1>2, <1>3, SourceCharged
<1>5. g[p] = c /\ pe' = [g EXCEPT ![p] = ProcessUpdate(c, u)]
  <2> HIDE DEF c
  <2>1. [[pe EXCEPT ![p] = c] EXCEPT ![p] = ProcessUpdate(c, u)]
          = [pe EXCEPT ![p] = ProcessUpdate(c, u)]
    BY <1>0, Twice
  <2>2. g[p] = c
    BY <1>0, <1>3 DEF Chares
  <2> QED BY <1>1, <1>3, <2>1, <2>2 DEF c
<1> HIDE DEF c
<1>6. Travelling(pe, net) = {} /\ net = {}
  BY <1>0, <1>2 DEF Sound, View, Accounted, Travelling
<1>7. Takes(g, net \cup {u}, pe', net', p, u)
  <2> DEFINE m == net \cup {u}
  <2>1. Sound(g, m) /\ u \in m /\ Distinct(Created(g)) /\ m \ {u} = net'
    BY <1>1, <1>4, <1>6 DEF Distinct
  <2> HIDE DEF m
  <2>2. Takes(g, m, [g EXCEPT ![p] = ProcessUpdate(g[p], u)], m \ {u}, p, u)
    BY <1>4, <2>1, TakenApplies
  <2>3. Takes(g, m, pe', net', p, u)
    BY <1>5, <2>1, <2>2
  <2> QED BY <2>3 DEF m
<1>8. v = Unscheduled!SourceUpdate /\ v.to = u.to /\ v.d = u.d
  BY <1>1 DEF Unflagged, Unscheduled!SourceUpdate
<1>9. /\ CreatedBy(g) = Unscheduled!Count(CreatedBy(pe), p, {v})
      /\ ProcessedBy(g) = ProcessedBy(pe)
  BY <1>4, PlainMore, CountNone DEF Counted
<1>10. UnflaggedAll(Travelling(pe', net')) = {} /\ UnflaggedAll(Travelling(pe, net)) = {}
  <2>1. Travelling(g, net \cup {u}) \subseteq {u}
    BY <1>4 DEF Sound, View, Accounted
  <2>2. UnflaggedAll(Travelling(g, net \cup {u})) \ {v} = {}
    BY <2>1 DEF UnflaggedAll
  <2> QED BY <1>6, <1>7, <2>2 DEF Takes, UnflaggedAll
<1>11. UNCHANGED Others
  BY <1>1, OthersStay
<1> HIDE DEF v
<1>12. SolverNet' = SolverNet
  BY <1>10, MappedIs, MappedNext
<1>13. SolverCreated' = Unscheduled!Count(SolverCreated, p, {v}) /\ v \notin SolverCreated[p]
  <2>1. SolverCreated[p] = {}
    BY <1>1, PlainMore DEF SolverCreated, PerPE
  <2> QED BY <1>7, <1>9, <2>1, MappedIs, MappedNext DEF Takes
<1>14. Unscheduled!Apply(p, v)
  <2>1. Applied(g, pe', p, u)
    BY <1>7 DEF Takes
  <2> QED BY <1>4, <1>8, <1>9, <2>1, MappedIs, MappedNext
     DEF Applied, Unscheduled!Apply, Unscheduled!QueueWorthy, Unscheduled!Out, Out, v
<1>15. Unscheduled!Start(p)
  BY <1>1, <1>8, <1>11, <1>12, <1>13, <1>14
     DEF Unscheduled!Start, Unscheduled!mainvars, Others
<1> QED BY <1>15 DEF Unscheduled!Next

\* Moving what a threshold admits is no step of Solver's.
LEMMA ClearImplements ==
  ASSUME Scaled, NEW p \in PE, ClearPqHold(p)
  PROVE  UNCHANGED Unscheduled!vars
<1>0. Typed /\ Sound(pe, net) /\ Chares(pe) /\ pe[p] \in Chare(p)
  BY DEF Scaled, SoundAlways, Typed, Chares, ChareOK
<1> DEFINE t == Admitted(pe[p])
<1>1. pe' = [pe EXCEPT ![p] = t] /\ net' = net /\ Unchanged
  BY <1>0, ClearIs
<1>2. SamePlaces(pe, net, pe', net')
  <2>1. SamePlaces(pe, net, [pe EXCEPT ![p] = t], net)
    BY <1>0, AdmitSound
  <2> QED BY <1>1, <2>1
<1>3. t.created = pe[p].created /\ t.processed = pe[p].processed
  BY <1>0, AdmittedIs DEF SameRules
<1> HIDE DEF t
<1>4. CreatedBy(pe') = CreatedBy(pe) /\ ProcessedBy(pe') = ProcessedBy(pe)
  BY <1>0, <1>1, <1>3, SameCounters
<1>5. UNCHANGED Others
  BY <1>1, OthersStay
<1> QED BY <1>2, <1>4, <1>5, MappedIs, MappedNext
        DEF SamePlaces, Others, Unscheduled!vars, Unscheduled!pevars, Unscheduled!mainvars

\* With nothing deferred, taking up a round only moves updates.
LEMMA TakeUpMoves ==
  ASSUME NEW f, NEW m, Sound(f, m), NEW p \in PE, NEW r \in RoundType,
         f[p].deferred = <<>>
  PROVE  /\ SamePlaces(f, m, [f EXCEPT ![p] = TakeUp(f[p], r)], m \cup Released(f[p], r))
         /\ TakeUp(f[p], r).created = f[p].created
         /\ TakeUp(f[p], r).processed = f[p].processed
<1> DEFINE s == f[p]
           z == Merged(s, r)
           x == Reprocess(z)
           t == TakeUp(s, r)
           k == UpTo(z.tramHold, r.tram)
           a == m \cup k
<1>1. /\ ChareOK(p, s) /\ s \in Chare(p) /\ Fits(s.scale, s.limit)
      /\ Tidy(s) /\ m \cap Listed(s.tramHold) = {}
      /\ m \cap ToSet(s.deferred) = {} /\ Chares(f) /\ IsFiniteSet(s.created)
  BY Gathered DEF Sound, Places, ChareOK
<1>2. /\ z \in Chare(p) /\ z.created = s.created /\ z.processed = s.processed
      /\ z.dist = s.dist /\ z.pq = s.pq /\ z.deferred = s.deferred
      /\ Listed(z.hold) = Listed(s.hold) /\ Listed(z.tramHold) = Listed(s.tramHold)
      /\ Apart(s.hold) => Apart(z.hold)
      /\ Apart(s.tramHold) => Apart(z.tramHold)
  BY <1>1, MergedIs
<1>3. x = z
  BY <1>2 DEF Reprocess
<1>4. /\ t.tramHold = Cleared(z.tramHold, r.tram)
      /\ t.created = s.created /\ t.processed = x.processed /\ t.dist = x.dist
      /\ t.pq = x.pq /\ t.hold = x.hold /\ t.deferred = x.deferred
      /\ Released(s, r) = k
  BY <1>1, TakeUpIs
<1>5. ChareOK(p, t)
  BY <1>1, TakeUpOK
<1> HIDE DEF t, x, z
<1>6. /\ Listed(z.tramHold) = k \cup Listed(t.tramHold)
      /\ Apart(t.tramHold) /\ k \cap Listed(t.tramHold) = {}
  <2>1. z.tramHold \in [Bucket -> SUBSET Update] /\ Apart(z.tramHold)
    BY <1>1, <1>2 DEF Tidy, Chare
  <2> DEFINE l == z.tramHold
             b == r.tram
  <2> HIDE DEF l, b
  <2>2. l \in [Bucket -> SUBSET Update] /\ Apart(l)
    BY <2>1 DEF l
  <2>3. /\ Listed(l) = UpTo(l, b) \cup Listed(Cleared(l, b))
        /\ Apart(Cleared(l, b)) /\ UpTo(l, b) \cap Listed(Cleared(l, b)) = {}
    BY <2>2, ClearedIs
  <2> QED BY <1>4, <2>3 DEF l, b
<1> HIDE DEF k
<1>7. Tidy(t) /\ Queue(t) = Queue(s)
  BY <1>1, <1>2, <1>3, <1>4, <1>6 DEF Tidy, Queue
<1>8. ToSet(s.deferred) = {} /\ t.deferred = s.deferred
  BY <1>2, <1>3, <1>4 DEF ToSet
<1>9. /\ m \subseteq a /\ a \cap Listed(t.tramHold) = {} /\ a \cap ToSet(t.deferred) = {}
      /\ a \cup Listed(t.tramHold) \cup ToSet(t.deferred)
           = m \cup Listed(s.tramHold) \cup ToSet(s.deferred)
      /\ Listed(t.tramHold) \subseteq Listed(s.tramHold)
  BY <1>1, <1>2, <1>6, <1>8
<1>10. t.created = s.created /\ t.processed = s.processed /\ t.dist = s.dist
  BY <1>2, <1>3, <1>4
<1> HIDE DEF a
<1>11. SamePlaces(f, m, [f EXCEPT ![p] = t], a)
  BY <1>5, <1>7, <1>8, <1>9, <1>10, RearrangeSound
<1> QED BY <1>4, <1>10, <1>11 DEF a, t

\* Every PE has contributed when the end is announced.
AllIn == main.done => waiting = {}

LEMMA AllInStep == AllIn /\ [Next]_vars => AllIn'
<1> SUFFICES ASSUME AllIn, [Next]_vars PROVE AllIn'
  OBVIOUS
<1>1. ASSUME NEW p \in PE, Contribute(p, pe[p]) \/ Contribute(p, TakeUp(pe[p], round)),
             main' = main
      PROVE  AllIn'
  BY <1>1 DEF AllIn, Contribute
<1>2. CASE Finish
  BY <1>2 DEF Finish, Complete, AllIn
<1>3. CASE NextRound
  BY <1>3 DEF NextRound, Complete, AllIn
<1>4. CASE UNCHANGED <<main, waiting>>
  BY <1>4 DEF AllIn
<1> QED BY <1>1, <1>2, <1>3, <1>4
        DEF Next, Start, Deliver, FoldBatch, ProcessHeap, ClearPqHold,
            FirstContribution, CurrentThresholds, vars

\* A contribution says what the PE's counters say.
LEMMA ContributionImplements ==
  ASSUME Typed, AllIn, NEW p \in PE, p \in waiting, NEW s, Contribute(p, s),
         s.created = pe[p].created, s.processed = pe[p].processed,
         SamePlaces(pe, net, pe', net'), CreatedBy(pe') = CreatedBy(pe),
         ProcessedBy(pe') = ProcessedBy(pe), MainFrame
  PROVE  Unscheduled!Next
<1>1. UNCHANGED Unscheduled!pevars
  BY MappedIs, MappedNext DEF SamePlaces, Unscheduled!pevars
<1>2. UNCHANGED Unscheduled!mainvars
  BY DEF MainFrame, Unscheduled!mainvars, SolverPrevCreated, SolverPrevProcessed,
         SolverRoundCreated, SolverRoundProcessed, SolverDone, PerPE
<1>3. ~SolverDone /\ p \notin SolverContributed
      /\ SolverContributed' = SolverContributed \cup {p}
  BY DEF AllIn, SolverDone, SolverContributed, Contribute
<1>4. /\ SolverSnapCreated' = [SolverSnapCreated EXCEPT ![p] = SolverCreated[p]]
      /\ SolverSnapProcessed' = [SolverSnapProcessed EXCEPT ![p] = SolverProcessed[p]]
  <2>1. reduction.created \in Counters /\ reduction.processed \in Counters
    BY DEF Typed, ReductionType
  <2>2. /\ reduction'.created = [reduction.created EXCEPT ![p] = pe[p].created]
        /\ reduction'.processed = [reduction.processed EXCEPT ![p] = pe[p].processed]
    BY DEF Contribute
  <2> QED BY <2>1, <2>2 DEF Counters, PerPE, SolverSnapCreated, SolverSnapProcessed,
                            SolverCreated, SolverProcessed
<1>5. Unscheduled!Contribute(p)
  BY <1>1, <1>2, <1>3, <1>4 DEF Unscheduled!Contribute
<1> QED BY <1>5 DEF Unscheduled!Next

LEMMA FirstImplements ==
  ASSUME Typed, AllIn, NEW p \in PE, FirstContribution(p)
  PROVE  Unscheduled!Next
<1>1. p \in waiting /\ Contribute(p, pe[p]) /\ pe' = pe /\ net' = net /\ MainFrame
  BY DEF FirstContribution, MainFrame
<1>2. SamePlaces(pe, net, pe', net') /\ CreatedBy(pe') = CreatedBy(pe)
      /\ ProcessedBy(pe') = ProcessedBy(pe)
  BY <1>1 DEF SamePlaces
<1> QED BY <1>1, <1>2, ContributionImplements

LEMMA ThresholdsImplement ==
  ASSUME Scaled, NoSkew, AllIn, NEW p \in PE, CurrentThresholds(p)
  PROVE  Unscheduled!Next
<1>0. Typed /\ Sound(pe, net) /\ Chares(pe) /\ round \in RoundType
  BY DEF Scaled, SoundAlways, Typed
<1> DEFINE t == TakeUp(pe[p], round)
           k == Released(pe[p], round)
<1>1. /\ p \in waiting /\ pe' = [pe EXCEPT ![p] = t] /\ net' = net \cup k
      /\ Contribute(p, t) /\ MainFrame
  BY <1>0, ThresholdsIs
<1>2. /\ SamePlaces(pe, net, [pe EXCEPT ![p] = t], net \cup k)
      /\ t.created = pe[p].created /\ t.processed = pe[p].processed
  BY <1>0, TakeUpMoves DEF NoSkew
<1> HIDE DEF t, k
<1>3. SamePlaces(pe, net, pe', net')
  BY <1>1, <1>2
<1>4. CreatedBy(pe') = CreatedBy(pe) /\ ProcessedBy(pe') = ProcessedBy(pe)
  BY <1>0, <1>1, <1>2, SameCounters
<1> QED BY <1>0, <1>1, <1>2, <1>3, <1>4, ContributionImplements

\* Main's sums are Solver's.
LEMMA SumsAgree ==
  ASSUME SoundAlways, Snapshots, waiting = {}, Distinct(Created(pe))
  PROVE  /\ Cardinality(Unscheduled!All(SolverSnapCreated)) = Cardinality(All(reduction.created))
         /\ Cardinality(Unscheduled!All(SolverSnapProcessed)) = Cardinality(All(reduction.processed))
         /\ Cardinality(SolverPrevCreated) = Cardinality(main.created)
         /\ Cardinality(SolverPrevProcessed) = Cardinality(main.processed)
<1>1. ASSUME NEW S \in SUBSET Created(pe) PROVE Cardinality(UnflaggedAll(S)) = Cardinality(S)
  <2>1. IsFiniteSet(S)
    BY CreatedFinite, FS_Subset DEF SoundAlways
  <2> DEFINE c == Created(pe)
  <2>2. S \in SUBSET c /\ Distinct(c)
    OBVIOUS
  <2> HIDE DEF c
  <2> QED BY <2>1, <2>2, PlainSize
<1>2. /\ All(reduction.created) \subseteq Created(pe)
      /\ All(reduction.processed) \subseteq Created(pe)
      /\ main.created \subseteq Created(pe) /\ main.processed \subseteq Created(pe)
  <2>1. \A p \in PE : /\ reduction.created[p] \subseteq pe[p].created
                      /\ reduction.processed[p] \subseteq pe[p].processed
                      /\ atRound.created[p] \subseteq pe[p].created
                      /\ atRound.processed[p] \subseteq pe[p].processed
    BY DEF Snapshots, Between
  <2>2. /\ All(reduction.created) \subseteq Created(pe)
        /\ All(reduction.processed) \subseteq Processed(pe)
        /\ All(atRound.created) \subseteq Created(pe)
        /\ All(atRound.processed) \subseteq Processed(pe)
    BY <2>1 DEF All, Created, Processed
  <2>3. Processed(pe) \subseteq Created(pe)
    BY DEF SoundAlways, Sound, View, Accounted
  <2> QED BY <2>2, <2>3 DEF Snapshots, Between
<1>3. /\ Unscheduled!All(SolverSnapCreated) = UnflaggedAll(All(reduction.created))
      /\ Unscheduled!All(SolverSnapProcessed) = UnflaggedAll(All(reduction.processed))
  BY PlainAll DEF SolverSnapCreated, SolverSnapProcessed
<1> QED BY <1>1, <1>2, <1>3 DEF SolverPrevCreated, SolverPrevProcessed

LEMMA SameCardinality ==
  ASSUME NEW S
  PROVE  Unscheduled!Cardinality(S) = Cardinality(S)
BY Zenon DEF Unscheduled!Cardinality, Cardinality

LEMMA ConvergedAgrees ==
  ASSUME SoundAlways, Snapshots, waiting = {}, Distinct(Created(pe))
  PROVE  Unscheduled!Converged <=> Converged
<1>1. Unscheduled!Converged
      <=> LET c == Cardinality(All(reduction.created))
              q == Cardinality(All(reduction.processed))
          IN  c > 0 /\ q = c /\ c = Cardinality(main.created) /\ q = Cardinality(main.processed)
  BY SumsAgree, SameCardinality DEF Unscheduled!Converged
<1> QED BY <1>1 DEF Converged, SameAsLastRound, Sums

LEMMA PEsStay ==
  ASSUME pe' = pe, net' = net
  PROVE  UNCHANGED Unscheduled!pevars
BY MappedIs, MappedNext DEF Unscheduled!pevars

LEMMA FinishImplements ==
  ASSUME SoundAlways, Snapshots, Distinct(Created(pe)), Finish
  PROVE  Unscheduled!Next
<1>1. /\ waiting = {} /\ ~main.done /\ Converged
      /\ pe' = pe /\ net' = net /\ UNCHANGED <<waiting, reduction, atRound>>
  BY DEF Finish, Complete
<1>2. main'.done /\ main'.done = TRUE /\ main'.created = main.created /\ main'.processed = main.processed
  BY DEF Finish, SoundAlways, Typed, MainType
<1>3. Unscheduled!Converged
  BY <1>1, ConvergedAgrees
<1>4. UNCHANGED Unscheduled!pevars
  BY <1>1, PEsStay
<1>5. /\ ~SolverDone /\ SolverDone' = TRUE
      /\ SolverContributed = PE /\ SolverContributed' = SolverContributed
      /\ UNCHANGED <<SolverSnapCreated, SolverSnapProcessed, SolverPrevCreated,
                     SolverPrevProcessed, SolverRoundCreated, SolverRoundProcessed>>
  BY <1>1, <1>2 DEF SolverDone, SolverContributed, SolverSnapCreated, SolverSnapProcessed,
     SolverPrevCreated, SolverPrevProcessed, SolverRoundCreated, SolverRoundProcessed, PerPE
<1>6. Unscheduled!Finish
  BY <1>3, <1>4, <1>5 DEF Unscheduled!Finish
<1> QED BY <1>6 DEF Unscheduled!Next

LEMMA NextRoundImplements ==
  ASSUME SoundAlways, Snapshots, Distinct(Created(pe)), NextRound
  PROVE  Unscheduled!Next
<1>1. /\ waiting = {} /\ waiting' = PE /\ ~main.done /\ ~Converged
      /\ pe' = pe /\ net' = net /\ reduction' = NoReduction
      /\ atRound' = [created |-> [p \in PE |-> pe[p].created],
                     processed |-> [p \in PE |-> pe[p].processed]]
  BY DEF NextRound, Complete
<1>2. /\ main'.created = All(reduction.created) /\ main'.processed = All(reduction.processed)
      /\ main'.done = main.done
  BY DEF NextRound, SoundAlways, Typed, MainType
<1>3. ~Unscheduled!Converged
  BY <1>1, ConvergedAgrees
<1>4. UNCHANGED Unscheduled!pevars
  BY <1>1, PEsStay
<1>5. /\ ~SolverDone /\ SolverDone' = SolverDone
      /\ SolverContributed = PE /\ SolverContributed' = {}
  BY <1>1, <1>2 DEF SolverDone, SolverContributed
<1>6. SolverSnapCreated' = Unscheduled!Nothing /\ SolverSnapProcessed' = Unscheduled!Nothing
  <2>1. reduction'.created = Nothing /\ reduction'.processed = Nothing
    BY <1>1 DEF NoReduction
  <2>2. PerPE(Nothing) = Unscheduled!Nothing
    BY PlainMore DEF PerPE, Nothing, Unscheduled!Nothing
  <2> QED BY <2>1, <2>2 DEF SolverSnapCreated, SolverSnapProcessed
<1>7. /\ SolverPrevCreated' = Unscheduled!All(SolverSnapCreated)
      /\ SolverPrevProcessed' = Unscheduled!All(SolverSnapProcessed)
  BY <1>2, PlainAll DEF SolverPrevCreated, SolverPrevProcessed, SolverSnapCreated,
                        SolverSnapProcessed
<1>8. SolverRoundCreated' = SolverCreated /\ SolverRoundProcessed' = SolverProcessed
  BY <1>1 DEF SolverRoundCreated, SolverRoundProcessed, SolverCreated, SolverProcessed
<1>9. Unscheduled!NextRound
  BY <1>3, <1>4, <1>5, <1>6, <1>7, <1>8 DEF Unscheduled!NextRound
<1> QED BY <1>9 DEF Unscheduled!Next

\* What the refinement rests on.
Refining == Scaled /\ Snapshots /\ AllIn /\ NoSkew /\ Distinct(Created(pe))

LEMMA StepImplements ==
  ASSUME ~SkewDefer, ~BatchFold, Refining, [Next]_vars
  PROVE  [Unscheduled!Next]_(Unscheduled!vars)
<1>0. SoundAlways /\ Typed
  BY DEF Refining, Scaled, SoundAlways
<1>1. ASSUME NEW p \in PE, Works(p) PROVE [Unscheduled!Next]_(Unscheduled!vars)
  BY <1>0, <1>1, StartImplements, DeliverImplements, HeapImplements, ClearImplements
     DEF Works, FoldBatch, Refining
<1>2. ASSUME NEW p \in PE, FirstContribution(p) \/ CurrentThresholds(p)
      PROVE  [Unscheduled!Next]_(Unscheduled!vars)
  BY <1>0, <1>2, FirstImplements, ThresholdsImplement DEF Refining
<1>3. CASE Finish \/ NextRound
  BY <1>0, <1>3, FinishImplements, NextRoundImplements DEF Refining
<1>4. CASE UNCHANGED vars
  <2>1. pe' = pe /\ net' = net /\ UNCHANGED <<waiting, reduction, main, atRound>>
    BY <1>4 DEF vars
  <2>2. UNCHANGED Unscheduled!pevars
    BY <2>1, PEsStay
  <2>3. UNCHANGED Others
    BY <2>1 DEF Others, SolverContributed, SolverSnapCreated, SolverSnapProcessed,
       SolverPrevCreated, SolverPrevProcessed, SolverRoundCreated, SolverRoundProcessed,
       SolverDone, PerPE
  <2> QED BY <2>2, <2>3 DEF Others, Unscheduled!vars, Unscheduled!mainvars
<1> QED BY <1>1, <1>2, <1>3, <1>4 DEF Next, Works

LEMMA InitImplements == Init => Unscheduled!Init
<1> SUFFICES ASSUME Init PROVE Unscheduled!Init
  OBVIOUS
<1>0. Sound(pe, net)
  BY SoundInit DEF SoundAlways
<1>1. /\ pe = [p \in PE |-> NewPE(p)] /\ waiting = PE /\ reduction = NoReduction
      /\ main.created = {} /\ main.processed = {} /\ main.done = FALSE
      /\ atRound = [created |-> Nothing, processed |-> Nothing]
  BY DEF Init
<1>2. \A p \in PE : pe[p].created = {} /\ pe[p].processed = {}
  BY <1>1 DEF NewPE
<1>3. Travelling(pe, net) = {} /\ Queued(pe) = {}
  <2>1. Created(pe) = {}
    BY <1>2 DEF Created
  <2> QED BY <1>0, <2>1 DEF Sound, View, Accounted
<1>4. SolverNet = {} /\ SolverQueued = {}
  BY <1>3, MappedIs, PlainMore
<1>5. Dist = [v \in Vertex |-> Lmax]
  <2>1. ASSUME NEW v \in Vertex PROVE pe[Owner[v]].dist[v] = Lmax
    BY <1>1, AcicAssumption DEF NewPE
  <2> QED BY <2>1 DEF Dist
<1>6. PerPE(Nothing) = Unscheduled!Nothing
  BY PlainMore DEF PerPE, Nothing, Unscheduled!Nothing
<1>7. SolverCreated = Unscheduled!Nothing /\ SolverProcessed = Unscheduled!Nothing
  <2>1. [p \in PE |-> pe[p].created] = Nothing /\ [p \in PE |-> pe[p].processed] = Nothing
    BY <1>2 DEF Nothing
  <2> QED BY <1>6, <2>1 DEF SolverCreated, SolverProcessed
<1>8. /\ SolverSnapCreated = Unscheduled!Nothing /\ SolverSnapProcessed = Unscheduled!Nothing
      /\ SolverRoundCreated = Unscheduled!Nothing /\ SolverRoundProcessed = Unscheduled!Nothing
  BY <1>1, <1>6 DEF NoReduction, SolverSnapCreated, SolverSnapProcessed,
                    SolverRoundCreated, SolverRoundProcessed
<1>9. /\ SolverContributed = {} /\ SolverPrevCreated = {} /\ SolverPrevProcessed = {}
      /\ SolverDone = FALSE
  BY <1>1, PlainMore DEF SolverContributed, SolverPrevCreated, SolverPrevProcessed, SolverDone
<1> QED BY <1>4, <1>5, <1>7, <1>8, <1>9 DEF Unscheduled!Init

LEMMA RefiningInit == Init => AllIn /\ NoSkew /\ Distinct(Created(pe))
<1> SUFFICES ASSUME Init PROVE AllIn /\ NoSkew /\ Distinct(Created(pe))
  OBVIOUS
<1>1. \A p \in PE : pe[p].limit = B /\ pe[p].deferred = <<>> /\ pe[p].created = {}
  BY DEF Init, NewPE
<1>2. ~round.extend /\ ~main.done
  BY DEF Init, FirstRound
<1>3. Created(pe) = {}
  BY <1>1 DEF Created
<1> QED BY <1>1, <1>2, <1>3 DEF AllIn, NoSkew, Distinct

\* Without folding and with the clamp frozen where it began, the scheduled
\* solver implements Solver: whatever the buckets, thresholds, merges and holds
\* do, they only choose which of the label-correcting steps comes next.
THEOREM SolverImplemented ==
  ASSUME ClampFreeze, ~SkewDefer, ~RangeExtend, ~BatchFold
  PROVE  Spec => SolverSpec
<1>1. Init => Unscheduled!Init
  BY InitImplements
<1>2. Init => AllIn /\ NoSkew /\ Distinct(Created(pe))
  BY RefiningInit
<1>3. AllIn /\ [Next]_vars => AllIn'
  BY AllInStep
<1>4. Scaled /\ NoSkew /\ [Next]_vars => NoSkew'
  BY NoSkewStep
<1>5. Scaled /\ Distinct(Created(pe)) /\ [Next]_vars => Distinct(Created(pe))'
  BY DistinctStep DEF Scaled, Distinct, Created
<1>6. Scaled /\ Snapshots /\ AllIn /\ NoSkew /\ Distinct(Created(pe)) /\ [Next]_vars
        => [Unscheduled!Next]_(Unscheduled!vars)
  BY StepImplements DEF Refining
<1> QED
  BY <1>1, <1>2, <1>3, <1>4, <1>5, <1>6, RunAlways, ScaledAlways, PTL
     DEF Spec, SolverSpec, Unscheduled!Spec
=============================================================================
