--------------------------- MODULE DiagnoseProofs ---------------------------
(***************************************************************************)
(* The harness and its report for any lists of graphs, variants and knobs, *)
(* any number of repetitions and invocations and any runs that fail.       *)
(***************************************************************************)
EXTENDS Diagnose, SumProofs, SequenceTheorems

-----------------------------------------------------------------------------
(* Sequences: what is selected, and what is concatenated *)

\* The n-th of finitely many positions exists, and no other is it.
LEMMA NthFacts ==
  ASSUME NEW K \in SUBSET Nat, IsFiniteSet(K)
  PROVE  /\ Cardinality(K) \in Nat
         /\ \A n \in 1..Cardinality(K) :
              Nth(K, n) \in K /\ Cardinality({j \in K : j <= Nth(K, n)}) = n
         /\ \A m, n \in 1..Cardinality(K) : Nth(K, m) = Nth(K, n) => m = n
<1> DEFINE c == Cardinality(K)
           Below(i) == {j \in K : j <= i}
           rank == [i \in K |-> Cardinality(Below(i))]
<1>1. c \in Nat /\ \A i : IsFiniteSet(Below(i)) /\ Cardinality(Below(i)) \in Nat /\ Cardinality(Below(i)) <= c
  <2>1. \A i : Below(i) \subseteq K
    OBVIOUS
  <2> QED BY <2>1, FS_Subset, FS_CardinalityType
<1>2. ASSUME NEW i \in K, NEW k \in K, i < k PROVE rank[i] < rank[k]
  <2>0. i \in Nat /\ k \in Nat /\ \A j \in K : j \in Nat
    OBVIOUS
  <2>1. Below(i) \subseteq Below(k) /\ k \in Below(k) /\ k \notin Below(i)
    <3>1. \A j \in K : j <= i => j <= k
      BY <1>2, <2>0
    <3>2. k <= k /\ ~(k <= i)
      BY <1>2, <2>0
    <3> QED BY <3>1, <3>2
  <2>2. Cardinality(Below(i)) <= Cardinality(Below(k)) /\ Cardinality(Below(i)) # Cardinality(Below(k))
    BY <1>1, <2>1, FS_Subset
  <2> QED BY <1>1, <2>2
<1>3. rank \in Injection(K, 1..c)
  <2>1. ASSUME NEW i \in K PROVE rank[i] \in 1..c
    <3>1. i \in Below(i)
      OBVIOUS
    <3>2. Cardinality(Below(i)) # 0
      BY <1>1, <3>1, FS_EmptySet
    <3> QED BY <1>1, <3>2
  <2>2. \A i, k \in K : rank[i] = rank[k] => i = k
    <3>1. \A i, k \in K : i < k \/ k < i \/ i = k
      OBVIOUS
    <3>2. \A i \in K : rank[i] \in Nat
      BY <1>1
    <3> QED BY <1>2, <3>1, <3>2
  <2> QED BY <2>1, <2>2 DEF Injection, IsInjective
<1>4. rank \in Surjection(K, 1..c)
  <2>1. IsFiniteSet(1..c) /\ Cardinality(1..c) = c
    BY <1>1, FS_Interval
  <2> QED BY <1>3, <2>1, FS_Injection
<1>5. ASSUME NEW n \in 1..c PROVE Nth(K, n) \in K /\ Cardinality(Below(Nth(K, n))) = n
  <2>1. \E i \in K : Cardinality({j \in K : j <= i}) = n
    BY <1>4 DEF Surjection
  <2> QED BY <2>1 DEF Nth
<1> QED BY <1>1, <1>5

LEMMA SelectFacts ==
  ASSUME NEW S, NEW s \in Seq(S), NEW K \in SUBSET DOMAIN s
  PROVE  LET kept == [n \in 1..Cardinality(K) |-> s[Nth(K, n)]]
         IN  /\ IsFiniteSet(K) /\ Cardinality(K) \in Nat
             /\ kept \in Seq(S) /\ Len(kept) = Cardinality(K) /\ DOMAIN kept = 1..Cardinality(K)
             /\ \A n \in 1..Cardinality(K) : Nth(K, n) \in K /\ kept[n] = s[Nth(K, n)]
             /\ \A m, n \in 1..Cardinality(K) : Nth(K, m) = Nth(K, n) => m = n
<1>1. Len(s) \in Nat /\ DOMAIN s = 1..Len(s) /\ \A i \in DOMAIN s : s[i] \in S
  OBVIOUS
<1>2. K \in SUBSET Nat /\ IsFiniteSet(K)
  <2>1. IsFiniteSet(1..Len(s)) /\ K \in SUBSET (1..Len(s))
    BY <1>1, FS_Interval
  <2>2. IsFiniteSet(K)
    BY <2>1, FS_Subset
  <2> QED BY <2>1, <2>2
<1>3. /\ Cardinality(K) \in Nat
      /\ \A n \in 1..Cardinality(K) : Nth(K, n) \in K
      /\ \A m, n \in 1..Cardinality(K) : Nth(K, m) = Nth(K, n) => m = n
  BY <1>2, NthFacts
<1> QED BY <1>1, <1>2, <1>3

\* FlattenSeq's recursion has a solution.
LEMMA FlattenExists ==
  ASSUME NEW seqs, NEW n \in Nat
  PROVE  \E F : F = [i \in 1..n |-> IF i = 1 THEN seqs[i] ELSE F[i - 1] \o seqs[i]]
<1> DEFINE Solves(F, m) == F = [i \in 1..m |-> IF i = 1 THEN seqs[i] ELSE F[i - 1] \o seqs[i]]
           Bad == {m \in Nat : ~ \E F : Solves(F, m)}
<1>1. Bad = {}
  <2> SUFFICES ASSUME Bad # {} PROVE FALSE
    OBVIOUS
  <2>1. PICK m \in Bad : \A k \in Bad : m <= k
    BY LeastNatural
  <2>2. m # 0
    <3>1. Solves([i \in 1..0 |-> 0], 0)
      OBVIOUS
    <3> QED BY <3>1
  <2>3. PICK G : Solves(G, m - 1)
    <3>1. m - 1 \in Nat /\ ~(m <= m - 1)
      BY <2>2
    <3> QED BY <2>1, <3>1
  <2> DEFINE F == [i \in 1..m |-> IF i < m THEN G[i]
                                  ELSE IF i = 1 THEN seqs[i] ELSE G[i - 1] \o seqs[i]]
  <2>4. Solves(F, m)
    <3>1. \A i \in 1..m : F[i] = IF i = 1 THEN seqs[i] ELSE F[i - 1] \o seqs[i]
      <4>1. ASSUME NEW i \in 1..m, i < m
            PROVE  F[i] = IF i = 1 THEN seqs[i] ELSE F[i - 1] \o seqs[i]
        <5>1. i \in 1..(m - 1) /\ F[i] = G[i]
          BY <4>1
        <5>2. G[i] = IF i = 1 THEN seqs[i] ELSE G[i - 1] \o seqs[i]
          BY <2>3, <5>1
        <5>3. i # 1 => i - 1 \in 1..m /\ i - 1 < m
          BY <4>1
        <5> QED BY <5>1, <5>2, <5>3
      <4>2. F[m] = IF m = 1 THEN seqs[m] ELSE F[m - 1] \o seqs[m]
        BY <2>2
      <4>3. \A i \in 1..m : i < m \/ i = m
        OBVIOUS
      <4> HIDE DEF F
      <4> QED BY <4>1, <4>2, <4>3
    <3> QED BY <3>1
  <2> HIDE DEF F, Solves
  <2>5. \E H : Solves(H, m)
    BY <2>4
  <2> QED BY <2>5
<1> QED BY <1>1

\* Where the pieces of a concatenation are: off gives the start of each.
Pieces(seqs, f, off, n) ==
  /\ \A j \in 1..n : /\ off[j] \in Nat /\ off[j] + Len(seqs[j]) <= Len(f)
                     /\ \A l \in 1..Len(seqs[j]) : f[off[j] + l] = seqs[j][l]
  /\ \A i, j \in 1..n : i < j => off[i] + Len(seqs[i]) <= off[j]
  /\ \A k \in 1..Len(f) : \E j \in 1..n : \E l \in 1..Len(seqs[j]) : k = off[j] + l
  /\ off[1] = 0

LEMMA PiecesAdd ==
  ASSUME NEW S, NEW seqs \in Seq(Seq(S)), NEW f \in Seq(S), NEW off,
         NEW n \in Nat, n + 1 \in 1..Len(seqs), n > 0,
         Pieces(seqs, f, off, n), off[n + 1] = Len(f)
  PROVE  Pieces(seqs, f \o seqs[n + 1], off, n + 1)
<1> DEFINE t == seqs[n + 1]
           g == f \o t
<1>1. t \in Seq(S) /\ Len(f) \in Nat /\ Len(t) \in Nat /\ \A j \in 1..(n + 1) : Len(seqs[j]) \in Nat
  OBVIOUS
<1>2. /\ Len(g) = Len(f) + Len(t)
      /\ \A k \in 1..Len(f) : g[k] = f[k]
      /\ \A l \in 1..Len(t) : g[Len(f) + l] = t[l]
  BY <1>1
<1>3. /\ \A j \in 1..(n + 1) : j \in 1..n \/ j = n + 1
      /\ \A j \in 1..n : j \in 1..(n + 1)
      /\ n + 1 \in 1..(n + 1)
  OBVIOUS
<1> HIDE DEF g
<1>4. ASSUME NEW j \in 1..(n + 1)
      PROVE  /\ off[j] \in Nat /\ off[j] + Len(seqs[j]) <= Len(g)
             /\ \A l \in 1..Len(seqs[j]) : g[off[j] + l] = seqs[j][l]
  <2>1. CASE j \in 1..n
    <3>1. /\ off[j] \in Nat /\ off[j] + Len(seqs[j]) <= Len(f)
          /\ \A l \in 1..Len(seqs[j]) : f[off[j] + l] = seqs[j][l]
      BY <2>1 DEF Pieces
    <3>2. \A l \in 1..Len(seqs[j]) : off[j] + l \in 1..Len(f)
      <4>1. Len(seqs[j]) \in Nat /\ Len(f) \in Nat /\ off[j] \in Nat /\ off[j] + Len(seqs[j]) <= Len(f)
        BY <1>1, <3>1
      <4> QED BY <4>1
    <3>3. \A l \in 1..Len(seqs[j]) : g[off[j] + l] = seqs[j][l]
      BY <1>2, <3>1, <3>2
    <3>4. Len(f) <= Len(g) /\ Len(seqs[j]) \in Nat /\ Len(g) \in Nat
      BY <1>1, <1>2
    <3> HIDE DEF t
    <3> QED BY <1>1, <3>1, <3>3, <3>4
  <2>2. CASE j = n + 1
    <3>1. off[j] = Len(f) /\ seqs[j] = t
      BY <2>2
    <3> HIDE DEF t
    <3> QED BY <1>1, <1>2, <3>1
  <2> QED BY <1>3, <2>1, <2>2
<1>5. ASSUME NEW i \in 1..(n + 1), NEW j \in 1..(n + 1), i < j
      PROVE  off[i] + Len(seqs[i]) <= off[j]
  <2>1. i \in 1..n
    BY <1>5
  <2>2. CASE j \in 1..n
    BY <1>5, <2>1, <2>2 DEF Pieces
  <2>3. CASE j = n + 1
    BY <2>1, <2>3 DEF Pieces
  <2> QED BY <1>3, <2>2, <2>3
<1>6. ASSUME NEW k \in 1..Len(g)
      PROVE  \E j \in 1..(n + 1) : \E l \in 1..Len(seqs[j]) : k = off[j] + l
  <2>1. CASE k \in 1..Len(f)
    BY <1>3, <2>1 DEF Pieces
  <2>2. CASE k \notin 1..Len(f)
    <3>1. k - Len(f) \in 1..Len(t) /\ k = off[n + 1] + (k - Len(f))
      BY <1>1, <1>2, <2>2
    <3> QED BY <1>3, <3>1
  <2> QED BY <2>1, <2>2
<1>7. off[1] = 0
  BY DEF Pieces
<1>8. Pieces(seqs, g, off, n + 1)
  BY <1>4, <1>5, <1>6, <1>7 DEF Pieces
<1> QED BY <1>8 DEF g

LEMMA FlattenFacts ==
  ASSUME NEW S, NEW seqs \in Seq(Seq(S))
  PROVE  /\ FlattenSeq(seqs) \in Seq(S)
         /\ Len(seqs) > 0 => \E off : Pieces(seqs, FlattenSeq(seqs), off, Len(seqs))
         /\ Len(seqs) = 0 => FlattenSeq(seqs) = <<>>
<1> DEFINE N == Len(seqs)
           Solves(F) == F = [i \in 1..N |-> IF i = 1 THEN seqs[i] ELSE F[i - 1] \o seqs[i]]
           F == CHOOSE F : Solves(F)
<1>1. N \in Nat /\ \A i \in 1..N : seqs[i] \in Seq(S)
  OBVIOUS
<1>2. CASE N = 0
  <2>1. seqs = <<>> /\ seqs \in Seq(S)
    BY <1>2
  <2> QED BY <1>2, <2>1 DEF FlattenSeq
<1>3. CASE N > 0
  <2>1. FlattenSeq(seqs) = F[N]
    BY <1>1, <1>3 DEF FlattenSeq
  <2>2. Solves(F)
    <3>1. \E G : Solves(G)
      BY <1>1, FlattenExists
    <3> HIDE DEF Solves
    <3> QED BY <3>1
  <2> HIDE DEF F
  <2> DEFINE off == [j \in 1..N |-> IF j = 1 THEN 0 ELSE Len(F[j - 1])]
             Right(n) == F[n] \in Seq(S) /\ Pieces(seqs, F[n], off, n)
             Bad == {n \in 1..N : ~ Right(n)}
  <2>3. Right(1)
    <3>1. F[1] = seqs[1] /\ off[1] = 0 /\ 1 \in 1..N
      BY <1>1, <1>3, <2>2
    <3>2. seqs[1] \in Seq(S)
      BY <1>1, <3>1
    <3> HIDE DEF off
    <3>3. Pieces(seqs, seqs[1], off, 1)
      <4>1. \A j \in 1..1 : j = 1
        OBVIOUS
      <4>2. Len(seqs[1]) \in Nat
        BY <3>2
      <4>3. \A l \in 1..Len(seqs[1]) : off[1] + l = l
        BY <3>1, <4>2
      <4>4. \A k \in 1..Len(seqs[1]) : \E j \in 1..1 : \E l \in 1..Len(seqs[j]) : k = off[j] + l
        BY <4>3
      <4>6. \A i, j \in 1..1 : ~(i < j)
        BY <4>1
      <4>5. \A j \in 1..1 : /\ off[j] \in Nat /\ off[j] + Len(seqs[j]) <= Len(seqs[1])
                            /\ \A l \in 1..Len(seqs[j]) : seqs[1][off[j] + l] = seqs[j][l]
        BY <3>1, <4>1, <4>2, <4>3
      <4> QED BY <3>1, <4>4, <4>5, <4>6 DEF Pieces
    <3> QED BY <3>1, <3>2, <3>3
  <2>4. ASSUME NEW n \in 1..N, n + 1 \in 1..N, Right(n) PROVE Right(n + 1)
    <3>1. F[n + 1] = F[n] \o seqs[n + 1] /\ off[n + 1] = Len(F[n]) /\ n \in Nat /\ n > 0
      <4>1. n \in Nat /\ n > 0 /\ n + 1 # 1 /\ (n + 1) - 1 = n
        BY <1>1
      <4>2. F[n + 1] = F[n] \o seqs[n + 1]
        BY <2>2, <2>4, <4>1
      <4>3. off[n + 1] = Len(F[n])
        BY <2>4, <4>1
      <4> QED BY <4>1, <4>2, <4>3
    <3>2. F[n] \in Seq(S) /\ Pieces(seqs, F[n], off, n)
      BY <2>4
    <3> HIDE DEF off
    <3>3. Pieces(seqs, F[n] \o seqs[n + 1], off, n + 1)
      BY <2>4, <3>1, <3>2, PiecesAdd
    <3>4. F[n] \o seqs[n + 1] \in Seq(S)
      BY <1>1, <2>4, <3>2
    <3> QED BY <3>1, <3>3, <3>4
  <2> HIDE DEF Right
  <2>5. Bad = {}
    <3> SUFFICES ASSUME Bad # {} PROVE FALSE
      OBVIOUS
    <3>1. PICK m \in Bad : \A k \in Bad : m <= k
      <4>1. Bad \in SUBSET Nat
        BY <1>1
      <4> QED BY <4>1, LeastNatural
    <3>2. m # 1
      BY <2>3
    <3>3. m - 1 \in 1..N /\ ~(m <= m - 1) /\ (m - 1) + 1 = m
      BY <1>1, <3>2
    <3>4. Right(m - 1)
      BY <3>1, <3>3
    <3> QED BY <2>4, <3>3, <3>4
  <2>6. Right(N)
    BY <1>1, <1>3, <2>5
  <2>7. F[N] \in Seq(S) /\ \E o : Pieces(seqs, F[N], o, N)
    BY <2>6 DEF Right
  <2> QED BY <1>3, <2>1, <2>7
<1> QED BY <1>1, <1>2, <1>3

\* The elements of a concatenation: those of its pieces, in their order.
Joined(f, seqs) ==
  /\ \A k \in 1..Len(f) : \E j \in 1..Len(seqs) : \E l \in 1..Len(seqs[j]) : f[k] = seqs[j][l]
  /\ \A j \in 1..Len(seqs) : \A l \in 1..Len(seqs[j]) : \E k \in 1..Len(f) : f[k] = seqs[j][l]
  /\ Len(f) > 0 => \E j \in 1..Len(seqs) : Len(seqs[j]) > 0 /\ f[1] = seqs[j][1]
  /\ Len(seqs) > 0 /\ Len(seqs[1]) > 0 => f[1] = seqs[1][1]
  /\ \A k, m \in 1..Len(f) : k < m =>
       \E i, j \in 1..Len(seqs) : \E l \in 1..Len(seqs[i]), p \in 1..Len(seqs[j]) :
         /\ f[k] = seqs[i][l] /\ f[m] = seqs[j][p]
         /\ i < j \/ (i = j /\ l < p)

LEMMA FlattenOrder ==
  ASSUME NEW S, NEW seqs \in Seq(Seq(S))
  PROVE  FlattenSeq(seqs) \in Seq(S) /\ Joined(FlattenSeq(seqs), seqs)
<1> DEFINE f == FlattenSeq(seqs)
<1>1. f \in Seq(S) /\ Len(f) \in Nat /\ Len(seqs) \in Nat
  BY FlattenFacts
<1>2. \A j \in 1..Len(seqs) : Len(seqs[j]) \in Nat
  OBVIOUS
<1>3. CASE Len(seqs) = 0
  <2>1. f = <<>>
    BY <1>3, FlattenFacts
  <2> HIDE DEF f
  <2>2. Len(f) = 0 /\ 1..Len(f) = {} /\ 1..Len(seqs) = {} /\ ~(Len(f) > 0)
    BY <1>3, <2>1
  <2>3. ~(Len(seqs) > 0)
    BY <1>3
  <2>4. Joined(f, seqs)
    BY <2>2, <2>3 DEF Joined
  <2> QED BY <1>1, <2>4 DEF f
<1>4. CASE Len(seqs) > 0
  <2>1. PICK off : Pieces(seqs, f, off, Len(seqs))
    BY <1>4, FlattenFacts
  <2> HIDE DEF f
  <2>2. \A j \in 1..Len(seqs) : /\ off[j] \in Nat /\ off[j] + Len(seqs[j]) <= Len(f)
                                /\ \A l \in 1..Len(seqs[j]) : f[off[j] + l] = seqs[j][l]
    BY <2>1 DEF Pieces
  <2>3. \A i, j \in 1..Len(seqs) : i < j => off[i] + Len(seqs[i]) <= off[j]
    BY <2>1 DEF Pieces
  <2>4. \A k \in 1..Len(f) : \E j \in 1..Len(seqs) : \E l \in 1..Len(seqs[j]) : k = off[j] + l
    BY <2>1 DEF Pieces
  <2>5. \A k \in 1..Len(f) : \E j \in 1..Len(seqs) : \E l \in 1..Len(seqs[j]) : f[k] = seqs[j][l]
    BY <2>2, <2>4
  <2>6. ASSUME NEW j \in 1..Len(seqs), NEW l \in 1..Len(seqs[j])
        PROVE  \E k \in 1..Len(f) : f[k] = seqs[j][l]
    <3>1. off[j] \in Nat /\ off[j] + Len(seqs[j]) <= Len(f) /\ Len(seqs[j]) \in Nat
      BY <1>2, <2>2
    <3>2. off[j] + l \in 1..Len(f)
      BY <1>1, <3>1
    <3>3. f[off[j] + l] = seqs[j][l]
      BY <2>2
    <3> QED BY <3>2, <3>3
  <2>7. ASSUME Len(f) > 0
        PROVE  \E j \in 1..Len(seqs) : Len(seqs[j]) > 0 /\ f[1] = seqs[j][1]
    <3>1. 1 \in 1..Len(f)
      BY <1>1, <2>7
    <3>2. PICK j \in 1..Len(seqs) : \E l \in 1..Len(seqs[j]) : 1 = off[j] + l
      BY <2>4, <3>1
    <3>3. PICK l \in 1..Len(seqs[j]) : 1 = off[j] + l
      BY <3>2
    <3>4. l = 1 /\ Len(seqs[j]) > 0
      <4>1. off[j] \in Nat /\ Len(seqs[j]) \in Nat
        BY <1>2, <2>2
      <4> QED BY <3>3, <4>1
    <3>5. f[1] = seqs[j][1]
      BY <2>2, <3>3, <3>4
    <3> QED BY <3>4, <3>5
  <2>8. ASSUME NEW k \in 1..Len(f), NEW m \in 1..Len(f), k < m
        PROVE  \E i, j \in 1..Len(seqs) : \E l \in 1..Len(seqs[i]), p \in 1..Len(seqs[j]) :
                 /\ f[k] = seqs[i][l] /\ f[m] = seqs[j][p]
                 /\ i < j \/ (i = j /\ l < p)
    <3>1. PICK i \in 1..Len(seqs) : \E l \in 1..Len(seqs[i]) : k = off[i] + l
      BY <2>4
    <3>2. PICK l \in 1..Len(seqs[i]) : k = off[i] + l
      BY <3>1
    <3>3. PICK j \in 1..Len(seqs) : \E p \in 1..Len(seqs[j]) : m = off[j] + p
      BY <2>4
    <3>4. PICK p \in 1..Len(seqs[j]) : m = off[j] + p
      BY <3>3
    <3>5. /\ off[i] \in Nat /\ off[j] \in Nat /\ i \in Nat /\ j \in Nat
          /\ Len(seqs[i]) \in Nat /\ Len(seqs[j]) \in Nat
      BY <1>2, <2>2
    <3>6. i < j \/ (i = j /\ l < p)
      <4>1. CASE j < i
        <5>1. off[j] + Len(seqs[j]) <= off[i]
          BY <2>3, <4>1
        <5> QED BY <2>8, <3>2, <3>4, <3>5, <5>1
      <4>2. CASE i = j
        BY <2>8, <3>2, <3>4, <3>5, <4>2
      <4> QED BY <3>5, <4>1, <4>2
    <3>7. f[k] = seqs[i][l] /\ f[m] = seqs[j][p]
      BY <2>2, <3>2, <3>4
    <3> QED BY <3>6, <3>7
  <2>9. ASSUME Len(seqs[1]) > 0 PROVE f[1] = seqs[1][1]
    <3>1. off[1] = 0 /\ 1 \in 1..Len(seqs)
      BY <1>1, <1>4, <2>1 DEF Pieces
    <3>2. 1 \in 1..Len(seqs[1]) /\ off[1] + 1 = 1
      BY <1>2, <2>9, <3>1
    <3> QED BY <2>2, <3>1, <3>2
  <2>10. Joined(f, seqs)
    BY <2>5, <2>6, <2>7, <2>8, <2>9 DEF Joined
  <2> QED BY <1>1, <2>10 DEF f
<1> QED BY <1>1, <1>3, <1>4

-----------------------------------------------------------------------------
(* The plan of an A/B experiment *)

ABJob == [op : {"ab"}, graph : STRING, variant : STRING, rep : Nat]

\* A list of runs that has, for each pair of a graph and a repetition in
\* cells, every variant once, and begins with the baseline.
Block(A, cells) ==
  /\ A \in Seq(ABJob)
  /\ \A k \in 1..Len(A) : <<A[k].graph, A[k].rep>> \in cells /\ A[k].variant \in ToSet(Variants)
  /\ \A c \in cells, v \in ToSet(Variants) : \E k \in 1..Len(A) :
       A[k].graph = c[1] /\ A[k].rep = c[2] /\ A[k].variant = v
  /\ \A k, l \in 1..Len(A) : A[k] = A[l] => k = l
  /\ Len(A) > 0 => A[1].variant = Variants[1]

LEMMA BlockJoin ==
  ASSUME NEW seqs \in Seq(Seq(ABJob)), NEW cells,
         \A j \in 1..Len(seqs) : Block(seqs[j], cells[j]),
         \A i, j \in 1..Len(seqs) : i # j => cells[i] \cap cells[j] = {}
  PROVE  Block(FlattenSeq(seqs), UNION {cells[j] : j \in 1..Len(seqs)})
<1> DEFINE f == FlattenSeq(seqs)
           all == UNION {cells[j] : j \in 1..Len(seqs)}
<1>1. f \in Seq(ABJob) /\ Len(f) \in Nat
  <2>1. f \in Seq(ABJob)
    BY FlattenOrder
  <2> QED BY <2>1
<1>2. Joined(f, seqs)
  BY FlattenOrder
<1> HIDE DEF f
<1>3. ASSUME NEW k \in 1..Len(f)
      PROVE  <<f[k].graph, f[k].rep>> \in all /\ f[k].variant \in ToSet(Variants)
  <2>1. PICK j \in 1..Len(seqs) : \E l \in 1..Len(seqs[j]) : f[k] = seqs[j][l]
    BY <1>2 DEF Joined
  <2>2. PICK l \in 1..Len(seqs[j]) : f[k] = seqs[j][l]
    BY <2>1
  <2>3. <<f[k].graph, f[k].rep>> \in cells[j] /\ f[k].variant \in ToSet(Variants)
    BY <2>2 DEF Block
  <2> QED BY <2>3
<1>4. ASSUME NEW c \in all, NEW v \in ToSet(Variants)
      PROVE  \E k \in 1..Len(f) : f[k].graph = c[1] /\ f[k].rep = c[2] /\ f[k].variant = v
  <2>1. PICK j \in 1..Len(seqs) : c \in cells[j]
    OBVIOUS
  <2>2. PICK l \in 1..Len(seqs[j]) :
          seqs[j][l].graph = c[1] /\ seqs[j][l].rep = c[2] /\ seqs[j][l].variant = v
    BY <2>1 DEF Block
  <2>3. PICK k \in 1..Len(f) : f[k] = seqs[j][l]
    BY <1>2 DEF Joined
  <2> QED BY <2>2, <2>3
<1>5. ASSUME NEW k \in 1..Len(f), NEW m \in 1..Len(f), k < m, f[k] = f[m] PROVE FALSE
  <2>1. PICK i \in 1..Len(seqs), j \in 1..Len(seqs) :
          \E l \in 1..Len(seqs[i]), p \in 1..Len(seqs[j]) :
             /\ f[k] = seqs[i][l] /\ f[m] = seqs[j][p]
             /\ i < j \/ (i = j /\ l < p)
    BY <1>2, <1>5 DEF Joined
  <2>2. PICK l \in 1..Len(seqs[i]), p \in 1..Len(seqs[j]) :
             /\ f[k] = seqs[i][l] /\ f[m] = seqs[j][p]
             /\ i < j \/ (i = j /\ l < p)
    BY <2>1
  <2>3. CASE i < j
    <3>1. i # j
      BY <2>3
    <3>2. /\ <<seqs[i][l].graph, seqs[i][l].rep>> \in cells[i]
          /\ <<seqs[j][p].graph, seqs[j][p].rep>> \in cells[j]
      BY DEF Block
    <3>3. seqs[i][l] = seqs[j][p]
      BY <1>5, <2>2
    <3> QED BY <3>1, <3>2, <3>3
  <2>4. CASE i = j /\ l < p
    <3>1. seqs[i][l] = seqs[i][p] /\ p \in 1..Len(seqs[i])
      BY <1>5, <2>2, <2>4
    <3>2. l # p
      BY <2>4
    <3> QED BY <3>1, <3>2 DEF Block
  <2> QED BY <2>2, <2>3, <2>4
<1>6. \A k, l \in 1..Len(f) : f[k] = f[l] => k = l
  <2>1. \A k, l \in 1..Len(f) : k < l \/ l < k \/ k = l
    BY <1>1
  <2> QED BY <1>5, <2>1
<1>7. ASSUME Len(f) > 0 PROVE f[1].variant = Variants[1]
  <2>1. PICK j \in 1..Len(seqs) : Len(seqs[j]) > 0 /\ f[1] = seqs[j][1]
    BY <1>2, <1>7 DEF Joined
  <2> QED BY <2>1 DEF Block
<1>8. Block(f, all)
  <2> HIDE DEF all
  <2> QED BY <1>1, <1>3, <1>4, <1>6, <1>7 DEF Block
<1> QED BY <1>8 DEF f

\* The runs of one repetition on one graph.
OneEach(g, r) ==
  Each(Variants, LAMBDA v : <<[op |-> "ab", graph |-> g, variant |-> v, rep |-> r]>>)

LEMMA OneEachFacts ==
  ASSUME NEW g \in STRING, NEW r \in Nat
  PROVE  Block(OneEach(g, r), {<<g, r>>})
<1> DEFINE JobAt(v) == [op |-> "ab", graph |-> g, variant |-> v, rep |-> r]
           seqs == [i \in DOMAIN Variants |-> <<JobAt(Variants[i])>>]
           f == FlattenSeq(seqs)
<1>1. Variants \in Seq(STRING) /\ IsInjective(Variants)
  BY HarnessAssumption
<1>2. \A i \in DOMAIN Variants : Variants[i] \in STRING /\ JobAt(Variants[i]) \in ABJob
  BY <1>1 DEF ABJob
<1>3. /\ seqs \in Seq(Seq(ABJob)) /\ Len(seqs) = Len(Variants) /\ Len(Variants) \in Nat
      /\ DOMAIN Variants = 1..Len(Variants)
  <2> HIDE DEF JobAt
  <2>1. \A i \in DOMAIN Variants : <<JobAt(Variants[i])>> \in Seq(ABJob)
    BY <1>2
  <2>2. DOMAIN Variants = 1..Len(Variants) /\ Len(Variants) \in Nat
    BY <1>1
  <2> QED BY <2>1, <2>2
<1>4. \A j \in 1..Len(seqs) : Len(seqs[j]) = 1 /\ seqs[j][1] = JobAt(Variants[j])
  BY <1>3
<1>5. OneEach(g, r) = f
  BY DEF OneEach, Each
<1>8. \A j \in 1..Len(seqs) : \A l \in 1..Len(seqs[j]) : l = 1
  BY <1>4
<1>16. \A v : JobAt(v).variant = v /\ JobAt(v).graph = g /\ JobAt(v).rep = r
  OBVIOUS
<1> HIDE DEF seqs, JobAt
<1>6. f \in Seq(ABJob) /\ Len(f) \in Nat
  <2>1. f \in Seq(ABJob)
    BY <1>3, FlattenOrder
  <2> QED BY <2>1
<1>7. Joined(f, seqs)
  BY <1>3, FlattenOrder
<1> HIDE DEF f
<1>9. \A k \in 1..Len(f) : \E j \in 1..Len(Variants) : f[k] = JobAt(Variants[j])
  BY <1>3, <1>4, <1>7, <1>8 DEF Joined
<1>10. \A j \in 1..Len(Variants) : \E k \in 1..Len(f) : f[k] = JobAt(Variants[j])
  <2>1. \A j \in 1..Len(seqs) : 1 \in 1..Len(seqs[j])
    <3>1. 1 \in 1..1
      OBVIOUS
    <3> QED BY <1>4, <3>1
  <2> QED BY <1>3, <1>4, <1>7, <2>1 DEF Joined
<1>11. ToSet(Variants) = {Variants[i] : i \in 1..Len(Variants)}
  BY <1>3 DEF ToSet
<1>12. ASSUME NEW k \in 1..Len(f), NEW m \in 1..Len(f), k < m, f[k] = f[m] PROVE FALSE
  <2>1. PICK i \in 1..Len(seqs), j \in 1..Len(seqs) :
          \E l \in 1..Len(seqs[i]), p \in 1..Len(seqs[j]) :
             /\ f[k] = seqs[i][l] /\ f[m] = seqs[j][p]
             /\ i < j \/ (i = j /\ l < p)
    BY <1>7, <1>12 DEF Joined
  <2>2. i < j /\ f[k] = JobAt(Variants[i]) /\ f[m] = JobAt(Variants[j])
    <3>1. \A x \in Nat : ~(x < x)
      OBVIOUS
    <3> QED BY <1>4, <1>8, <2>1, <3>1
  <2>3. Variants[i] = Variants[j]
    BY <1>12, <1>16, <2>2
  <2>4. i = j
    BY <1>1, <1>3, <2>3 DEF IsInjective
  <2> QED BY <2>2, <2>4
<1>13. \A k, l \in 1..Len(f) : f[k] = f[l] => k = l
  <2>1. \A k, l \in 1..Len(f) : k < l \/ l < k \/ k = l
    BY <1>6
  <2> QED BY <1>12, <2>1
<1>14. ASSUME Len(f) > 0 PROVE f[1].variant = Variants[1]
  <2>1. Len(seqs) > 0 /\ 1 \in 1..Len(seqs)
    BY <1>3, <1>7, <1>14 DEF Joined
  <2>2. f[1] = JobAt(Variants[1])
    BY <1>4, <1>7, <2>1 DEF Joined
  <2> QED BY <1>16, <2>2
<1>15. Block(f, {<<g, r>>})
  <2>1. \A k \in 1..Len(f) : <<f[k].graph, f[k].rep>> \in {<<g, r>>} /\ f[k].variant \in ToSet(Variants)
    BY <1>9, <1>11, <1>16
  <2>2. \A c \in {<<g, r>>}, v \in ToSet(Variants) : \E k \in 1..Len(f) :
          f[k].graph = c[1] /\ f[k].rep = c[2] /\ f[k].variant = v
    BY <1>10, <1>11, <1>16
  <2> QED BY <1>6, <1>13, <1>14, <2>1, <2>2 DEF Block
<1> QED BY <1>5, <1>15

WantedGraphs == Select(GraphList, LAMBDA g : g \in Wanted)

LEMMA WantedFacts ==
  /\ WantedGraphs \in Seq(STRING)
  /\ \A i, j \in 1..Len(WantedGraphs) : WantedGraphs[i] = WantedGraphs[j] => i = j
<1> DEFINE K == {i \in DOMAIN GraphList : GraphList[i] \in Wanted}
<1>1. GraphList \in Seq(STRING) /\ IsInjective(GraphList)
  BY HarnessAssumption
<1>2. WantedGraphs = [n \in 1..Cardinality(K) |-> GraphList[Nth(K, n)]]
  BY DEF WantedGraphs, Select
<1> HIDE DEF K
<1>3. K \in SUBSET DOMAIN GraphList
  BY DEF K
<1>4. /\ WantedGraphs \in Seq(STRING) /\ Len(WantedGraphs) = Cardinality(K)
      /\ \A n \in 1..Cardinality(K) : Nth(K, n) \in K /\ WantedGraphs[n] = GraphList[Nth(K, n)]
      /\ \A m, n \in 1..Cardinality(K) : Nth(K, m) = Nth(K, n) => m = n
  BY <1>1, <1>2, <1>3, SelectFacts
<1> QED BY <1>1, <1>3, <1>4 DEF IsInjective

\* The runs of one repetition, and all of them.
RepOf(r) == Each(WantedGraphs, LAMBDA g : OneEach(g, r))
PlanOf(R) == Each([r \in 1..R |-> r], LAMBDA r : RepOf(r))

LEMMA RepFacts ==
  ASSUME NEW r \in Nat
  PROVE  Block(RepOf(r), ToSet(WantedGraphs) \X {r})
<1> DEFINE W == WantedGraphs
           seqs == [i \in DOMAIN W |-> OneEach(W[i], r)]
           cells == [i \in DOMAIN W |-> {<<W[i], r>>}]
<1>1. W \in Seq(STRING) /\ \A i, j \in 1..Len(W) : W[i] = W[j] => i = j
  BY WantedFacts
<1>2. DOMAIN W = 1..Len(W) /\ Len(W) \in Nat /\ \A i \in DOMAIN W : W[i] \in STRING
  BY <1>1
<1>3. \A i \in DOMAIN W : Block(seqs[i], cells[i])
  BY <1>2, OneEachFacts
<1>4. seqs \in Seq(Seq(ABJob)) /\ Len(seqs) = Len(W)
  <2>1. \A i \in DOMAIN W : OneEach(W[i], r) \in Seq(ABJob)
    BY <1>2, OneEachFacts DEF Block
  <2> QED BY <1>2, <2>1
<1>5. RepOf(r) = FlattenSeq(seqs)
  BY DEF RepOf, Each
<1>6. \A i, j \in 1..Len(W) : i # j => cells[i] \cap cells[j] = {}
  BY <1>1, <1>2
<1>7. UNION {cells[j] : j \in 1..Len(W)} = ToSet(W) \X {r}
  BY <1>2 DEF ToSet
<1> HIDE DEF W, seqs, cells
<1>8. Block(FlattenSeq(seqs), UNION {cells[j] : j \in 1..Len(seqs)})
  BY <1>2, <1>3, <1>4, <1>6, BlockJoin
<1>9. Block(FlattenSeq(seqs), ToSet(W) \X {r})
  BY <1>4, <1>7, <1>8
<1> QED BY <1>5, <1>9 DEF W

\* Every repetition of every variant of a graph comes after all its earlier ones.
LEMMA PlanFacts ==
  ASSUME NEW R \in Nat
  PROVE  /\ Block(PlanOf(R), ToSet(WantedGraphs) \X (1..R))
         /\ \A k \in 1..Len(PlanOf(R)), v \in ToSet(Variants) : PlanOf(R)[k].rep > 1 =>
              \E l \in 1..Len(PlanOf(R)) :
                /\ l < k
                /\ PlanOf(R)[l].graph = PlanOf(R)[k].graph /\ PlanOf(R)[l].variant = v
                /\ PlanOf(R)[l].rep = PlanOf(R)[k].rep - 1
<1> DEFINE G == ToSet(WantedGraphs)
           seqs == [r \in 1..R |-> RepOf(r)]
           cells == [r \in 1..R |-> G \X {r}]
           C == FlattenSeq(seqs)
<1>1. PlanOf(R) = C
  <2>1. [i \in DOMAIN [r \in 1..R |-> r] |-> RepOf([r \in 1..R |-> r][i])] = seqs
    OBVIOUS
  <2> QED BY <2>1 DEF PlanOf, Each
<1>2. \A r \in 1..R : Block(seqs[r], cells[r])
  BY RepFacts
<1>3. seqs \in Seq(Seq(ABJob)) /\ Len(seqs) = R
  <2>1. \A r \in 1..R : RepOf(r) \in Seq(ABJob)
    BY RepFacts DEF Block
  <2> QED BY <2>1
<1>4. \A i, j \in 1..R : i # j => cells[i] \cap cells[j] = {}
  OBVIOUS
<1>5. UNION {cells[r] : r \in 1..R} = G \X (1..R)
  OBVIOUS
<1> HIDE DEF seqs, cells
<1>6. Block(C, UNION {cells[j] : j \in 1..Len(seqs)}) /\ Joined(C, seqs)
  BY <1>2, <1>3, <1>4, BlockJoin, FlattenOrder
<1> HIDE DEF C
<1>7. Block(C, G \X (1..R))
  BY <1>3, <1>5, <1>6
<1>8. \A r \in 1..R : \A l \in 1..Len(seqs[r]) : seqs[r][l].rep = r
  <2>1. \A r \in 1..R : cells[r] = G \X {r}
    BY DEF cells
  <2> QED BY <1>2, <2>1 DEF Block
<1>9. ASSUME NEW k \in 1..Len(C), NEW v \in ToSet(Variants), C[k].rep > 1
      PROVE  \E l \in 1..Len(C) :
               l < k /\ C[l].graph = C[k].graph /\ C[l].variant = v /\ C[l].rep = C[k].rep - 1
  <2>1. C[k].graph \in G /\ C[k].rep \in 1..R
    BY <1>7 DEF Block
  <2>2. <<C[k].graph, C[k].rep - 1>> \in G \X (1..R)
    BY <1>9, <2>1
  <2>3. PICK l \in 1..Len(C) : C[l].graph = C[k].graph /\ C[l].rep = C[k].rep - 1 /\ C[l].variant = v
    BY <1>7, <2>2 DEF Block
  <2>4. ASSUME k < l PROVE FALSE
    <3>1. PICK i \in 1..Len(seqs), j \in 1..Len(seqs) :
            \E p \in 1..Len(seqs[i]), q \in 1..Len(seqs[j]) :
              /\ C[k] = seqs[i][p] /\ C[l] = seqs[j][q]
              /\ i < j \/ (i = j /\ p < q)
      BY <1>6, <2>4 DEF Joined
    <3>2. C[k].rep = i /\ C[l].rep = j /\ (i < j \/ i = j)
      BY <1>3, <1>8, <3>1
    <3> QED BY <2>3, <3>2
  <2>5. k # l
    BY <2>1, <2>3
  <2>6. k < l \/ l < k \/ k = l
    OBVIOUS
  <2> QED BY <2>3, <2>4, <2>5, <2>6
<1> QED BY <1>1, <1>7, <1>9

LEMMA AfterTwo ==
  ASSUME NEW S, NEW d \in Seq(S), NEW c \in Seq(S), Len(d) = 2
  PROVE  /\ Len(c) \in Nat /\ Len(d \o c) = Len(c) + 2 /\ DOMAIN (d \o c) = 1..(Len(c) + 2)
         /\ (d \o c)[1] = d[1] /\ (d \o c)[2] = d[2]
         /\ \A k \in 1..Len(c) : (d \o c)[k + 2] = c[k]
<1> DEFINE e == d \o c
           n == Len(c)
<1>1. n \in Nat
  OBVIOUS
<1>2. Len(e) = 2 + n /\ \A i \in 1..(2 + n) : e[i] = IF i <= 2 THEN d[i] ELSE c[i - 2]
  <2>1. /\ Len(e) = Len(d) + n
        /\ \A i \in 1..(Len(d) + n) : e[i] = IF i <= Len(d) THEN d[i] ELSE c[i - Len(d)]
    BY ConcatProperties, Zenon
  <2> HIDE DEF e, n
  <2> QED BY <2>1
<1>3. \A k \in 1..n : k + 2 \in 1..(2 + n) /\ ~(k + 2 <= 2) /\ (k + 2) - 2 = k
  BY <1>1
<1>4. 1 \in 1..(2 + n) /\ 2 \in 1..(2 + n)
  BY <1>1
<1>6. DOMAIN e = 1..Len(e)
  <2>1. e \in Seq(S)
    BY ConcatProperties
  <2> HIDE DEF e
  <2> QED BY <2>1
<1> HIDE DEF e, n
<1>5. n \in Nat /\ Len(e) = n + 2 /\ DOMAIN e = 1..(n + 2) /\ e[1] = d[1] /\ e[2] = d[2] /\ \A k \in 1..n : e[k + 2] = c[k]
  BY <1>1, <1>2, <1>3, <1>4, <1>6
<1> QED BY <1>5 DEF e, n

LEMMA ABPlan ==
  ASSUME NEW R \in Nat
  PROVE  /\ Len(PlanOf(R)) \in Nat
         /\ Len(ABJobs(R)) = Len(PlanOf(R)) + 2
         /\ DOMAIN ABJobs(R) = 1..(Len(PlanOf(R)) + 2)
         /\ ABJobs(R)[1] = [op |-> "mkdir", sub |-> "ab"]
         /\ ABJobs(R)[2] = [op |-> "open", file |-> "runs"]
         /\ \A k \in 1..Len(PlanOf(R)) : PlanOf(R)[k] \in ABJob /\ ABJobs(R)[k + 2] = PlanOf(R)[k]
<1> DEFINE C == PlanOf(R)
           m == [op |-> "mkdir", sub |-> "ab"]
           o == [op |-> "open", file |-> "runs"]
<1>1. ABJobs(R) = <<m>> \o <<o>> \o C
  BY Zenon DEF ABJobs, PlanOf, RepOf, OneEach, WantedGraphs, Each, Mkdir, Open
<1>2. C \in Seq(ABJob)
  BY PlanFacts DEF Block
<1> HIDE DEF C, m, o
<1> DEFINE S == {m, o} \cup ABJob
           D == <<m>> \o <<o>>
<1>3. <<m>> \in Seq(S) /\ <<o>> \in Seq(S) /\ C \in Seq(S)
  <2>1. \A k \in 1..Len(C) : C[k] \in S
    BY <1>2
  <2>2. m \in S /\ o \in S
    OBVIOUS
  <2> QED BY <1>2, <2>1, <2>2
<1> HIDE DEF S
<1>4. D \in Seq(S) /\ Len(D) = 2 /\ D[1] = m /\ D[2] = o
  BY <1>3
<1> HIDE DEF D
<1>5. /\ Len(C) \in Nat
      /\ Len(D \o C) = Len(C) + 2 /\ DOMAIN (D \o C) = 1..(Len(C) + 2)
      /\ (D \o C)[1] = m /\ (D \o C)[2] = o
      /\ \A k \in 1..Len(C) : (D \o C)[k + 2] = C[k]
  BY <1>3, <1>4, AfterTwo
<1>6. \A k \in 1..Len(C) : C[k] \in ABJob
  BY <1>2
<1> QED BY <1>1, <1>5, <1>6 DEF C, D, m, o

-----------------------------------------------------------------------------
(* The other experiments *)

\* What none of their jobs does is touch ab/runs.tsv or the logs of ab.
OtherFiles == Files \ {"runs"}
Folders == {"h1", "h2", "h3", "h4"}
OtherJob ==
  [op : {"mkdir"}, sub : Folders] \cup [op : {"open"}, file : OtherFiles]
  \cup [op : {"dump"}, sub : Folders, graph : STRING]
  \cup [op : {"row"}, file : OtherFiles, graph : STRING, knob : STRING]
  \cup [op : {"absorb"}, graph : STRING, knob : STRING]
  \cup [op : {"pes"}, graph : STRING, pes : Nat]
  \cup [op : {"jitter"}, knob : STRING]

\* Jobs for each element of a list.
LEMMA FlattenJobs ==
  ASSUME NEW T, NEW list \in Seq(T), NEW f, f = [i \in DOMAIN list |-> f[i]],
         \A i \in DOMAIN list : f[i] \in Seq(OtherJob)
  PROVE  FlattenSeq(f) \in Seq(OtherJob)
<1>1. DOMAIN list = 1..Len(list) /\ Len(list) \in Nat
  OBVIOUS
<1>2. f \in Seq(Seq(OtherJob))
  BY <1>1
<1> QED BY <1>2, FlattenFacts

LEMMA OneJob ==
  ASSUME NEW j \in OtherJob
  PROVE  <<j>> \in Seq(OtherJob)
OBVIOUS

LEMMA FourParts ==
  \A a, b, c, d \in Seq(OtherJob) : a \o b \o c \o d \in Seq(OtherJob)
OBVIOUS

LEMMA KnobsFacts ==
  /\ GraphList \in Seq(STRING) /\ PeCounts \in Seq(Nat)
  /\ Percentiles \in Seq(STRING) /\ Multipliers \in Seq(STRING) /\ Bufsizes \in Seq(STRING)
  /\ Jitters \in Seq(STRING) /\ Intervals \in Seq(STRING) /\ Delays \in Seq(STRING)
BY HarnessAssumption

LEMMA SweepJobs ==
  ASSUME NEW file \in OtherFiles, NEW knobs \in Seq(STRING)
  PROVE  Sweep(file, knobs) \in Seq(OtherJob)
<1> DEFINE J(g, k) == [op |-> "row", file |-> file, graph |-> g, knob |-> k]
           Inner(g) == [i \in DOMAIN knobs |-> <<J(g, knobs[i])>>]
           outer == [i \in DOMAIN GraphList |-> FlattenSeq(Inner(GraphList[i]))]
<1>1. GraphList \in Seq(STRING)
  BY KnobsFacts
<1>2. \A g, k \in STRING : J(g, k) \in OtherJob
  BY DEF OtherJob
<1>3. ASSUME NEW g \in STRING PROVE FlattenSeq(Inner(g)) \in Seq(OtherJob)
  <2> HIDE DEF J
  <2>1. ASSUME NEW i \in DOMAIN knobs PROVE Inner(g)[i] \in Seq(OtherJob)
    <3>1. knobs[i] \in STRING
      OBVIOUS
    <3>2. <<J(g, knobs[i])>> \in Seq(OtherJob)
      BY <1>2, <3>1, OneJob
    <3> QED BY <3>2
  <2>2. Inner(g) = [i \in DOMAIN knobs |-> Inner(g)[i]]
    OBVIOUS
  <2> HIDE DEF Inner
  <2> QED BY <2>1, <2>2, FlattenJobs
<1>4. FlattenSeq(outer) \in Seq(OtherJob)
  <2> HIDE DEF Inner
  <2>1. ASSUME NEW i \in DOMAIN GraphList PROVE outer[i] \in Seq(OtherJob)
    <3>1. GraphList[i] \in STRING
      BY <1>1
    <3> QED BY <1>3, <3>1
  <2>2. outer = [i \in DOMAIN GraphList |-> outer[i]]
    OBVIOUS
  <2> HIDE DEF outer
  <2> QED BY <1>1, <2>1, <2>2, FlattenJobs
<1>5. Sweep(file, knobs) = Open(file) \o FlattenSeq(outer)
  BY Zenon DEF Sweep, Each
<1>6. Open(file) \in Seq(OtherJob)
  BY DEF Open, OtherJob
<1> HIDE DEF outer
<1> QED BY <1>4, <1>5, <1>6, ConcatProperties

LEMMA ProfileJobs ==
  ASSUME NEW sub \in Folders
  PROVE  Profiles(sub) \in Seq(OtherJob)
<1>1. Profiles(sub) \in Seq(OtherJob)
  <2> DEFINE J(k) == [op |-> "dump", sub |-> sub, graph |-> k]
             list == [i \in DOMAIN GraphList |-> <<J(GraphList[i])>>]
  <2>1. \A k \in STRING : J(k) \in OtherJob
    BY DEF OtherJob
  <2>2. ASSUME NEW i \in DOMAIN GraphList PROVE list[i] \in Seq(OtherJob)
    <3> HIDE DEF J
    <3>1. GraphList[i] \in STRING
      BY KnobsFacts
    <3>2. <<J(GraphList[i])>> \in Seq(OtherJob)
      BY <2>1, <3>1, OneJob
    <3> QED BY <3>2
  <2>3. list = [i \in DOMAIN GraphList |-> list[i]]
    OBVIOUS
  <2>4. Profiles(sub) = FlattenSeq(list)
    BY Zenon DEF Profiles, Each
  <2> HIDE DEF list
  <2>5. FlattenSeq(list) \in Seq(OtherJob)
    BY <2>2, <2>3, KnobsFacts, FlattenJobs
  <2> QED BY <2>4, <2>5
<1> QED BY <1>1

LEMMA FolderJobs ==
  ASSUME NEW sub \in Folders
  PROVE  Mkdir(sub) \in Seq(OtherJob)
<1> DEFINE j == [op |-> "mkdir", sub |-> sub]
<1>1. j \in OtherJob
  BY DEF OtherJob
<1> HIDE DEF j
<1>2. <<j>> \in Seq(OtherJob)
  BY <1>1, OneJob
<1> QED BY <1>2 DEF Mkdir, j

LEMMA H2H3Jobs ==
  H2Jobs \in Seq(OtherJob) /\ H3Jobs \in Seq(OtherJob)
<1> DEFINE Absorb == Each(GraphList, LAMBDA g : Each(Bufsizes, LAMBDA b :
                       <<[op |-> "absorb", graph |-> g, knob |-> b]>>))
           Pes == Each(GraphList, LAMBDA g : Each(PeCounts, LAMBDA n :
                    <<[op |-> "pes", graph |-> g, pes |-> n]>>))
           Jitter == Each(Jitters, LAMBDA j : <<[op |-> "jitter", knob |-> j]>>)
<1>1. Absorb \in Seq(OtherJob)
  <2> DEFINE J(g, k) == [op |-> "absorb", graph |-> g, knob |-> k]
             Inner(g) == [i \in DOMAIN Bufsizes |-> <<J(g, Bufsizes[i])>>]
             outer == [i \in DOMAIN GraphList |-> FlattenSeq(Inner(GraphList[i]))]
  <2>1. \A g \in STRING, k \in STRING : J(g, k) \in OtherJob
    BY DEF OtherJob
  <2>2. ASSUME NEW g \in STRING PROVE FlattenSeq(Inner(g)) \in Seq(OtherJob)
    <3> HIDE DEF J
    <3>1. ASSUME NEW i \in DOMAIN Bufsizes PROVE Inner(g)[i] \in Seq(OtherJob)
      <4>1. Bufsizes[i] \in STRING
        BY KnobsFacts
      <4>2. <<J(g, Bufsizes[i])>> \in Seq(OtherJob)
        BY <2>1, <4>1, OneJob
      <4> QED BY <4>2
    <3>2. Inner(g) = [i \in DOMAIN Bufsizes |-> Inner(g)[i]]
      OBVIOUS
    <3> HIDE DEF Inner
    <3> QED BY <3>1, <3>2, KnobsFacts, FlattenJobs
  <2>3. FlattenSeq(outer) \in Seq(OtherJob)
    <3> HIDE DEF Inner
    <3>1. ASSUME NEW i \in DOMAIN GraphList PROVE outer[i] \in Seq(OtherJob)
      <4>1. GraphList[i] \in STRING
        BY KnobsFacts
      <4> QED BY <2>2, <4>1
    <3>2. outer = [i \in DOMAIN GraphList |-> outer[i]]
      OBVIOUS
    <3> HIDE DEF outer
    <3> QED BY <3>1, <3>2, KnobsFacts, FlattenJobs
  <2>4. Absorb = FlattenSeq(outer)
    BY Zenon DEF Each
  <2> QED BY <2>3, <2>4
<1>2. Pes \in Seq(OtherJob)
  <2> DEFINE J(g, k) == [op |-> "pes", graph |-> g, pes |-> k]
             Inner(g) == [i \in DOMAIN PeCounts |-> <<J(g, PeCounts[i])>>]
             outer == [i \in DOMAIN GraphList |-> FlattenSeq(Inner(GraphList[i]))]
  <2>1. \A g \in STRING, k \in Nat : J(g, k) \in OtherJob
    BY DEF OtherJob
  <2>2. ASSUME NEW g \in STRING PROVE FlattenSeq(Inner(g)) \in Seq(OtherJob)
    <3> HIDE DEF J
    <3>1. ASSUME NEW i \in DOMAIN PeCounts PROVE Inner(g)[i] \in Seq(OtherJob)
      <4>1. PeCounts[i] \in Nat
        BY KnobsFacts
      <4>2. <<J(g, PeCounts[i])>> \in Seq(OtherJob)
        BY <2>1, <4>1, OneJob
      <4> QED BY <4>2
    <3>2. Inner(g) = [i \in DOMAIN PeCounts |-> Inner(g)[i]]
      OBVIOUS
    <3> HIDE DEF Inner
    <3> QED BY <3>1, <3>2, KnobsFacts, FlattenJobs
  <2>3. FlattenSeq(outer) \in Seq(OtherJob)
    <3> HIDE DEF Inner
    <3>1. ASSUME NEW i \in DOMAIN GraphList PROVE outer[i] \in Seq(OtherJob)
      <4>1. GraphList[i] \in STRING
        BY KnobsFacts
      <4> QED BY <2>2, <4>1
    <3>2. outer = [i \in DOMAIN GraphList |-> outer[i]]
      OBVIOUS
    <3> HIDE DEF outer
    <3> QED BY <3>1, <3>2, KnobsFacts, FlattenJobs
  <2>4. Pes = FlattenSeq(outer)
    BY Zenon DEF Each
  <2> QED BY <2>3, <2>4
<1>3. Jitter \in Seq(OtherJob)
  <2> DEFINE J(k) == [op |-> "jitter", knob |-> k]
             list == [i \in DOMAIN Jitters |-> <<J(Jitters[i])>>]
  <2>1. \A k \in STRING : J(k) \in OtherJob
    BY DEF OtherJob
  <2>2. ASSUME NEW i \in DOMAIN Jitters PROVE list[i] \in Seq(OtherJob)
    <3> HIDE DEF J
    <3>1. Jitters[i] \in STRING
      BY KnobsFacts
    <3>2. <<J(Jitters[i])>> \in Seq(OtherJob)
      BY <2>1, <3>1, OneJob
    <3> QED BY <3>2
  <2>3. list = [i \in DOMAIN Jitters |-> list[i]]
    OBVIOUS
  <2>4. Jitter = FlattenSeq(list)
    BY Zenon DEF Each
  <2> HIDE DEF list
  <2>5. FlattenSeq(list) \in Seq(OtherJob)
    BY <2>2, <2>3, KnobsFacts, FlattenJobs
  <2> QED BY <2>4, <2>5
<1>5. Open("absorb") \in Seq(OtherJob) /\ Open("jitter") \in Seq(OtherJob)
  BY DEF Open, OtherJob, OtherFiles, Files
<1>6. H2Jobs = Mkdir("h2") \o Open("absorb") \o Absorb
  BY DEF H2Jobs
<1>7. H3Jobs = Mkdir("h3") \o Pes \o Open("jitter") \o Jitter
  BY DEF H3Jobs
<1> HIDE DEF Absorb, Pes, Jitter
<1>8. Mkdir("h2") \in Seq(OtherJob) /\ Mkdir("h3") \in Seq(OtherJob)
  BY FolderJobs DEF Folders
<1> QED BY <1>1, <1>2, <1>3, <1>5, <1>6, <1>7, <1>8

LEMMA H1H4Jobs ==
  H1Jobs \in Seq(OtherJob) /\ H4Jobs \in Seq(OtherJob)
<1>1. \A f \in OtherFiles, k \in Seq(STRING) : Sweep(f, k) \in Seq(OtherJob)
  BY SweepJobs
<1>2. {"percentile", "sweep", "flush", "delay"} \subseteq OtherFiles
  BY DEF OtherFiles, Files
<1>3. /\ Sweep("percentile", Percentiles) \in Seq(OtherJob) /\ Sweep("sweep", Multipliers) \in Seq(OtherJob)
      /\ Sweep("flush", Intervals) \in Seq(OtherJob) /\ Sweep("delay", Delays) \in Seq(OtherJob)
  BY <1>1, <1>2, KnobsFacts
<1>4. Profiles("h1") \in Seq(OtherJob) /\ Profiles("h4") \in Seq(OtherJob)
  BY ProfileJobs DEF Folders
<1>5. Mkdir("h1") \in Seq(OtherJob) /\ Mkdir("h4") \in Seq(OtherJob)
  BY FolderJobs DEF Folders
<1>6. /\ H1Jobs = Mkdir("h1") \o Profiles("h1") \o Sweep("percentile", Percentiles)
                  \o Sweep("sweep", Multipliers)
      /\ H4Jobs = Mkdir("h4") \o Profiles("h4") \o Sweep("flush", Intervals) \o Sweep("delay", Delays)
  BY DEF H1Jobs, H4Jobs
<1>7. H1Jobs \in Seq(OtherJob)
  BY <1>3, <1>4, <1>5, <1>6, FourParts, Zenon
<1>8. H4Jobs \in Seq(OtherJob)
  BY <1>3, <1>4, <1>5, <1>6, FourParts, Zenon
<1> QED BY <1>7, <1>8

LEMMA OtherJobs ==
  ASSUME NEW s \in Settings, s.experiment # "ab"
  PROVE  JobsOf(s) \in Seq(OtherJob)
<1>1. s.experiment \in {"h1", "h2", "h3", "h4", "all"}
  BY HarnessAssumption
<1>2. H1Jobs \o H2Jobs \o H3Jobs \o H4Jobs \in Seq(OtherJob)
  BY H2H3Jobs, H1H4Jobs, FourParts, Zenon
<1>3. \/ JobsOf(s) = H1Jobs \/ JobsOf(s) = H2Jobs \/ JobsOf(s) = H3Jobs \/ JobsOf(s) = H4Jobs
      \/ JobsOf(s) = H1Jobs \o H2Jobs \o H3Jobs \o H4Jobs
  <2>1. CASE s.experiment = "h1"
    BY <2>1 DEF JobsOf
  <2>2. CASE s.experiment = "h2"
    BY <2>2 DEF JobsOf
  <2>3. CASE s.experiment = "h3"
    BY <2>3 DEF JobsOf
  <2>4. CASE s.experiment = "h4"
    BY <2>4 DEF JobsOf
  <2>5. CASE s.experiment = "all"
    BY <2>5 DEF JobsOf
  <2> QED BY <1>1, <2>1, <2>2, <2>3, <2>4, <2>5
<1> QED BY <1>2, <1>3, H2H3Jobs, H1H4Jobs

-----------------------------------------------------------------------------
(* The state of an A/B experiment *)

Plan == PlanOf(setting.reps)

Kept ==
  /\ setting \in Settings /\ inv \in Nat /\ at \in Nat \ {0} /\ ran \in {None, "ok", "failed"}
  /\ {"tsv", "log"} \subseteq DOMAIN outdir /\ "runs" \in DOMAIN outdir.tsv
  /\ outdir.tsv["runs"] \in Seq(RunRow) \cup {None}

\* The rows are those of the first runs of the plan.
RowsOfPlan ==
  /\ Len(Runs) <= Len(Plan)
  /\ \A k \in 1..Len(Runs) :
       /\ Runs[k].graph = Plan[k].graph /\ Runs[k].variant = Plan[k].variant
       /\ Runs[k].rep = Plan[k].rep /\ Runs[k].log = LogOf(Plan[k])

\* From the moment the summary is opened there is a row for each run before
\* the next one, and a run whose row is due has left its log.
InStep ==
  /\ \A k \in 1..Len(Plan) : LogOf(Plan[k]) \in DOMAIN outdir.log
  /\ at >= 3 => outdir.tsv["runs"] \in Seq(RunRow) /\ Len(Runs) = at - 3
  /\ ran # None =>
       /\ at >= 3 /\ at - 2 \in 1..Len(Plan)
       /\ LET log == outdir.log[LogOf(Plan[at - 2])]
          IN  log.inv = inv /\ (ran = "ok" <=> log.compute_s \in RunTimes)

HarnessInv ==
  /\ Kept
  /\ setting.experiment = "ab" => RowsOfPlan /\ InStep /\ RowsCiteTheirRun
  /\ setting.experiment # "ab" => Runs = <<>> /\ ran = None

LEMMA RunsAreRows ==
  ASSUME Kept
  PROVE  /\ Runs \in Seq(RunRow) /\ Len(Runs) \in Nat /\ DOMAIN Runs = 1..Len(Runs)
         /\ \A i \in 1..Len(Runs) : Runs[i] \in RunRow
<1>1. Runs \in Seq(RunRow)
  BY DEF Kept, Runs, Rows
<1> HIDE DEF Runs
<1> QED BY <1>1

LEMMA ABSettings ==
  ASSUME Kept, setting.experiment = "ab"
  PROVE  /\ setting.reps \in Nat /\ JobsOf(setting) = ABJobs(setting.reps)
         /\ Len(Plan) \in Nat /\ Len(JobsOf(setting)) = Len(Plan) + 2
         /\ Block(Plan, ToSet(WantedGraphs) \X (1..setting.reps))
<1>1. setting.reps \in Nat
  BY HarnessAssumption DEF Kept
<1>2. JobsOf(setting) = ABJobs(setting.reps)
  BY DEF JobsOf
<1> QED BY <1>1, <1>2, ABPlan, PlanFacts DEF Plan

LEMMA ABJobAt ==
  ASSUME Kept, setting.experiment = "ab", at <= Len(JobsOf(setting))
  PROVE  \/ at = 1 /\ Job.op = "mkdir"
         \/ at = 2 /\ Job.op = "open" /\ Job.file = "runs"
         \/ at >= 3 /\ at - 2 \in 1..Len(Plan) /\ Job = Plan[at - 2] /\ Job \in ABJob /\ Job.op = "ab"
<1>1. /\ setting.reps \in Nat /\ JobsOf(setting) = ABJobs(setting.reps)
      /\ Len(Plan) \in Nat /\ Len(JobsOf(setting)) = Len(Plan) + 2
  BY ABSettings
<1>2. Job = ABJobs(setting.reps)[at] /\ at \in Nat /\ at # 0
  BY <1>1 DEF Job, Kept
<1>3. /\ ABJobs(setting.reps)[1] = [op |-> "mkdir", sub |-> "ab"]
      /\ ABJobs(setting.reps)[2] = [op |-> "open", file |-> "runs"]
      /\ \A k \in 1..Len(Plan) : Plan[k] \in ABJob /\ ABJobs(setting.reps)[k + 2] = Plan[k]
  BY <1>1, ABPlan DEF Plan
<1>4. CASE at = 1
  BY <1>2, <1>3, <1>4
<1>5. CASE at = 2
  BY <1>2, <1>3, <1>5
<1>6. CASE at >= 3
  <2>1. at - 2 \in 1..Len(Plan) /\ (at - 2) + 2 = at
    BY <1>1, <1>2, <1>6
  <2>2. Job = Plan[at - 2] /\ Job \in ABJob
    BY <1>2, <1>3, <2>1
  <2> QED BY <1>6, <2>1, <2>2 DEF ABJob
<1> QED BY <1>2, <1>4, <1>5, <1>6

LEMMA OtherJobAt ==
  ASSUME Kept, setting.experiment # "ab", at <= Len(JobsOf(setting))
  PROVE  Job.op # "ab" /\ (Job.op \in {"open", "row"} => Job.file # "runs")
<1>1. JobsOf(setting) \in Seq(OtherJob)
  BY OtherJobs DEF Kept
<1>2. Job \in OtherJob
  <2> DEFINE J == JobsOf(setting)
  <2>1. at \in 1..Len(J)
    BY <1>1 DEF Kept
  <2> QED BY <1>1, <2>1 DEF Job
<1> QED BY <1>2 DEF OtherJob, OtherFiles

LEMMA LaterThanAll ==
  Max(RunTimes) + 2 \notin RunTimes
<1> DEFINE T == RunTimes
           c == Cardinality(T)
           m == Nth(T, c)
<1>1. T \in SUBSET Nat /\ IsFiniteSet(T) /\ T # {}
  BY HarnessAssumption
<1>2. c \in Nat /\ c # 0
  BY <1>1, FS_CardinalityType, FS_EmptySet
<1>3. m \in T /\ Cardinality({j \in T : j <= m}) = c
  BY <1>1, <1>2, NthFacts
<1>4. {j \in T : j <= m} = T
  <2>1. {j \in T : j <= m} \subseteq T
    OBVIOUS
  <2> QED BY <1>1, <1>3, <2>1, FS_Subset
<1>5. \E x \in T : \A y \in T : x >= y
  <2>1. \A y \in T : y <= m
    BY <1>4
  <2>2. \A y \in T : m >= y
    BY <1>1, <1>3, <2>1
  <2> QED BY <1>3, <2>2
<1> HIDE DEF T, m
<1>6. Max(T) \in T /\ \A y \in T : Max(T) >= y
  BY <1>5 DEF Max
<1>7. Max(T) + 2 \notin T
  <2>1. Max(T) \in Nat
    BY <1>1, <1>6
  <2>2. \A x \in Nat : ~(x >= x + 2)
    OBVIOUS
  <2> QED BY <1>6, <2>1, <2>2
<1> QED BY <1>7 DEF T

-----------------------------------------------------------------------------
(* Every step keeps the invariant *)

\* A sheet is set, and nothing else.
LEMMA SetSheet ==
  ASSUME NEW d, NEW e, NEW file, NEW x, "tsv" \in DOMAIN d, e = [d EXCEPT !.tsv[file] = x]
  PROVE  /\ DOMAIN e = DOMAIN d /\ DOMAIN e.tsv = DOMAIN d.tsv
         /\ file \in DOMAIN d.tsv => e.tsv[file] = x
         /\ \A f \in DOMAIN d.tsv : f # file => e.tsv[f] = d.tsv[f]
         /\ "log" \in DOMAIN d => e.log = d.log
OBVIOUS

\* What of the directory the invariant is about.
SameRuns == 
  /\ {"tsv", "log"} \subseteq DOMAIN outdir' /\ "runs" \in DOMAIN (outdir.tsv)'
  /\ (outdir.tsv)'["runs"] = outdir.tsv["runs"] /\ (outdir.log)' = outdir.log

LEMMA SheetOfOthers ==
  ASSUME Kept, NEW file, file # "runs", NEW x, outdir' = [outdir EXCEPT !.tsv[file] = x]
  PROVE  SameRuns
<1>1. "tsv" \in DOMAIN outdir /\ "log" \in DOMAIN outdir /\ "runs" \in DOMAIN outdir.tsv
  BY DEF Kept
<1> QED BY <1>1, SetSheet DEF SameRuns

\* Steps that write no run and no row of one.
LEMMA OtherStep ==
  ASSUME HarnessInv, Next, setting.experiment # "ab"
  PROVE  HarnessInv'
<1>1. Kept /\ Runs = <<>> /\ ran = None
  BY DEF HarnessInv
<1>2. "tsv" \in DOMAIN outdir /\ "log" \in DOMAIN outdir /\ "runs" \in DOMAIN outdir.tsv
  BY <1>1 DEF Kept
<1>3. at \in Nat /\ inv \in Nat
  BY <1>1 DEF Kept
<1>5. ASSUME SameRuns, setting' = setting, ran' = ran, at' \in Nat \ {0}, inv' \in Nat
      PROVE  HarnessInv'
  <2>1. outdir.tsv["runs"] \in Seq(RunRow) \cup {None}
    BY <1>1 DEF Kept
  <2>2. Kept'
    BY <1>1, <1>5, <2>1 DEF Kept, SameRuns
  <2>3. Runs' = Runs
    BY <1>5 DEF SameRuns, Runs
  <2> QED BY <1>1, <1>5, <2>2, <2>3 DEF HarnessInv
<1>6. ASSUME NEW op, Step(op), SameRuns PROVE HarnessInv'
  <2>1. setting' = setting /\ ran' = ran /\ inv' = inv /\ at' = at + 1
    BY <1>6 DEF Step
  <2> QED BY <1>3, <1>5, <1>6, <2>1
<1>7. CASE MakeDirectory
  <2>1. SameRuns
    BY <1>2, <1>7 DEF MakeDirectory, SameRuns
  <2> QED BY <1>6, <1>7, <2>1 DEF MakeDirectory
<1>8. CASE OpenSummary
  <2>1. Job.file # "runs"
    BY <1>1, <1>8, OtherJobAt DEF OpenSummary, Step, Doing
  <2>2. SameRuns
    BY <1>1, <1>8, <2>1, SheetOfOthers DEF OpenSummary
  <2> QED BY <1>6, <1>8, <2>2 DEF OpenSummary
<1>9. CASE Profile
  <2>1. SameRuns
    BY <1>2, <1>9 DEF Profile, SameRuns
  <2> QED BY <1>6, <1>9, <2>1 DEF Profile
<1>10. CASE TimedRow
  <2>1. Job.file # "runs"
    BY <1>1, <1>10, OtherJobAt DEF TimedRow, Step, Doing
  <2>2. SameRuns
    BY <1>1, <1>10, <2>1, SheetOfOthers DEF TimedRow, AppendRow
  <2> QED BY <1>6, <1>10, <2>2 DEF TimedRow
<1>11. CASE AbsorbRow
  <2>1. CASE UNCHANGED outdir
    BY <1>2, <1>6, <1>11, <2>1 DEF AbsorbRow, SameRuns
  <2>2. CASE \E c \in Counts :
          outdir' = AppendRow(outdir, "absorb", [graph |-> Job.graph, knob |-> Job.knob,
                                                 items |-> c[1], absorbable |-> c[2]])
    <3>1. SameRuns
      BY <1>1, <2>2, SheetOfOthers DEF AppendRow
    <3> QED BY <1>6, <1>11, <3>1 DEF AbsorbRow
  <2> QED BY <1>11, <2>1, <2>2 DEF AbsorbRow
<1>12. CASE PeRun
  <2>1. SameRuns
    BY <1>2, <1>12 DEF PeRun, SameRuns
  <2> QED BY <1>6, <1>12, <2>1 DEF PeRun
<1>13. CASE JitterRow
  <2>1. PICK lines, row :
          outdir' = AppendRow([outdir EXCEPT !.jitter_log[Job.knob] = lines], "jitter", row)
    BY <1>13 DEF JitterRow
  <2> DEFINE d == [outdir EXCEPT !.jitter_log[Job.knob] = lines]
  <2>2. DOMAIN d = DOMAIN outdir /\ d.tsv = outdir.tsv /\ d.log = outdir.log
    BY <1>2
  <2>3. outdir' = [d EXCEPT !.tsv["jitter"] = Append(@, row)]
    BY <2>1 DEF AppendRow
  <2> HIDE DEF d
  <2>4. SameRuns
    BY <1>2, <2>2, <2>3, SetSheet DEF SameRuns
  <2> QED BY <1>6, <1>13, <2>4 DEF JitterRow
<1>14. ~ABRun /\ ~ABRow
  BY <1>1, OtherJobAt DEF ABRun, ABRow, Doing
<1>15. CASE Rerun
  <2>1. SameRuns
    BY <1>2, <1>15 DEF Rerun, SameRuns
  <2>2. setting' = setting /\ ran' = ran /\ at' = 1 /\ inv' = inv + 1
    BY <1>1, <1>15 DEF Rerun
  <2> QED BY <1>3, <1>5, <2>1, <2>2
<1> QED BY <1>7, <1>8, <1>9, <1>10, <1>11, <1>12, <1>13, <1>14, <1>15 DEF Next

\* Two runs of the plan do not share a log.
LEMMA OwnLogs ==
  ASSUME Kept, setting.experiment = "ab", NEW k \in 1..Len(Plan), NEW l \in 1..Len(Plan),
         LogOf(Plan[k]) = LogOf(Plan[l])
  PROVE  k = l
<1>1. Block(Plan, ToSet(WantedGraphs) \X (1..setting.reps))
  BY ABSettings
<1>2. Plan[k] \in ABJob /\ Plan[l] \in ABJob
  BY <1>1 DEF Block
<1>3. Plan[k].graph = Plan[l].graph /\ Plan[k].variant = Plan[l].variant /\ Plan[k].rep = Plan[l].rep
  BY DEF LogOf
<1>4. Plan[k] = Plan[l]
  BY <1>2, <1>3 DEF ABJob
<1> QED BY <1>1, <1>4 DEF Block

LEMMA ABRunStep ==
  ASSUME HarnessInv, setting.experiment = "ab", ABRun
  PROVE  HarnessInv'
<1>1. Kept /\ RowsOfPlan /\ InStep /\ RowsCiteTheirRun
  BY DEF HarnessInv
<1>2. at <= Len(JobsOf(setting)) /\ Job.op = "ab" /\ ran = None
  BY DEF ABRun, Doing
<1>3. at >= 3 /\ at - 2 \in 1..Len(Plan) /\ Job = Plan[at - 2]
  BY <1>1, <1>2, ABJobAt
<1> DEFINE l == LogOf(Job)
<1>4. PICK outcome \in Outcomes :
        /\ outdir' = [outdir EXCEPT !.log[LogOf(Job)] =
                        [inv |-> inv,
                         compute_s |-> IF outcome = TimedOut THEN Max(RunTimes) + 2 ELSE outcome]]
        /\ ran' = IF Succeeds(outcome) THEN "ok" ELSE "failed"
  BY DEF ABRun
<1>5. setting' = setting /\ inv' = inv /\ at' = at /\ Plan' = Plan
  BY DEF ABRun, Plan
<1>6. "tsv" \in DOMAIN outdir /\ "log" \in DOMAIN outdir /\ "runs" \in DOMAIN outdir.tsv
  BY <1>1 DEF Kept
<1>7. l \in DOMAIN outdir.log
  BY <1>1, <1>3 DEF InStep
<1> DEFINE log == [inv |-> inv, compute_s |-> IF outcome = TimedOut THEN Max(RunTimes) + 2 ELSE outcome]
<1>8. /\ DOMAIN outdir' = DOMAIN outdir /\ (outdir.tsv)' = outdir.tsv
      /\ DOMAIN (outdir.log)' = DOMAIN outdir.log /\ (outdir.log)'[l] = log
      /\ \A x \in DOMAIN outdir.log : x # l => (outdir.log)'[x] = outdir.log[x]
  <2> HIDE DEF l, log
  <2>1. outdir' = [outdir EXCEPT !.log[l] = log]
    BY <1>4 DEF l, log
  <2> QED BY <1>6, <1>7, <2>1
<1>9. log.inv = inv /\ (ran' = "ok" <=> log.compute_s \in RunTimes) /\ ran' \in {"ok", "failed"}
  <2>1. CASE outcome \in RunTimes
    <3>1. outcome # TimedOut
      BY <2>1, HarnessAssumption
    <3> QED BY <1>4, <2>1, <3>1 DEF Succeeds
  <2>2. CASE outcome \notin RunTimes
    BY <1>4, <2>2, LaterThanAll DEF Succeeds
  <2> QED BY <2>1, <2>2
<1> HIDE DEF log
<1>10. Runs' = Runs
  BY <1>8 DEF Runs
<1>11. Kept'
  BY <1>1, <1>5, <1>8, <1>9 DEF Kept
<1>12. RowsOfPlan'
  BY <1>1, <1>5, <1>10 DEF RowsOfPlan
<1>13. InStep'
  <2>1. \A k \in 1..Len(Plan) : LogOf(Plan[k]) \in DOMAIN (outdir.log)'
    BY <1>1, <1>8 DEF InStep
  <2>2. outdir.tsv["runs"] \in Seq(RunRow) /\ Len(Runs) = at - 3
    BY <1>1, <1>3 DEF InStep
  <2>3. LET g == (outdir.log)'[LogOf(Plan[at - 2])]
        IN  g.inv = inv /\ (ran' = "ok" <=> g.compute_s \in RunTimes)
    BY <1>3, <1>8, <1>9
  <2> QED BY <1>3, <1>5, <1>8, <1>10, <2>1, <2>2, <2>3 DEF InStep
<1>14. RowsCiteTheirRun'
  <2>1. DOMAIN Runs = 1..Len(Runs) /\ Len(Runs) \in Nat /\ Len(Runs) = at - 3 /\ at \in Nat
    BY <1>1, <1>3, RunsAreRows DEF InStep, Kept
  <2>2. ASSUME NEW i \in DOMAIN Runs
        PROVE  (outdir.log)'[Runs[i].log] = outdir.log[Runs[i].log]
    <3>1. i \in 1..Len(Plan) /\ i # at - 2
      BY <1>3, <2>1
    <3>2. Runs[i].log = LogOf(Plan[i])
      BY <1>1, <2>1 DEF RowsOfPlan
    <3>3. Runs[i].log \in DOMAIN outdir.log
      BY <1>1, <3>1, <3>2 DEF InStep
    <3>4. Runs[i].log # l
      BY <1>1, <1>3, <3>1, <3>2, OwnLogs
    <3> QED BY <1>8, <3>3, <3>4
  <2> QED BY <1>1, <1>10, <2>2 DEF RowsCiteTheirRun
<1> QED BY <1>5, <1>11, <1>12, <1>13, <1>14 DEF HarnessInv

LEMMA ABRowStep ==
  ASSUME HarnessInv, setting.experiment = "ab", ABRow
  PROVE  HarnessInv'
<1>1. Kept /\ RowsOfPlan /\ InStep /\ RowsCiteTheirRun
  BY DEF HarnessInv
<1>2. at <= Len(JobsOf(setting)) /\ Job.op = "ab" /\ ran # None
  BY DEF ABRow, Doing
<1>3. at >= 3 /\ at - 2 \in 1..Len(Plan) /\ Job = Plan[at - 2] /\ Job \in ABJob
  BY <1>1, <1>2, ABJobAt
<1> DEFINE l == LogOf(Job)
           row == [graph |-> Job.graph, variant |-> Job.variant, rep |-> Job.rep,
                   status |-> ran, log |-> l, inv |-> inv]
<1>4. setting' = setting /\ inv' = inv /\ at' = at + 1 /\ ran' = None /\ Plan' = Plan
  BY DEF ABRow, Plan
<1>5. "tsv" \in DOMAIN outdir /\ "log" \in DOMAIN outdir /\ "runs" \in DOMAIN outdir.tsv
  BY <1>1 DEF Kept
<1>6. outdir.tsv["runs"] \in Seq(RunRow) /\ Runs = outdir.tsv["runs"] /\ Len(Runs) = at - 3
  BY <1>1, <1>3, HarnessAssumption DEF InStep, Runs, Rows
<1>7. row \in RunRow
  <2>1. ran \in {"ok", "failed"} /\ inv \in Nat
    BY <1>1, <1>2 DEF Kept
  <2>2. Job.graph \in STRING /\ Job.variant \in STRING /\ Job.rep \in Nat
    BY <1>3 DEF ABJob
  <2> QED BY <2>1, <2>2 DEF RunRow, LogOf
<1>8. /\ DOMAIN outdir' = DOMAIN outdir /\ DOMAIN (outdir.tsv)' = DOMAIN outdir.tsv
      /\ (outdir.tsv)'["runs"] = Append(Runs, row) /\ (outdir.log)' = outdir.log
  <2> HIDE DEF row
  <2>1. outdir' = [outdir EXCEPT !.tsv["runs"] = Append(@, row)]
    BY DEF ABRow, AppendRow, row
  <2> QED BY <1>5, <1>6, <2>1, SetSheet
<1>9. row.log = l /\ row.inv = inv /\ row.status = ran /\ row.graph = Job.graph
      /\ row.variant = Job.variant /\ row.rep = Job.rep
  OBVIOUS
<1> HIDE DEF row
<1> DEFINE n == at - 2
<1>10. /\ at \in Nat /\ n \in Nat /\ Len(Runs) + 1 = n /\ Runs \in Seq(RunRow)
  BY <1>1, <1>3, <1>6 DEF Kept
<1>11. /\ Append(Runs, row) \in Seq(RunRow) /\ Len(Append(Runs, row)) = n
       /\ \A i \in 1..Len(Runs) : Append(Runs, row)[i] = Runs[i]
       /\ Append(Runs, row)[n] = row
       /\ DOMAIN Append(Runs, row) = 1..n
  BY <1>7, <1>10
<1>12. Runs' = Append(Runs, row)
  BY <1>8, <1>11, HarnessAssumption DEF Runs, Rows
<1>13. \A i \in 1..n : i \in 1..Len(Runs) \/ i = n
  BY <1>10
<1>14. Kept'
  BY <1>1, <1>4, <1>8, <1>10, <1>11 DEF Kept
<1>15. RowsOfPlan'
  <2>1. ASSUME NEW k \in 1..n
        PROVE  /\ Runs'[k].graph = Plan[k].graph /\ Runs'[k].variant = Plan[k].variant
               /\ Runs'[k].rep = Plan[k].rep /\ Runs'[k].log = LogOf(Plan[k])
    <3>1. CASE k \in 1..Len(Runs)
      BY <1>1, <1>11, <1>12, <3>1 DEF RowsOfPlan
    <3>2. CASE k = n
      BY <1>3, <1>9, <1>11, <1>12, <3>2
    <3> QED BY <1>13, <3>1, <3>2
  <2>2. n <= Len(Plan)
    BY <1>3
  <2> QED BY <1>4, <1>11, <1>12, <2>1, <2>2 DEF RowsOfPlan
<1>16. InStep'
  <2>1. \A k \in 1..Len(Plan) : LogOf(Plan[k]) \in DOMAIN outdir.log
    BY <1>1 DEF InStep
  <2>2. at' - 3 = n
    BY <1>4, <1>10
  <2> QED BY <1>4, <1>8, <1>11, <1>12, <2>1, <2>2 DEF InStep
<1>17. RowsCiteTheirRun'
  <2>1. ASSUME NEW i \in 1..n
        PROVE  LET g == outdir.log[Runs'[i].log]
               IN  g.inv = Runs'[i].inv /\ (Runs'[i].status = "ok" <=> g.compute_s \in RunTimes)
    <3>1. CASE i \in 1..Len(Runs)
      <4>1. i \in DOMAIN Runs /\ Runs'[i] = Runs[i]
        BY <1>10, <1>11, <1>12, <3>1
      <4> QED BY <1>1, <4>1 DEF RowsCiteTheirRun
    <3>2. CASE i = n
      <4>1. Runs'[i] = row
        BY <1>11, <1>12, <3>2
      <4>2. LET g == outdir.log[l] IN g.inv = inv /\ (ran = "ok" <=> g.compute_s \in RunTimes)
        BY <1>1, <1>2, <1>3 DEF InStep
      <4> QED BY <1>9, <4>1, <4>2
    <3> QED BY <1>13, <3>1, <3>2
  <2> QED BY <1>8, <1>11, <1>12, <2>1 DEF RowsCiteTheirRun
<1> QED BY <1>4, <1>14, <1>15, <1>16, <1>17 DEF HarnessInv

LEMMA ABStep ==
  ASSUME HarnessInv, Next, setting.experiment = "ab"
  PROVE  HarnessInv'
<1>1. Kept /\ RowsOfPlan /\ InStep /\ RowsCiteTheirRun
  BY DEF HarnessInv
<1>2. "tsv" \in DOMAIN outdir /\ "log" \in DOMAIN outdir /\ "runs" \in DOMAIN outdir.tsv
  BY <1>1 DEF Kept
<1>3. at \in Nat /\ at # 0 /\ inv \in Nat
  BY <1>1 DEF Kept
<1>4. at < 3 => ran = None
  BY <1>1, <1>3 DEF InStep
<1>5. ASSUME SameRuns, setting' = setting, ran' = None, at' \in {1, 2}, inv' \in Nat
      PROVE  HarnessInv'
  <2>1. outdir.tsv["runs"] \in Seq(RunRow) \cup {None}
    BY <1>1 DEF Kept
  <2>2. Kept'
    BY <1>1, <1>5, <2>1 DEF Kept, SameRuns
  <2>3. Runs' = Runs /\ Plan' = Plan /\ ~(at' >= 3)
    BY <1>5 DEF SameRuns, Runs, Plan
  <2>4. InStep'
    BY <1>1, <1>5, <2>3 DEF InStep, SameRuns
  <2>5. RowsOfPlan' /\ RowsCiteTheirRun'
    BY <1>1, <1>5, <2>3 DEF RowsOfPlan, RowsCiteTheirRun, SameRuns
  <2> QED BY <1>5, <2>2, <2>4, <2>5 DEF HarnessInv
<1>6. CASE MakeDirectory
  <2>1. at = 1
    BY <1>1, <1>6, ABJobAt DEF MakeDirectory, Step, Doing
  <2>2. setting' = setting /\ ran' = None /\ inv' = inv /\ at' = 2
    BY <1>4, <1>6, <2>1 DEF MakeDirectory, Step
  <2>3. SameRuns
    BY <1>2, <1>6 DEF MakeDirectory, SameRuns
  <2> QED BY <1>3, <1>5, <2>2, <2>3
<1>7. CASE OpenSummary
  <2>1. at = 2 /\ Job.file = "runs"
    BY <1>1, <1>7, ABJobAt DEF OpenSummary, Step, Doing
  <2>2. setting' = setting /\ ran' = None /\ inv' = inv /\ at' = 3 /\ Plan' = Plan
    BY <1>4, <1>7, <2>1 DEF OpenSummary, Step, Plan
  <2>3. /\ DOMAIN outdir' = DOMAIN outdir /\ DOMAIN (outdir.tsv)' = DOMAIN outdir.tsv
        /\ (outdir.tsv)'["runs"] = <<>> /\ (outdir.log)' = outdir.log
    BY <1>2, <1>7, <2>1, SetSheet DEF OpenSummary
  <2>4. Runs' = <<>> /\ <<>> \in Seq(RunRow) /\ Len(<<>>) = 0
    BY <2>3 DEF Runs, Rows
  <2>5. Kept'
    BY <1>1, <2>2, <2>3, <2>4 DEF Kept
  <2>6. Len(Plan) \in Nat
    BY <1>1, ABSettings
  <2>7. RowsOfPlan'
    BY <2>2, <2>4, <2>6 DEF RowsOfPlan
  <2>8. InStep'
    BY <1>1, <2>2, <2>3, <2>4 DEF InStep
  <2>9. RowsCiteTheirRun'
    BY <2>4 DEF RowsCiteTheirRun
  <2> QED BY <2>2, <2>5, <2>7, <2>8, <2>9 DEF HarnessInv
<1>8. ~Profile /\ ~TimedRow /\ ~AbsorbRow /\ ~PeRun /\ ~JitterRow
  BY <1>1, ABJobAt DEF Profile, TimedRow, AbsorbRow, PeRun, JitterRow, Step, Doing
<1>9. CASE Rerun
  <2>1. SameRuns
    BY <1>2, <1>9 DEF Rerun, SameRuns
  <2>2. setting' = setting /\ ran' = None /\ at' = 1 /\ inv' = inv + 1
    BY <1>9 DEF Rerun
  <2> QED BY <1>3, <1>5, <2>1, <2>2
<1> QED BY <1>6, <1>7, <1>8, <1>9, ABRunStep, ABRowStep DEF Next

LEMMA HarnessStart ==
  ASSUME Init
  PROVE  HarnessInv
<1>1. /\ setting \in Settings /\ inv = 1 /\ at = 1 /\ ran = None
      /\ "tsv" \in DOMAIN outdir /\ "log" \in DOMAIN outdir
      /\ outdir.tsv = [f \in Files |-> None]
      /\ outdir.log = [l \in {LogOf(j) : j \in {j \in UNION {ToSet(JobsOf(s)) : s \in Settings} :
                                                   j.op = "ab"}} |-> None]
  BY DEF Init
<1>2. "runs" \in Files
  BY DEF Files
<1>3. Runs = <<>>
  BY <1>1, <1>2 DEF Runs, Rows
<1>4. Kept
  BY <1>1, <1>2 DEF Kept
<1>5. ASSUME setting.experiment = "ab" PROVE RowsOfPlan /\ InStep /\ RowsCiteTheirRun
  <2>1. /\ setting.reps \in Nat /\ JobsOf(setting) = ABJobs(setting.reps)
        /\ Len(Plan) \in Nat /\ Len(JobsOf(setting)) = Len(Plan) + 2
    BY <1>4, <1>5, ABSettings
  <2>2. ASSUME NEW k \in 1..Len(Plan) PROVE LogOf(Plan[k]) \in DOMAIN outdir.log
    <3>1. Plan[k] \in ABJob /\ JobsOf(setting)[k + 2] = Plan[k]
      BY <2>1, ABPlan DEF Plan
    <3> DEFINE J == JobsOf(setting)
    <3>2. k + 2 \in DOMAIN J
      BY <2>1, ABPlan DEF Plan
    <3> QED BY <1>1, <3>1, <3>2 DEF ToSet, ABJob
  <2> QED BY <1>1, <1>3, <2>1, <2>2 DEF RowsOfPlan, InStep, RowsCiteTheirRun
<1> QED BY <1>1, <1>3, <1>4, <1>5 DEF HarnessInv

-----------------------------------------------------------------------------
(* What the report makes of the rows *)

LEMMA CitedAlways ==
  ASSUME HarnessInv
  PROVE  RowsCiteTheirRun
BY DEF HarnessInv, RowsCiteTheirRun

LEMMA FirstNames ==
  ASSUME HarnessInv
  PROVE  BaselineFirst
<1> SUFFICES ASSUME Runs # <<>>
             PROVE  Order(Runs) # <<>> /\ Order(Runs)[1] = Variants[1]
  BY DEF BaselineFirst, Baseline
<1>1. setting.experiment = "ab" /\ Kept /\ RowsOfPlan
  BY DEF HarnessInv
<1>2. Runs \in Seq(RunRow) /\ Len(Runs) \in Nat /\ DOMAIN Runs = 1..Len(Runs)
  BY <1>1, RunsAreRows
<1>3. Len(Runs) > 0
  <2> HIDE DEF Runs
  <2> QED BY <1>2
<1>4. Runs[1].variant = Variants[1]
  <2>1. Len(Plan) \in Nat /\ Block(Plan, ToSet(WantedGraphs) \X (1..setting.reps))
    BY <1>1, ABSettings
  <2>2. Len(Runs) <= Len(Plan) /\ 1 \in 1..Len(Runs)
    BY <1>1, <1>2, <1>3 DEF RowsOfPlan
  <2>3. Len(Plan) > 0
    BY <1>2, <1>3, <2>1, <2>2
  <2> QED BY <1>1, <2>1, <2>2, <2>3 DEF RowsOfPlan, Block
<1> DEFINE F == Firsts(Runs)
<1>5. F \in SUBSET (1..Len(Runs)) /\ 1 \in F
  <2>1. 1 \in DOMAIN Runs /\ 1..(1 - 1) = {}
    BY <1>2, <1>3
  <2> QED BY <1>2, <2>1 DEF Firsts
<1> HIDE DEF F
<1>6. F \in SUBSET Nat /\ IsFiniteSet(F) /\ Cardinality(F) \in Nat /\ Cardinality(F) # 0
  <2>1. IsFiniteSet(1..Len(Runs))
    BY <1>2, FS_Interval
  <2>2. IsFiniteSet(F)
    BY <1>5, <2>1, FS_Subset
  <2>3. Cardinality(F) \in Nat /\ Cardinality(F) # 0
    BY <1>5, <2>2, FS_CardinalityType, FS_EmptySet
  <2> QED BY <1>5, <2>2, <2>3
<1>7. Nth(F, 1) = 1
  <2> DEFINE i == Nth(F, 1)
             B == {j \in F : j <= i}
  <2>1. 1 \in 1..Cardinality(F)
    BY <1>6
  <2>2. i \in F /\ Cardinality(B) = 1
    BY <1>6, <2>1, NthFacts
  <2>3. i \in 1..Len(Runs)
    BY <1>5, <2>2
  <2>4. 1 \in B /\ i \in B
    BY <1>5, <2>2, <2>3
  <2>5. IsFiniteSet(B)
    BY <1>6, FS_Subset
  <2>6. PICK x : B = {x}
    BY <2>2, <2>5, FS_Singleton
  <2> QED BY <2>4, <2>6
<1>8. Order(Runs) = [n \in 1..Cardinality(F) |-> Runs[Nth(F, n)].variant]
  BY DEF Order, F
<1>9. 1 \in DOMAIN Order(Runs) /\ Order(Runs)[1] = Variants[1]
  BY <1>4, <1>6, <1>7, <1>8
<1>10. Order(Runs) # <<>>
  <2>1. DOMAIN <<>> = {}
    OBVIOUS
  <2> QED BY <1>9, <2>1
<1> QED BY <1>9, <1>10

\* The rows of a variant on a graph.
RowsAt(g, v) == {i \in DOMAIN Runs : Runs[i].graph = g /\ Runs[i].variant = v}

LEMMA RowsAtFacts ==
  ASSUME Kept, NEW g, NEW v
  PROVE  /\ IsFiniteSet(RowsAt(g, v)) /\ Cardinality(RowsAt(g, v)) \in Nat
         /\ Of(Runs, g, v) \in Seq(RunRow)
         /\ Len(Of(Runs, g, v)) = Cardinality(RowsAt(g, v))
         /\ \A n \in DOMAIN Of(Runs, g, v) : \E i \in DOMAIN Runs : Of(Runs, g, v)[n] = Runs[i]
<1> DEFINE K == RowsAt(g, v)
           rows == [n \in 1..Cardinality(K) |-> Runs[Nth(K, n)]]
<1>1. Runs \in Seq(RunRow)
  BY RunsAreRows
<1>2. Of(Runs, g, v) = rows
  BY DEF Of, Select, RowsAt
<1>3. K \in SUBSET DOMAIN Runs
  BY DEF RowsAt
<1> HIDE DEF K
<1>4. /\ IsFiniteSet(K) /\ Cardinality(K) \in Nat
      /\ rows \in Seq(RunRow) /\ Len(rows) = Cardinality(K) /\ DOMAIN rows = 1..Cardinality(K)
      /\ \A n \in 1..Cardinality(K) : Nth(K, n) \in K /\ rows[n] = Runs[Nth(K, n)]
  BY <1>1, <1>3, SelectFacts
<1> HIDE DEF rows
<1> QED BY <1>2, <1>3, <1>4 DEF K

\* A repetition of one variant follows the one before it of every variant.
LEMMA Interleaved ==
  ASSUME HarnessInv, NEW g, NEW v \in ToSet(Variants), NEW w \in ToSet(Variants)
  PROVE  Cardinality(RowsAt(g, v)) <= Cardinality(RowsAt(g, w)) + 1
<1>1. CASE setting.experiment # "ab"
  <2>1. Runs = <<>>
    BY <1>1 DEF HarnessInv
  <2>2. RowsAt(g, v) = {} /\ RowsAt(g, w) = {}
    BY <2>1 DEF RowsAt
  <2>3. Cardinality(RowsAt(g, v)) = 0 /\ Cardinality(RowsAt(g, w)) = 0
    BY <2>2, FS_EmptySet
  <2> QED BY <2>3
<1>2. CASE setting.experiment = "ab"
  <2>1. Kept /\ RowsOfPlan
    BY <1>2 DEF HarnessInv
  <2>2. /\ Len(Plan) \in Nat /\ Block(Plan, ToSet(WantedGraphs) \X (1..setting.reps))
        /\ setting.reps \in Nat
    BY <1>2, <2>1, ABSettings
  <2>3. /\ DOMAIN Runs = 1..Len(Runs) /\ Len(Runs) \in Nat /\ Len(Runs) <= Len(Plan)
        /\ \A i \in DOMAIN Runs : Runs[i].rep \in Nat
    <3>1. \A i \in 1..Len(Runs) : Runs[i] \in RunRow
      BY <2>1, RunsAreRows
    <3> QED BY <2>1, <3>1, RunsAreRows DEF RowsOfPlan, RunRow
  <2>4. \A i \in DOMAIN Runs :
          /\ i \in 1..Len(Plan)
          /\ Runs[i].graph = Plan[i].graph /\ Runs[i].variant = Plan[i].variant
          /\ Runs[i].rep = Plan[i].rep /\ Plan[i].rep \in 1..setting.reps
    <3>1. \A i \in DOMAIN Runs : i \in 1..Len(Plan)
      BY <2>2, <2>3
    <3> QED BY <2>1, <2>2, <2>3, <3>1 DEF RowsOfPlan, Block
  <2>5. ASSUME NEW x, NEW i \in RowsAt(g, x), NEW j \in RowsAt(g, x), Runs[i].rep = Runs[j].rep
        PROVE  i = j
    <3>1. i \in DOMAIN Runs /\ j \in DOMAIN Runs
      BY DEF RowsAt
    <3>2. LogOf(Plan[i]) = LogOf(Plan[j])
      BY <2>4, <2>5, <3>1 DEF RowsAt, LogOf
    <3> QED BY <1>2, <2>1, <2>4, <3>1, <3>2, OwnLogs
  <2> DEFINE A == RowsAt(g, v)
             B == RowsAt(g, w)
             later == {i \in A : Runs[i].rep > 1}
             Before(i) == CHOOSE l \in B : Runs[l].rep = Runs[i].rep - 1
             h == [i \in later |-> Before(i)]
  <2>6. ASSUME NEW i \in later PROVE Before(i) \in B /\ Runs[Before(i)].rep = Runs[i].rep - 1
    <3>1. i \in DOMAIN Runs /\ Runs[i].graph = g /\ Runs[i].rep > 1
      BY DEF RowsAt
    <3>2. Plan[i].rep > 1 /\ i \in 1..Len(Plan) /\ Plan[i].graph = g
      BY <2>4, <3>1
    <3>3. PICK l \in 1..Len(Plan) :
            l < i /\ Plan[l].graph = g /\ Plan[l].variant = w /\ Plan[l].rep = Plan[i].rep - 1
      BY <2>2, <3>2, PlanFacts DEF Plan
    <3>4. l \in DOMAIN Runs
      BY <2>3, <3>1, <3>3
    <3>5. l \in B /\ Runs[l].rep = Runs[i].rep - 1
      BY <2>4, <3>1, <3>3, <3>4 DEF RowsAt
    <3> QED BY <3>5
  <2>7. IsFiniteSet(A) /\ Cardinality(A) \in Nat /\ IsFiniteSet(B) /\ Cardinality(B) \in Nat
    BY <2>1, RowsAtFacts
  <2>8. h \in Injection(later, B)
    <3>1. h \in [later -> B]
      BY <2>6
    <3>2. ASSUME NEW i \in later, NEW j \in later, h[i] = h[j] PROVE i = j
      <4>1. Runs[i].rep - 1 = Runs[j].rep - 1
        BY <2>6, <3>2
      <4>2. Runs[i].rep \in Nat /\ Runs[j].rep \in Nat
        BY <2>3 DEF RowsAt
      <4>3. Runs[i].rep = Runs[j].rep
        BY <4>1, <4>2
      <4>4. i \in RowsAt(g, v) /\ j \in RowsAt(g, v)
        OBVIOUS
      <4> HIDE DEF A, later
      <4> QED BY <2>5, <4>3, <4>4
    <3> QED BY <3>1, <3>2 DEF Injection, IsInjective
  <2>9. IsFiniteSet(later) /\ Cardinality(later) \in Nat /\ Cardinality(later) <= Cardinality(B)
    BY <2>7, <2>8, FS_Injection, FS_CardinalityType
  <2>10. \A i, j \in A \ later : i = j
    <3>1. ASSUME NEW i \in A \ later PROVE Runs[i].rep = 1
      BY <2>2, <2>4 DEF RowsAt
    <3> HIDE DEF later
    <3> QED BY <2>5, <3>1
  <2>11. Cardinality(A) <= Cardinality(later) + 1
    <3>1. CASE A = later
      <4> HIDE DEF A, later
      <4> QED BY <2>9, <3>1
    <3>2. CASE A # later
      <4>1. PICK i : i \in A \ later
        BY <3>2
      <4>2. A = later \cup {i} /\ i \notin later
        BY <2>10, <4>1
      <4> HIDE DEF A, later
      <4>3. Cardinality(later \cup {i}) = Cardinality(later) + 1
        BY <2>9, <4>2, FS_AddElement
      <4> QED BY <2>9, <4>2, <4>3
    <3> QED BY <3>1, <3>2
  <2> HIDE DEF later
  <2> QED BY <2>7, <2>9, <2>11
<1> QED BY <1>1, <1>2

LEMMA AllCounted ==
  ASSUME HarnessInv
  PROVE  EveryRunCounted
<1>1. Kept /\ RowsCiteTheirRun
  BY CitedAlways DEF HarnessInv
<1> SUFFICES ASSUME NEW g, NEW v
             PROVE  /\ Len(Samples(Runs, outdir.log, g, v)) + Failed(Runs, g, v) = Len(Of(Runs, g, v))
                    /\ ToSet(Samples(Runs, outdir.log, g, v)) \subseteq RunTimes
  BY DEF EveryRunCounted
<1> DEFINE O == Of(Runs, g, v)
           ok == {n \in DOMAIN O : O[n].status = "ok" /\ outdir.log[O[n].log].compute_s # None}
           bad == {n \in DOMAIN O : O[n].status # "ok"}
           done == [n \in 1..Cardinality(ok) |-> O[Nth(ok, n)]]
           failed == [n \in 1..Cardinality(bad) |-> O[Nth(bad, n)]]
<1>2. /\ O \in Seq(RunRow)
      /\ \A n \in DOMAIN O : \E i \in DOMAIN Runs : O[n] = Runs[i]
  BY <1>1, RowsAtFacts
<1>3. /\ Samples(Runs, outdir.log, g, v) = [n \in DOMAIN done |-> outdir.log[done[n].log].compute_s]
      /\ Failed(Runs, g, v) = Len(failed)
  BY DEF Samples, Failed, Select
<1> HIDE DEF O
<1>4. DOMAIN O = 1..Len(O) /\ Len(O) \in Nat
  BY <1>2
<1>5. \A n \in DOMAIN O : O[n].status = "ok" => outdir.log[O[n].log].compute_s \in RunTimes
  BY <1>1, <1>2 DEF RowsCiteTheirRun
<1>6. ok \cup bad = DOMAIN O /\ ok \cap bad = {}
  BY <1>5, HarnessAssumption
<1>7. /\ \A n \in ok : outdir.log[O[n].log].compute_s \in RunTimes
      /\ ok \in SUBSET DOMAIN O /\ bad \in SUBSET DOMAIN O
  BY <1>5
<1> HIDE DEF ok, bad
<1>8. /\ IsFiniteSet(ok) /\ Cardinality(ok) \in Nat /\ DOMAIN done = 1..Cardinality(ok)
      /\ \A n \in 1..Cardinality(ok) : Nth(ok, n) \in ok /\ done[n] = O[Nth(ok, n)]
  BY <1>2, <1>7, SelectFacts
<1>9. IsFiniteSet(bad) /\ Cardinality(bad) \in Nat /\ Len(failed) = Cardinality(bad)
  <2>1. IsFiniteSet(1..Len(O)) /\ bad \in SUBSET (1..Len(O))
    BY <1>4, <1>7, FS_Interval
  <2>2. IsFiniteSet(bad) /\ Cardinality(bad) \in Nat
    BY <2>1, FS_Subset, FS_CardinalityType
  <2> QED BY <2>2
<1>10. Cardinality(ok) + Cardinality(bad) = Len(O)
  <2>1. Cardinality(ok \cup bad) = Cardinality(ok) + Cardinality(bad) - Cardinality({})
    <3>1. Cardinality(ok \cup bad) = Cardinality(ok) + Cardinality(bad) - Cardinality(ok \cap bad)
      BY <1>8, <1>9, FS_Union
    <3> QED BY <1>6, <3>1
  <2>2. Cardinality({}) = 0
    BY FS_EmptySet
  <2>3. Cardinality(1..Len(O)) = Len(O)
    <3> DEFINE m == Len(O)
    <3>1. m \in Nat
      BY <1>4
    <3> HIDE DEF m
    <3>2. Cardinality(1..m) = IF 1 > m THEN 0 ELSE m - 1 + 1
      BY <3>1, FS_Interval
    <3>3. Cardinality(1..m) = m
      BY <3>1, <3>2
    <3> QED BY <3>3 DEF m
  <2>4. Cardinality(ok \cup bad) = Len(O)
    BY <1>4, <1>6, <2>3
  <2> QED BY <1>4, <1>8, <1>9, <2>1, <2>2, <2>4
<1> DEFINE samples == [n \in DOMAIN done |-> outdir.log[done[n].log].compute_s]
<1>11. \A n \in 1..Cardinality(ok) : samples[n] \in RunTimes
  BY <1>7, <1>8
<1>12. Len(samples) = Cardinality(ok) /\ DOMAIN samples = 1..Cardinality(ok)
  BY <1>8
<1>13. ToSet(samples) \subseteq RunTimes
  <2> HIDE DEF samples
  <2> QED BY <1>11, <1>12 DEF ToSet
<1> HIDE DEF samples, done, failed
<1>14. Len(samples) + Len(failed) = Len(O)
  BY <1>8, <1>9, <1>10, <1>12
<1> QED BY <1>3, <1>13, <1>14 DEF O, samples

-----------------------------------------------------------------------------
(* The tables made of a dump *)

\* The folds of the report are sums.
LEMMA TotalIsSum ==
  ASSUME NEW s
  PROVE  Total(s) = Sum(s, DOMAIN s)
BY DEF Total, FoldSeq, FoldFunction, FoldFunctionOnSet, Sum, MapThenSumSet, MapThenFoldSet

LEMMA PartIsSum ==
  ASSUME NEW s, NEW S
  PROVE  FoldFunctionOnSet(LAMBDA x, y : x + y, 0, s, S) = Sum(s, S)
BY DEF FoldFunctionOnSet, Sum, MapThenSumSet, MapThenFoldSet

LEMMA LeastOf ==
  ASSUME NEW T \in SUBSET Nat, T # {}
  PROVE  Min(T) \in T /\ \A y \in T : Min(T) <= y
BY LeastNatural DEF Min

\* The total of a stretch of a list is the sum over its positions.
LEMMA StretchIsSum ==
  ASSUME NEW s \in Seq(Int), NEW n \in 0..Len(s)
  PROVE  Total(SubSeq(s, 1, n)) = Sum(s, 1..n)
<1> DEFINE part == SubSeq(s, 1, n)
<1>1. n \in Nat /\ part \in Seq(Int) /\ DOMAIN part = 1..n /\ \A i \in 1..n : part[i] = s[i] /\ s[i] \in Int
  OBVIOUS
<1> HIDE DEF part
<1>2. IsFiniteSet(1..n)
  BY <1>1, FS_Interval
<1>3. Sum(part, 1..n) = Sum(s, 1..n)
  BY <1>1, <1>2, SumAlike
<1> QED BY <1>1, <1>3, TotalIsSum DEF part

\* Differences of neighbours add up to that of the ends.
Steps(d, x, n) == \A i \in 1..n : d[i] = x[i + 1] - x[i]

LEMMA Telescope ==
  ASSUME NEW n \in Nat, NEW x \in [1..(n + 1) -> Int], NEW d \in [1..n -> Int],
         Steps(d, x, n)
  PROVE  Sum(d, 1..n) = x[n + 1] - x[1]
<1> DEFINE Wrong(m) == Sum(d, 1..m) # x[m + 1] - x[1]
           Bad == {m \in 0..n : Wrong(m)}
<1>0. \A i \in 1..n : d[i] \in Int
  OBVIOUS
<1>1. ~Wrong(0)
  <2>1. 1..0 = {} /\ x[1] \in Int /\ 0 + 1 = 1
    OBVIOUS
  <2>2. \A z \in Int : z - z = 0
    OBVIOUS
  <2> QED BY <2>1, <2>2, SumEmpty
<1>2. Bad = {}
  <2> SUFFICES ASSUME Bad # {} PROVE FALSE
    OBVIOUS
  <2>1. PICK m \in Bad : \A k \in Bad : m <= k
    <3>1. Bad \in SUBSET Nat
      OBVIOUS
    <3> HIDE DEF Bad
    <3> QED BY <3>1, LeastNatural
  <2>2. m \in 1..n /\ Wrong(m)
    <3>1. m \in 0..n /\ Wrong(m)
      BY <2>1
    <3> HIDE DEF Wrong, Bad
    <3> QED BY <1>1, <3>1
  <2>3. m - 1 \in 0..n /\ ~(m <= m - 1)
    <3> HIDE DEF Bad
    <3> QED BY <2>2
  <2>4. ~Wrong(m - 1)
    <3> HIDE DEF Wrong
    <3> QED BY <2>1, <2>3
  <2>5. Sum(d, 1..m) = d[m] + Sum(d, 1..(m - 1))
    <3> HIDE DEF Bad
    <3>1. m \in Int /\ m \in 1..m /\ (1..m) \ {m} = 1..(m - 1) /\ \A i \in 1..m : i \in 1..n
      BY <2>2
    <3>2. IsFiniteSet(1..m)
      BY <3>1, FS_Interval
    <3>3. \A i \in 1..m : d[i] \in Int
      BY <1>0, <3>1
    <3>4. Sum(d, 1..m) = d[m] + Sum(d, (1..m) \ {m})
      BY <3>1, <3>2, <3>3, SumRemove
    <3> QED BY <3>1, <3>4
  <2>6. d[m] = x[m + 1] - x[m] /\ x[m + 1] \in Int /\ x[m] \in Int /\ x[1] \in Int /\ m - 1 + 1 = m
    BY <2>2 DEF Steps
  <2>7. \A a, b, c \in Int : (a - b) + (b - c) = a - c
    OBVIOUS
  <2>8. (x[m + 1] - x[m]) + (x[m] - x[1]) = x[m + 1] - x[1]
    BY <2>6, <2>7
  <2> HIDE DEF Bad
  <2> QED BY <2>2, <2>4, <2>5, <2>6, <2>8
<1> QED BY <1>2

\* The tail's periods add up to the time from its first round to the last.
LEMMA TailFacts ==
  ASSUME NEW rounds \in Seq(RoundRow), Len(rounds) >= 2
  PROVE  TailRow(rounds).tail_mean[1] = TailRow(rounds).time
<1> DEFINE N == Len(rounds)
           start == TailStart(rounds)
           done == Progress(rounds)
           late == {i \in DOMAIN done : 100 * done[i] >= 99 * Last(done)}
           tail == TailPeriods(rounds)
           n == N - 1 - start
<1>1. N \in Nat /\ N >= 2 /\ DOMAIN rounds = 1..N /\ \A i \in 1..N : rounds[i].t \in Int
  <2>1. N \in Nat /\ N >= 2 /\ DOMAIN rounds = 1..N /\ \A i \in 1..N : rounds[i] \in RoundRow
    OBVIOUS
  <2>2. \A r \in RoundRow : r.t \in Int
    BY DEF RoundRow
  <2> QED BY <2>1, <2>2
<1>2. DOMAIN done = 1..N
  BY DEF Progress, Column
<1>3. start \in 0..(N - 1)
  <2>1. CASE late = {}
    BY <1>1, <2>1 DEF TailStart
  <2>2. CASE late # {}
    <3>1. late \in SUBSET (1..N) /\ late \in SUBSET Nat
      BY <1>1, <1>2
    <3> HIDE DEF late
    <3>2. Min(late) \in late
      BY <2>2, <3>1, LeastOf
    <3>3. Min(late) \in 1..N
      BY <3>1, <3>2
    <3>4. start = Min(late) - 1
      BY <2>2 DEF TailStart, late
    <3> QED BY <1>1, <3>3, <3>4
  <2> QED BY <2>1, <2>2
<1> HIDE DEF late, done, start
<1>4. n \in Nat /\ start \in Nat
  BY <1>1, <1>3
<1>5. Periods(rounds) \in Seq(Int) /\ Len(Periods(rounds)) = N - 1
      /\ \A i \in 1..(N - 1) : Periods(rounds)[i] = rounds[i + 1].t - rounds[i].t
  <2>1. ASSUME NEW i \in 1..(N - 1) PROVE rounds[i + 1].t - rounds[i].t \in Int
    <3>1. i \in 1..N /\ i + 1 \in 1..N
      BY <1>1
    <3>2. rounds[i].t \in Int /\ rounds[i + 1].t \in Int
      BY <1>1, <3>1
    <3> QED BY <3>2
  <2>2. N - 1 \in Nat
    BY <1>1
  <2> HIDE DEF N
  <2> QED BY <2>1, <2>2 DEF Periods, N
<1>6. DOMAIN tail = 1..n /\ Len(tail) = n /\ tail \in Seq(Int)
      /\ \A i \in 1..n : tail[i] = rounds[start + i + 1].t - rounds[start + i].t
  <2>1. tail = SubSeq(Periods(rounds), start + 1, N - 1)
    BY DEF TailPeriods, start
  <2> DEFINE P == Periods(rounds)
  <2>2. P \in Seq(Int) /\ Len(P) = N - 1 /\ \A i \in 1..(N - 1) : P[i] = rounds[i + 1].t - rounds[i].t
    BY <1>5
  <2> HIDE DEF P, N
  <2>3. /\ Len(SubSeq(P, start + 1, N - 1)) = n /\ SubSeq(P, start + 1, N - 1) \in Seq(Int)
        /\ \A i \in 1..n : SubSeq(P, start + 1, N - 1)[i] = P[start + i]
    BY <1>1, <1>3, <1>4, <2>2
  <2>4. \A i \in 1..n : start + i \in 1..(N - 1)
    BY <1>1, <1>3, <1>4
  <2> QED BY <2>1, <2>2, <2>3, <2>4 DEF P
<1>7. Total(tail) = rounds[N].t - rounds[start + 1].t
  <2> DEFINE x == [i \in 1..(n + 1) |-> rounds[start + i].t]
  <2>1. \A i \in 1..(n + 1) : start + i \in 1..N
    BY <1>1, <1>3, <1>4
  <2>2. \A i \in 1..(n + 1) : x[i] \in Int
    BY <1>1, <2>1
  <2>3. \A i \in 1..n : i \in 1..(n + 1) /\ i + 1 \in 1..(n + 1) /\ start + (i + 1) = start + i + 1
    BY <1>4
  <2>4. Steps(tail, x, n)
    BY <1>6, <2>3 DEF Steps
  <2>5. x[n + 1] = rounds[N].t /\ x[1] = rounds[start + 1].t
    <3>1. n + 1 \in 1..(n + 1) /\ 1 \in 1..(n + 1) /\ start + (n + 1) = N
      BY <1>1, <1>3, <1>4
    <3> QED BY <3>1
  <2> HIDE DEF x, tail, n
  <2>6. Sum(tail, 1..n) = x[n + 1] - x[1]
    <3>1. n \in Nat
      BY <1>4
    <3>2. x \in [1..(n + 1) -> Int] /\ tail \in [1..n -> Int]
      BY <1>6, <2>2 DEF x
    <3> QED BY <2>4, <3>1, <3>2, Telescope
  <2> QED BY <1>6, <2>5, <2>6, TotalIsSum
<1>8. TailRow(rounds).time = rounds[N].t - rounds[start + 1].t
  BY DEF TailRow, Last, start
<1>9. TailRow(rounds).tail_mean[1] = Total(tail)
  <2>1. CASE tail = <<>>
    <3>1. TailRow(rounds).tail_mean[1] = 0
      BY <2>1 DEF TailRow
    <3>2. Total(tail) = 0
      BY <2>1, TotalIsSum, SumEmpty
    <3> QED BY <3>1, <3>2
  <2>2. CASE tail # <<>>
    BY <2>2 DEF TailRow, Mean
  <2> QED BY <2>1, <2>2
<1> QED BY <1>7, <1>8, <1>9

\* Positions are taken in their order, and all of them.
LEMMA NthOrdered ==
  ASSUME NEW K \in SUBSET Nat, IsFiniteSet(K)
  PROVE  /\ \A m, n \in 1..Cardinality(K) : m < n => Nth(K, m) < Nth(K, n)
         /\ K = {Nth(K, n) : n \in 1..Cardinality(K)}
<1> DEFINE c == Cardinality(K)
           Below(i) == {j \in K : j <= i}
           nth == [n \in 1..c |-> Nth(K, n)]
<1>1. /\ c \in Nat
      /\ \A n \in 1..c : Nth(K, n) \in K /\ Cardinality(Below(Nth(K, n))) = n
      /\ \A m, n \in 1..c : Nth(K, m) = Nth(K, n) => m = n
  BY NthFacts
<1>2. ASSUME NEW m \in 1..c, NEW n \in 1..c, m < n PROVE Nth(K, m) < Nth(K, n)
  <2>1. Nth(K, m) \in Nat /\ Nth(K, n) \in Nat
    BY <1>1
  <2>2. SUFFICES ASSUME Nth(K, n) <= Nth(K, m) PROVE FALSE
    BY <2>1
  <2>3. Below(Nth(K, n)) \subseteq Below(Nth(K, m))
    <3>1. \A j \in K : j \in Nat
      OBVIOUS
    <3>2. \A j \in K : j <= Nth(K, n) => j <= Nth(K, m)
      BY <2>1, <2>2, <3>1
    <3> QED BY <3>2
  <2>4. IsFiniteSet(Below(Nth(K, m)))
    BY FS_Subset
  <2>5. Cardinality(Below(Nth(K, n))) <= Cardinality(Below(Nth(K, m)))
    BY <2>3, <2>4, FS_Subset
  <2>6. n <= m
    BY <1>1, <2>5
  <2> QED BY <1>2, <2>6
<1>3. nth \in Injection(1..c, K)
  BY <1>1 DEF Injection, IsInjective
<1>4. nth \in Surjection(1..c, K)
  <2>1. IsFiniteSet(1..c) /\ Cardinality(1..c) = c
    BY <1>1, FS_Interval
  <2> QED BY <1>3, <2>1, FS_Injection
<1>5. \A i \in K : \E n \in 1..c : nth[n] = i
  BY <1>4 DEF Surjection
<1>6. \A n \in 1..c : nth[n] = Nth(K, n) /\ Nth(K, n) \in K
  BY <1>1
<1> HIDE DEF nth
<1>7. K = {Nth(K, n) : n \in 1..c}
  BY <1>5, <1>6
<1> QED BY <1>2, <1>7

LEMMA ListOf ==
  ASSUME NEW S, NEW n \in Nat, NEW f, f = [i \in 1..n |-> f[i]], \A i \in 1..n : f[i] \in S
  PROVE  f \in Seq(S) /\ Len(f) = n /\ DOMAIN f = 1..n
<1>1. f \in [1..n -> S]
  OBVIOUS
<1> QED BY <1>1

\* From the busiest class down: the rows are sums over the classes taken so far.
LEMMA ConcentrationSums ==
  ASSUME NEW arr \in Seq(ClassRow)
  PROVE  LET N == Len(arr)
             v == [i \in 1..N |-> arr[i].vertices]
             a == [i \in 1..N |-> arr[i].arrivals]
             kept == {i \in 1..N : v[i] # 0}
             rows == Concentration(arr)
         IN  /\ \A i \in 1..N : v[i] \in Nat /\ a[i] \in Nat
             /\ Len(rows) \in Nat /\ DOMAIN rows = 1..Len(rows)
             /\ \A n \in 1..Len(rows) :
                  \E top \in SUBSET kept :
                    /\ rows[n].vertices = <<Sum(v, top), Sum(v, 1..N)>>
                    /\ rows[n].arrivals = <<Sum(a, top), Sum(a, 1..N)>>
                    /\ \A i \in top, l \in kept \ top : l < i
                    /\ n = Len(rows) => top = kept
<1> DEFINE N == Len(arr)
           v == [i \in 1..N |-> arr[i].vertices]
           a == [i \in 1..N |-> arr[i].arrivals]
           kept == {i \in 1..N : v[i] # 0}
           rev == Reverse(arr)
           K == {i \in DOMAIN rev : rev[i].vertices # 0}
           c == Cardinality(K)
           busy == [n \in 1..c |-> rev[Nth(K, n)]]
           q == [n \in 1..c |-> N + 1 - Nth(K, n)]
<1>1. N \in Nat /\ DOMAIN arr = 1..N /\ \A i \in 1..N : arr[i] \in ClassRow
  OBVIOUS
<1>2. \A i \in 1..N : /\ v[i] = arr[i].vertices /\ a[i] = arr[i].arrivals
                      /\ v[i] \in Nat /\ a[i] \in Nat
  <2>1. \A r \in ClassRow : r.vertices \in Nat /\ r.arrivals \in Nat
    BY DEF ClassRow
  <2> QED BY <1>1, <2>1
<1>3. /\ rev \in Seq(ClassRow) /\ Len(rev) = N /\ DOMAIN rev = 1..N
      /\ \A i \in 1..N : N + 1 - i \in 1..N /\ rev[i] = arr[N + 1 - i]
  <2>1. rev = [i \in 1..N |-> arr[(N - i) + 1]]
    BY DEF Reverse
  <2>2. \A i \in 1..N : (N - i) + 1 = N + 1 - i /\ N + 1 - i \in 1..N
    BY <1>1
  <2> HIDE DEF N, rev
  <2> QED BY <1>1, <2>1, <2>2
<1>4. K \in SUBSET (1..N) /\ IsFiniteSet(K) /\ K \in SUBSET Nat
  <2>1. K \in SUBSET (1..N) /\ IsFiniteSet(1..N)
    BY <1>1, <1>3, FS_Interval
  <2> QED BY <1>1, <2>1, FS_Subset
<1> HIDE DEF N, v, a, rev
<1>5. /\ c \in Nat /\ \A n \in 1..c : Nth(K, n) \in K
      /\ \A m, n \in 1..c : m < n => Nth(K, m) < Nth(K, n)
      /\ K = {Nth(K, n) : n \in 1..c}
  <2>1. c \in Nat /\ \A n \in 1..c : Nth(K, n) \in K
    BY <1>4, NthFacts
  <2> HIDE DEF K
  <2> QED BY <1>4, <2>1, NthOrdered
<1>6. Select(Reverse(arr), LAMBDA x : x.vertices # 0) = busy
  BY Zenon DEF Select, rev
<1>7. /\ busy \in Seq(ClassRow) /\ Len(busy) = c /\ DOMAIN busy = 1..c
      /\ \A n \in 1..c : busy[n] = arr[q[n]] /\ q[n] \in 1..N /\ v[q[n]] # 0
  <2>1. \A n \in 1..c : /\ Nth(K, n) \in 1..N /\ rev[Nth(K, n)].vertices # 0
                        /\ q[n] = N + 1 - Nth(K, n)
    BY <1>3, <1>5
  <2>2. \A n \in 1..c : busy[n] = rev[Nth(K, n)]
    OBVIOUS
  <2> HIDE DEF q, busy, K
  <2>3. \A n \in 1..c : rev[Nth(K, n)] = arr[q[n]] /\ q[n] \in 1..N
    BY <1>3, <2>1
  <2>4. busy \in Seq(ClassRow) /\ Len(busy) = c /\ DOMAIN busy = 1..c
    <3>1. \A n \in 1..c : busy[n] \in ClassRow
      BY <1>1, <2>2, <2>3
    <3>2. busy = [n \in 1..c |-> busy[n]]
      BY DEF busy
    <3> HIDE DEF c
    <3> QED BY <1>5, <3>1, <3>2, ListOf
  <2> QED BY <1>2, <2>1, <2>2, <2>3, <2>4
<1>8. \A m, n \in 1..c : m < n => q[n] < q[m]
  <2>1. \A n \in 1..c : Nth(K, n) \in Nat
    BY <1>4, <1>5
  <2> HIDE DEF K
  <2> QED BY <1>1, <1>5, <2>1
<1>9. kept = {q[n] : n \in 1..c}
  <2>1. ASSUME NEW i \in kept PROVE \E n \in 1..c : q[n] = i
    <3>0. i \in 1..N /\ N + 1 - i \in 1..N /\ N + 1 - (N + 1 - i) = i /\ v[i] # 0
      BY <1>1
    <3>1. N + 1 - i \in K
      <4> DEFINE j == N + 1 - i
      <4>1. j \in 1..N /\ N + 1 - j = i
        BY <3>0
      <4> HIDE DEF j
      <4>2. rev[j] = arr[i]
        BY <1>3, <4>1
      <4>3. rev[j].vertices # 0
        BY <1>2, <3>0, <4>2
      <4>4. j \in K
        BY <1>3, <4>1, <4>3
      <4> QED BY <4>4 DEF j
    <3>2. PICK n \in 1..c : N + 1 - i = Nth(K, n)
      BY <1>5, <3>1
    <3>3. q[n] = N + 1 - (N + 1 - i)
      BY <3>2
    <3> QED BY <3>0, <3>3
  <2> QED BY <1>7, <2>1
<1> HIDE DEF K, q, busy, c
<1> DEFINE rows == Concentration(arr)
<1>10. /\ Len(rows) = c /\ DOMAIN rows = 1..c
       /\ \A n \in 1..c :
            /\ rows[n].vertices = <<Total(SubSeq(Column(busy, "vertices"), 1, n)),
                                    Total(Column(arr, "vertices"))>>
            /\ rows[n].arrivals = <<Total(SubSeq(Column(busy, "arrivals"), 1, n)),
                                    Total(Column(arr, "arrivals"))>>
  <2>1. rows = [n \in 1..c |->
                  [vertices |-> <<Total(SubSeq(Column(busy, "vertices"), 1, n)),
                                  Total(Column(arr, "vertices"))>>,
                   arrivals |-> <<Total(SubSeq(Column(busy, "arrivals"), 1, n)),
                                  Total(Column(arr, "arrivals"))>>]]
    BY <1>6, <1>7 DEF Concentration
  <2> HIDE DEF rows
  <2> QED BY <1>5, <2>1
<1>11. Column(arr, "vertices") = v /\ Column(arr, "arrivals") = a
  BY <1>1 DEF Column, v, a
<1>12. DOMAIN v = 1..N /\ DOMAIN a = 1..N
  BY DEF v, a
<1>13. Total(Column(arr, "vertices")) = Sum(v, 1..N) /\ Total(Column(arr, "arrivals")) = Sum(a, 1..N)
  BY <1>11, <1>12, TotalIsSum
<1>14. ASSUME NEW n \in 1..c
       PROVE  LET top == Reached(q, 1..n)
              IN  /\ Total(SubSeq(Column(busy, "vertices"), 1, n)) = Sum(v, top)
                  /\ Total(SubSeq(Column(busy, "arrivals"), 1, n)) = Sum(a, top)
  <2> DEFINE top == Reached(q, 1..n)
             bv == Column(busy, "vertices")
             ba == Column(busy, "arrivals")
  <2>1. \A m \in 1..c : bv[m] = v[q[m]] /\ ba[m] = a[q[m]] /\ bv[m] \in Int /\ ba[m] \in Int
    <3>1. \A m \in 1..c : bv[m] = busy[m].vertices /\ ba[m] = busy[m].arrivals
      BY <1>7 DEF Column
    <3> HIDE DEF bv, ba
    <3> QED BY <1>2, <1>7, <3>1
  <2>2. bv \in Seq(Int) /\ Len(bv) = c /\ ba \in Seq(Int) /\ Len(ba) = c
    <3>1. bv = [m \in 1..c |-> bv[m]] /\ ba = [m \in 1..c |-> ba[m]]
      BY <1>7 DEF Column
    <3> HIDE DEF bv, ba
    <3>2. c \in Nat /\ \A m \in 1..c : bv[m] \in Int /\ ba[m] \in Int
      BY <1>5, <2>1
    <3> QED BY <3>1, <3>2, ListOf
  <2> HIDE DEF bv, ba
  <2>3. n \in 0..c /\ IsFiniteSet(1..n) /\ \A m \in 1..n : m \in 1..c
    BY <1>5, FS_Interval
  <2>4. Total(SubSeq(bv, 1, n)) = Sum(bv, 1..n) /\ Total(SubSeq(ba, 1, n)) = Sum(ba, 1..n)
    BY <2>2, <2>3, StretchIsSum
  <2>5. \A m, k \in 1..n : q[m] = q[k] => m = k
    <3>1. \A m, k \in 1..n : m \in 1..c /\ k \in 1..c /\ q[m] \in Int /\ q[k] \in Int
                             /\ (m < k \/ k < m \/ m = k)
      BY <1>7, <2>3
    <3> QED BY <1>8, <3>1
  <2>6. Sum(bv, 1..n) = Sum(v, top)
    <3>1. \A m \in 1..n : bv[m] = v[q[m]] /\ bv[m] \in Int
      BY <2>1, <2>3
    <3> QED BY <2>3, <2>5, <3>1, SumImage
  <2>7. Sum(ba, 1..n) = Sum(a, top)
    <3>1. \A m \in 1..n : ba[m] = a[q[m]] /\ ba[m] \in Int
      BY <2>1, <2>3
    <3> QED BY <2>3, <2>5, <3>1, SumImage
  <2> QED BY <2>4, <2>6, <2>7 DEF bv, ba
<1>15. ASSUME NEW n \in 1..Len(rows)
       PROVE  \E top \in SUBSET kept :
                /\ rows[n].vertices = <<Sum(v, top), Sum(v, 1..N)>>
                /\ rows[n].arrivals = <<Sum(a, top), Sum(a, 1..N)>>
                /\ \A i \in top, l \in kept \ top : l < i
                /\ n = Len(rows) => top = kept
  <2> DEFINE top == Reached(q, 1..n)
  <2>1. n \in 1..c /\ \A m \in 1..n : m \in 1..c
    BY <1>5, <1>10
  <2>2. top \in SUBSET kept
    BY <1>9, <2>1 DEF Reached
  <2>3. n = Len(rows) => top = kept
    BY <1>9, <1>10 DEF Reached
  <2>4. ASSUME NEW i \in top, NEW l \in kept \ top PROVE l < i
    <3>1. PICK m \in 1..n : i = q[m]
      BY DEF Reached
    <3>2. PICK k \in 1..c : l = q[k]
      BY <1>9
    <3>3. k \notin 1..n
      BY <3>2 DEF Reached
    <3>4. m < k /\ m \in 1..c
      BY <2>1, <3>3
    <3> QED BY <1>8, <3>1, <3>2, <3>4
  <2>5. /\ rows[n].vertices = <<Sum(v, top), Sum(v, 1..N)>>
        /\ rows[n].arrivals = <<Sum(a, top), Sum(a, 1..N)>>
    BY <1>10, <1>13, <1>14, <2>1
  <2> QED BY <2>2, <2>3, <2>4, <2>5
<1> QED BY <1>2, <1>5, <1>10, <1>15 DEF v, a, N

LEMMA CrossProducts ==
  \A v, w, a, b \in Int : v * b <= a * w => a * (v + w) >= v * (a + b)
<1> SUFFICES ASSUME NEW v \in Int, NEW w \in Int, NEW a \in Int, NEW b \in Int, v * b <= a * w
             PROVE  a * (v + w) >= v * (a + b)
  OBVIOUS
<1>1. a * (v + w) = a * v + a * w /\ v * (a + b) = a * v + v * b
  OBVIOUS
<1>2. a * v \in Int /\ a * w \in Int /\ v * b \in Int
  OBVIOUS
<1>3. \A x, y, z \in Int : x <= y => z + y >= z + x
  OBVIOUS
<1> QED BY <1>1, <1>2, <1>3

LEMMA SumZero ==
  ASSUME NEW S, IsFiniteSet(S), NEW h, \A i \in S : h[i] = 0
  PROVE  Sum(h, S) = 0
<1>1. \A i \in S : h[i] \in Int
  OBVIOUS
<1>2. Sum(h, S) \in Int
  BY <1>1, SumType
<1>3. ASSUME NEW x \in Int, NEW y \in Int PROVE x * Sum(h, S) <= y * Sum(h, S)
  <2>1. \A i \in S : x * h[i] <= y * h[i]
    OBVIOUS
  <2> QED BY <1>1, <2>1, SumScaled
<1>4. 1 * Sum(h, S) <= 0 * Sum(h, S) /\ 0 * Sum(h, S) <= 1 * Sum(h, S)
  BY <1>3
<1> QED BY <1>2, <1>4

\* A class further up has at least its part of the arrivals, so a set of
\* classes from the top has, compared with the rest.
ByArrivals(arr) ==
  \A i, j \in DOMAIN arr :
    /\ i <= j => arr[i].arrivals * arr[j].vertices <= arr[j].arrivals * arr[i].vertices
    /\ arr[i].vertices = 0 => arr[i].arrivals = 0

LEMMA TopHeavy ==
  ASSUME NEW N \in Nat, NEW v, NEW a, \A i \in 1..N : v[i] \in Nat /\ a[i] \in Nat,
         \A i, j \in 1..N : i <= j => a[i] * v[j] <= a[j] * v[i],
         \A i \in 1..N : v[i] = 0 => a[i] = 0,
         NEW top \in SUBSET (1..N),
         \A i \in top, l \in (1..N) \ top : l < i \/ v[l] = 0
  PROVE  Sum(a, top) * Sum(v, 1..N) >= Sum(v, top) * Sum(a, 1..N)
<1> DEFINE rest == (1..N) \ top
<1>1. IsFiniteSet(1..N) /\ IsFiniteSet(top) /\ IsFiniteSet(rest)
  <2>1. IsFiniteSet(1..N)
    BY FS_Interval
  <2> QED BY <2>1, FS_Subset
<1>2. \A i \in 1..N : v[i] \in Int /\ a[i] \in Int
  OBVIOUS
<1>3. /\ Sum(v, top) \in Int /\ Sum(v, rest) \in Int
      /\ Sum(a, top) \in Int /\ Sum(a, rest) \in Int
  <2>1. /\ \A i \in top : v[i] \in Int /\ a[i] \in Int
        /\ \A i \in rest : v[i] \in Int /\ a[i] \in Int
    BY <1>2
  <2> QED BY <1>1, <2>1, SumType
<1>4. ASSUME NEW l \in rest PROVE Sum(v, top) * a[l] <= Sum(a, top) * v[l]
  <2>1. ASSUME NEW i \in top PROVE a[l] * v[i] <= v[l] * a[i]
    <3>1. i \in 1..N /\ l \in 1..N /\ v[i] \in Int /\ a[i] \in Int /\ v[l] \in Int /\ a[l] \in Int
      BY <1>2
    <3>2. CASE v[l] = 0
      <4>1. a[l] = 0
        BY <3>1, <3>2
      <4> QED BY <3>1, <3>2, <4>1
    <3>3. CASE l < i
      <4>1. a[l] * v[i] <= a[i] * v[l]
        BY <3>1, <3>3
      <4>2. a[i] * v[l] = v[l] * a[i]
        BY <3>1
      <4> QED BY <4>1, <4>2
    <3> QED BY <3>2, <3>3
  <2>2. a[l] \in Int /\ v[l] \in Int /\ \A i \in top : v[i] \in Int /\ a[i] \in Int
    BY <1>2
  <2>3. a[l] * Sum(v, top) <= v[l] * Sum(a, top)
    BY <1>1, <2>1, <2>2, SumScaled
  <2>4. \A x, y \in Int : x * y = y * x
    OBVIOUS
  <2>5. a[l] * Sum(v, top) = Sum(v, top) * a[l] /\ v[l] * Sum(a, top) = Sum(a, top) * v[l]
    BY <1>3, <2>2, <2>4
  <2> QED BY <2>3, <2>5
<1>5. Sum(v, top) * Sum(a, rest) <= Sum(a, top) * Sum(v, rest)
  <2>1. \A i \in rest : v[i] \in Int /\ a[i] \in Int
    BY <1>2
  <2> HIDE DEF rest
  <2> QED BY <1>1, <1>3, <1>4, <2>1, SumScaled
<1>6. Sum(v, 1..N) = Sum(v, top) + Sum(v, rest) /\ Sum(a, 1..N) = Sum(a, top) + Sum(a, rest)
  BY <1>1, <1>2, SumSplit
<1> HIDE DEF rest
<1> QED BY <1>3, <1>5, <1>6, CrossProducts

LEMMA BusiestFacts ==
  ASSUME NEW arr \in Seq(ClassRow), ByArrivals(arr),
         NEW n \in DOMAIN Concentration(arr)
  PROVE  LET row == Concentration(arr)[n]
         IN  /\ row.arrivals[1] * row.vertices[2] >= row.vertices[1] * row.arrivals[2]
             /\ n = Len(Concentration(arr)) =>
                  row.vertices[1] = row.vertices[2] /\ row.arrivals[1] = row.arrivals[2]
<1> DEFINE N == Len(arr)
           v == [i \in 1..N |-> arr[i].vertices]
           a == [i \in 1..N |-> arr[i].arrivals]
           kept == {i \in 1..N : v[i] # 0}
           rows == Concentration(arr)
<1>1. /\ \A i \in 1..N : v[i] \in Nat /\ a[i] \in Nat
      /\ Len(rows) \in Nat /\ DOMAIN rows = 1..Len(rows)
      /\ \A m \in 1..Len(rows) :
           \E top \in SUBSET kept :
             /\ rows[m].vertices = <<Sum(v, top), Sum(v, 1..N)>>
             /\ rows[m].arrivals = <<Sum(a, top), Sum(a, 1..N)>>
             /\ \A i \in top, l \in kept \ top : l < i
             /\ m = Len(rows) => top = kept
  BY ConcentrationSums
<1>2. N \in Nat /\ DOMAIN arr = 1..N /\ \A i \in 1..N : v[i] \in Int /\ a[i] \in Int
  <2>1. N \in Nat /\ DOMAIN arr = 1..N
    OBVIOUS
  <2>2. \A i \in 1..N : v[i] \in Nat /\ a[i] \in Nat
    BY ConcentrationSums
  <2> HIDE DEF N, v, a
  <2> QED BY <2>1, <2>2
<1>3. /\ \A i, j \in 1..N : i <= j => a[i] * v[j] <= a[j] * v[i]
      /\ \A i \in 1..N : v[i] = 0 => a[i] = 0
  <2>1. \A i \in 1..N : v[i] = arr[i].vertices /\ a[i] = arr[i].arrivals
    OBVIOUS
  <2> HIDE DEF v, a
  <2> QED BY <1>2, <2>1 DEF ByArrivals
<1> HIDE DEF v, a, N, rows
<1>4. n \in 1..Len(rows)
  BY <1>1 DEF rows
<1>5. PICK top \in SUBSET kept :
        /\ rows[n].vertices = <<Sum(v, top), Sum(v, 1..N)>>
        /\ rows[n].arrivals = <<Sum(a, top), Sum(a, 1..N)>>
        /\ \A i \in top, l \in kept \ top : l < i
        /\ n = Len(rows) => top = kept
  BY <1>1, <1>4
<1>6. top \in SUBSET (1..N) /\ \A i \in top, l \in (1..N) \ top : l < i \/ v[l] = 0
  BY <1>5
<1>7. Sum(a, top) * Sum(v, 1..N) >= Sum(v, top) * Sum(a, 1..N)
  <2> HIDE DEF kept
  <2> QED BY <1>1, <1>2, <1>3, <1>6, TopHeavy
<1>8. ASSUME n = Len(rows)
      PROVE  Sum(v, top) = Sum(v, 1..N) /\ Sum(a, top) = Sum(a, 1..N)
  <2>1. top = kept
    BY <1>5, <1>8
  <2> DEFINE rest == (1..N) \ top
  <2>2. \A i \in rest : v[i] = 0 /\ a[i] = 0
    BY <1>3, <2>1
  <2>3. IsFiniteSet(1..N) /\ IsFiniteSet(rest) /\ IsFiniteSet(top)
    <3>1. IsFiniteSet(1..N)
      BY <1>2, FS_Interval
    <3> QED BY <1>6, <3>1, FS_Subset
  <2>4. /\ \A i \in 1..N : v[i] \in Int /\ a[i] \in Int
        /\ \A i \in top : v[i] \in Int /\ a[i] \in Int
    <3> HIDE DEF kept
    <3> QED BY <1>2, <1>6
  <2>5. Sum(v, 1..N) = Sum(v, top) + Sum(v, rest) /\ Sum(a, 1..N) = Sum(a, top) + Sum(a, rest)
    BY <1>6, <2>3, <2>4, SumSplit
  <2> HIDE DEF rest
  <2>6. Sum(v, rest) = 0 /\ Sum(a, rest) = 0
    BY <2>2, <2>3, SumZero
  <2>7. Sum(v, top) \in Int /\ Sum(a, top) \in Int
    BY <2>3, <2>4, SumType
  <2> QED BY <2>5, <2>6, <2>7
<1> QED BY <1>5, <1>7, <1>8 DEF rows

-----------------------------------------------------------------------------
(* From the largest bucket down *)

\* Every element has its place, and a place that is not later is not smaller.
LEMMA Sorted ==
  ASSUME NEW s \in Seq(Nat)
  PROVE  \E q \in [1..Len(s) -> 1..Len(s)] :
           /\ \A m, n \in 1..Len(s) : q[m] = q[n] => m = n
           /\ Reached(q, 1..Len(s)) = 1..Len(s)
           /\ Descending(s) = [n \in 1..Len(s) |-> s[q[n]]]
           /\ \A m, n \in 1..Len(s) : m <= n => s[q[m]] >= s[q[n]]
<1> DEFINE N == Len(s)
           D == 1..N
           NotAfter(i) == {j \in D : s[j] > s[i] \/ (s[j] = s[i] /\ j <= i)}
           place == [i \in D |-> Cardinality(NotAfter(i))]
           q == [n \in D |-> Ranked(s, n)]
<1>1. N \in Nat /\ DOMAIN s = D /\ \A i \in D : s[i] \in Nat
  OBVIOUS
<1>2. IsFiniteSet(D) /\ Cardinality(D) = N
  BY <1>1, FS_Interval
<1>3. \A i : IsFiniteSet(NotAfter(i)) /\ Cardinality(NotAfter(i)) \in Nat /\ Cardinality(NotAfter(i)) <= N
  <2>1. \A i : NotAfter(i) \subseteq D
    OBVIOUS
  <2> HIDE DEF NotAfter, D
  <2> QED BY <1>2, <2>1, FS_Subset, FS_CardinalityType
<1>4. \A i \in D : place[i] = Place(s, i) /\ place[i] = Cardinality(NotAfter(i))
  BY <1>1 DEF Place
<1>5. ASSUME NEW i \in D, NEW k \in D, i \in NotAfter(k), i # k
      PROVE  place[i] < place[k]
  <2>1. \A j \in D : s[j] \in Nat /\ j \in Nat
    BY <1>1
  <2>2. s[i] > s[k] \/ (s[i] = s[k] /\ i < k)
    BY <1>5, <2>1
  <2>3. NotAfter(i) \subseteq NotAfter(k)
    <3>1. \A j \in D : (s[j] > s[i] \/ (s[j] = s[i] /\ j <= i)) => (s[j] > s[k] \/ (s[j] = s[k] /\ j <= k))
      BY <2>1, <2>2
    <3> QED BY <3>1
  <2>4. k \in NotAfter(k) /\ k \notin NotAfter(i)
    BY <2>1, <2>2
  <2>5. Cardinality(NotAfter(i)) <= Cardinality(NotAfter(k)) /\ Cardinality(NotAfter(i)) # Cardinality(NotAfter(k))
    <3> HIDE DEF NotAfter
    <3> QED BY <1>3, <2>3, <2>4, FS_Subset
  <2> HIDE DEF NotAfter, place
  <2> QED BY <1>3, <1>4, <2>5
<1>6. \A i, k \in D : i \in NotAfter(k) \/ k \in NotAfter(i)
  <2>1. \A j \in D : s[j] \in Nat /\ j \in Nat
    BY <1>1
  <2> QED BY <2>1
<1>7. ASSUME NEW i \in D PROVE place[i] \in D
  <2>1. i \in NotAfter(i)
    BY <1>1
  <2>2. Cardinality(NotAfter(i)) # 0
    <3> HIDE DEF NotAfter
    <3> QED BY <1>3, <2>1, FS_EmptySet
  <2> HIDE DEF NotAfter, place
  <2> QED BY <1>1, <1>3, <1>4, <2>2
<1>8. \A i, k \in D : place[i] = place[k] => i = k
  <2>1. \A i \in D : place[i] \in Nat
    BY <1>1, <1>7
  <2> HIDE DEF NotAfter, place, D
  <2> QED BY <1>5, <1>6, <2>1
<1>9. place \in Injection(D, D)
  BY <1>7, <1>8 DEF Injection, IsInjective
<1>10. place \in Surjection(D, D)
  <2> HIDE DEF D, place
  <2> QED BY <1>2, <1>9, FS_Injection
<1>11. ASSUME NEW n \in D PROVE q[n] \in D /\ place[q[n]] = n
  <2>1. \E i \in D : place[i] = n
    BY <1>10 DEF Surjection
  <2>2. \E i \in D : Place(s, i) = n
    BY <1>4, <2>1
  <2>3. q[n] = Ranked(s, n)
    OBVIOUS
  <2> HIDE DEF q, D, place
  <2>4. q[n] \in D /\ Place(s, q[n]) = n
    BY <1>1, <2>2, <2>3 DEF Ranked
  <2> QED BY <1>4, <2>4
<1>12. Descending(s) = [n \in D |-> s[q[n]]]
  <2>1. \A n \in D : q[n] = Ranked(s, n)
    OBVIOUS
  <2> HIDE DEF q, D
  <2> QED BY <1>1, <2>1 DEF Descending
<1>13. q \in [D -> D]
  <2>1. q = [n \in D |-> q[n]]
    OBVIOUS
  <2> HIDE DEF q, D, place
  <2> QED BY <1>11, <2>1
<1> HIDE DEF q, place, NotAfter
<1>14. \A m, n \in D : q[m] = q[n] => m = n
  BY <1>11
<1>15. Reached(q, D) = D
  <2>1. ASSUME NEW i \in D PROVE i \in Reached(q, D)
    <3>1. place[i] \in D
      BY <1>7
    <3>2. q[place[i]] = i
      BY <1>8, <1>11, <3>1
    <3> QED BY <3>1, <3>2 DEF Reached
  <2>2. Reached(q, D) \subseteq D
    BY <1>11 DEF Reached
  <2> QED BY <2>1, <2>2
<1>16. ASSUME NEW m \in D, NEW n \in D, m <= n PROVE s[q[m]] >= s[q[n]]
  <2>1. q[m] \in D /\ q[n] \in D /\ place[q[m]] = m /\ place[q[n]] = n /\ m \in Nat /\ n \in Nat
    BY <1>1, <1>11
  <2>2. CASE q[m] = q[n]
    BY <1>1, <2>1, <2>2
  <2>3. CASE q[m] # q[n] /\ q[m] \in NotAfter(q[n])
    BY <1>1, <2>1, <2>3 DEF NotAfter
  <2>4. CASE q[m] # q[n] /\ q[n] \in NotAfter(q[m])
    BY <1>5, <1>16, <2>1, <2>4
  <2> QED BY <1>6, <2>1, <2>2, <2>3, <2>4
<1> QED BY <1>12, <1>13, <1>14, <1>15, <1>16

\* Of a list that never rises, no n elements add up to more than the first n.
LEMMA FirstAreMost ==
  ASSUME NEW N \in Nat, NEW down, \A i \in 1..N : down[i] \in Nat,
         \A i, j \in 1..N : i <= j => down[i] >= down[j],
         NEW T \in SUBSET (1..N)
  PROVE  Sum(down, T) <= Sum(down, 1..Cardinality(T)) /\ Cardinality(T) \in 0..N
<1> DEFINE Wrong(U) == ~(Sum(down, U) <= Sum(down, 1..Cardinality(U)))
           Bad == {n \in Nat : \E U \in SUBSET (1..N) : Cardinality(U) = n /\ Wrong(U)}
<1>1. IsFiniteSet(1..N) /\ Cardinality(1..N) = N
  BY FS_Interval
<1>2. \A U \in SUBSET (1..N) : IsFiniteSet(U) /\ Cardinality(U) \in 0..N /\ Sum(down, U) \in Int
  <2>1. ASSUME NEW U \in SUBSET (1..N)
        PROVE  IsFiniteSet(U) /\ Cardinality(U) \in 0..N /\ Sum(down, U) \in Int
    <3>1. IsFiniteSet(U) /\ Cardinality(U) <= N /\ Cardinality(U) \in Nat
      BY <1>1, FS_Subset, FS_CardinalityType
    <3>2. \A i \in U : down[i] \in Int
      OBVIOUS
    <3>3. Sum(down, U) \in Int
      BY <3>1, <3>2, SumType
    <3> QED BY <3>1, <3>3
  <2> QED BY <2>1
<1>3. Bad = {}
  <2> SUFFICES ASSUME Bad # {} PROVE FALSE
    OBVIOUS
  <2>1. PICK n \in Bad : \A m \in Bad : n <= m
    BY LeastNatural
  <2>2. PICK U \in SUBSET (1..N) : Cardinality(U) = n /\ Wrong(U)
    OBVIOUS
  <2>3. U # {}
    <3>1. Cardinality({}) = 0 /\ 1..0 = {} /\ Sum(down, {}) = 0 /\ 0 <= 0
      BY FS_EmptySet, SumEmpty
    <3>2. ~Wrong({})
      BY <3>1
    <3> QED BY <2>2, <3>2
  <2> HIDE DEF Bad
  <2>4. n \in Nat /\ n \in 0..N /\ n # 0
    <3>1. IsFiniteSet(U) /\ Cardinality(U) \in 0..N
      BY <1>2
    <3>2. Cardinality(U) # 0
      BY <2>3, <3>1, FS_EmptySet
    <3> QED BY <2>2, <3>1, <3>2
  <2>5. PICK m \in U : m >= n
    <3>1. SUFFICES ASSUME \A m \in U : m < n PROVE FALSE
      BY <2>4
    <3>2. U \subseteq 1..(n - 1)
      BY <2>4, <3>1
    <3>3. IsFiniteSet(1..(n - 1)) /\ Cardinality(1..(n - 1)) = n - 1
      BY <2>4, FS_Interval
    <3>4. Cardinality(U) <= n - 1
      BY <3>2, <3>3, FS_Subset
    <3> QED BY <2>2, <2>4, <3>4
  <2> DEFINE V == U \ {m}
  <2>6. V \in SUBSET (1..N) /\ Cardinality(V) = n - 1
    <3>1. IsFiniteSet(U)
      BY <1>2
    <3> QED BY <2>2, <2>5, <3>1, FS_RemoveElement
  <2>7. ~Wrong(V)
    <3>1. n - 1 \in Nat /\ ~(n <= n - 1)
      BY <2>4
    <3> QED BY <2>1, <2>6, <3>1 DEF Bad
  <2>8. Sum(down, U) = down[m] + Sum(down, V)
    <3>1. IsFiniteSet(U) /\ \A i \in U : down[i] \in Int
      BY <1>2
    <3> QED BY <2>5, <3>1, SumRemove
  <2>9. Sum(down, 1..n) = down[n] + Sum(down, 1..(n - 1))
    <3>1. n \in 1..n /\ (1..n) \ {n} = 1..(n - 1) /\ \A i \in 1..n : i \in 1..N
      BY <2>4
    <3>2. IsFiniteSet(1..n) /\ \A i \in 1..n : down[i] \in Int
      BY <2>4, <3>1, FS_Interval
    <3>3. Sum(down, 1..n) = down[n] + Sum(down, (1..n) \ {n})
      BY <3>1, <3>2, SumRemove
    <3> QED BY <3>1, <3>3
  <2>10. down[n] >= down[m] /\ down[n] \in Int /\ down[m] \in Int
    <3>1. n \in 1..N /\ m \in 1..N /\ n <= m
      BY <2>4, <2>5
    <3> QED BY <3>1
  <2>11. Sum(down, V) <= Sum(down, 1..(n - 1))
    BY <2>6, <2>7
  <2>12. Sum(down, V) \in Int /\ Sum(down, 1..(n - 1)) \in Int
    <3>1. 1..(n - 1) \in SUBSET (1..N)
      BY <2>4
    <3> QED BY <1>2, <2>6, <3>1
  <2> HIDE DEF V
  <2>13. \A a, b, c, d \in Int : a >= b /\ c <= d => b + c <= a + d
    OBVIOUS
  <2>14. down[m] + Sum(down, V) <= down[n] + Sum(down, 1..(n - 1))
    BY <2>10, <2>11, <2>12, <2>13
  <2> QED BY <2>2, <2>8, <2>9, <2>14
<1>4. ~Wrong(T)
  <2>1. Cardinality(T) \in Nat
    BY <1>2
  <2> QED BY <1>3, <2>1
<1> QED BY <1>2, <1>4

LEMMA ReachedSize ==
  ASSUME NEW T, IsFiniteSet(T), NEW q, \A m, n \in T : q[m] = q[n] => m = n
  PROVE  Cardinality(Reached(q, T)) = Cardinality(T)
<1> DEFINE f == [i \in T |-> q[i]]
           R == Reached(q, T)
<1>1. \A y : y \in R <=> \E i \in T : y = q[i]
  BY DEF Reached
<1>2. \A i \in T : f[i] = q[i]
  OBVIOUS
<1>3. f = [i \in T |-> f[i]]
  BY <1>2
<1> HIDE DEF R, f
<1>4. f \in [T -> R]
  BY <1>1, <1>2, <1>3
<1>5. f \in Surjection(T, R) /\ f \in Injection(T, R)
  BY <1>1, <1>2, <1>4 DEF Surjection, Injection, IsInjective
<1> QED BY <1>5, FS_Surjection DEF R

\* The buckets taken from the largest down are as few as any that hold half.
LEMMA HalfInFacts ==
  ASSUME NEW s \in Seq(Nat)
  PROVE  LET Holds(S) == 2 * FoldFunctionOnSet(LAMBDA x, y : x + y, 0, s, S) >= Total(s)
         IN  HalfIn(s) = Min({Cardinality(S) : S \in {S \in SUBSET DOMAIN s : Holds(S)}})
<1> DEFINE N == Len(s)
           D == 1..N
           down == Descending(s)
           Holds(S) == 2 * FoldFunctionOnSet(LAMBDA x, y : x + y, 0, s, S) >= Total(s)
           enough == {Cardinality(S) : S \in {S \in SUBSET DOMAIN s : Holds(S)}}
           first == {n \in 0..N : 2 * Total(SubSeq(down, 1, n)) >= Total(s)}
<1>1. N \in Nat /\ DOMAIN s = D /\ \A i \in D : s[i] \in Nat
  OBVIOUS
<1>2. PICK q \in [D -> D] :
        /\ \A m, n \in D : q[m] = q[n] => m = n
        /\ Reached(q, D) = D
        /\ down = [n \in D |-> s[q[n]]]
        /\ \A m, n \in D : m <= n => s[q[m]] >= s[q[n]]
  BY Sorted
<1>3. \A n \in D : q[n] \in D /\ down[n] = s[q[n]] /\ down[n] \in Nat
  BY <1>1, <1>2
<1>4. down \in Seq(Int) /\ Len(down) = N
  <2>1. down = [n \in D |-> down[n]]
    BY <1>2
  <2> HIDE DEF down
  <2> QED BY <1>1, <1>3, <2>1, ListOf
<1>5. \A T \in SUBSET D : IsFiniteSet(T)
  <2>1. IsFiniteSet(D)
    BY <1>1, FS_Interval
  <2> QED BY <2>1, FS_Subset
<1>6. \A S : Holds(S) <=> 2 * Sum(s, S) >= Total(s)
  BY PartIsSum
<1> HIDE DEF down, Holds
<1>7. ASSUME NEW T \in SUBSET D
      PROVE  /\ Sum(s, Reached(q, T)) = Sum(down, T) /\ Sum(down, T) \in Int
             /\ Cardinality(Reached(q, T)) = Cardinality(T)
             /\ Reached(q, T) \in SUBSET D
  <2>1. IsFiniteSet(T) /\ \A m, n \in T : q[m] = q[n] => m = n
    BY <1>2, <1>5
  <2>2. \A m \in T : down[m] = s[q[m]] /\ down[m] \in Int
    BY <1>3
  <2>3. Sum(down, T) = Sum(s, Reached(q, T)) /\ Sum(down, T) \in Int
    BY <2>1, <2>2, SumImage, SumType
  <2>4. Cardinality(Reached(q, T)) = Cardinality(T)
    BY <2>1, ReachedSize
  <2>5. Reached(q, T) \in SUBSET D
    BY <1>3 DEF Reached
  <2> QED BY <2>3, <2>4, <2>5
<1>8. ASSUME NEW n \in first PROVE n \in enough
  <2>1. n \in 0..N /\ 2 * Total(SubSeq(down, 1, n)) >= Total(s)
    OBVIOUS
  <2>2. 1..n \in SUBSET D
    BY <1>1, <2>1
  <2>3. Total(SubSeq(down, 1, n)) = Sum(down, 1..n)
    BY <1>4, <2>1, StretchIsSum
  <2>4. Cardinality(1..n) = n
    BY <2>1, FS_Interval
  <2>5. Holds(Reached(q, 1..n)) /\ Cardinality(Reached(q, 1..n)) = n /\ Reached(q, 1..n) \in SUBSET DOMAIN s
    BY <1>1, <1>6, <1>7, <2>1, <2>2, <2>3, <2>4
  <2> QED BY <2>5
<1>9. ASSUME NEW S \in SUBSET DOMAIN s, Holds(S) PROVE Cardinality(S) \in first
  <2> DEFINE T == {m \in D : q[m] \in S}
             n == Cardinality(T)
  <2>1. T \in SUBSET D /\ Reached(q, T) = S
    <3>1. \A i \in S : \E m \in D : q[m] = i
      BY <1>1, <1>2 DEF Reached
    <3> QED BY <3>1 DEF Reached
  <2> HIDE DEF T
  <2>2. n = Cardinality(S) /\ Sum(s, S) = Sum(down, T) /\ Sum(down, T) \in Int
    BY <1>7, <2>1
  <2>3. Sum(down, T) <= Sum(down, 1..n) /\ n \in 0..N
    <3>1. \A i, j \in D : i <= j => down[i] >= down[j]
      BY <1>2, <1>3
    <3> QED BY <1>1, <1>3, <2>1, <3>1, FirstAreMost
  <2>4. Sum(down, 1..n) \in Int
    <3>1. 1..n \in SUBSET D
      BY <1>1, <2>3
    <3> QED BY <1>7, <3>1
  <2>5. Total(SubSeq(down, 1, n)) = Sum(down, 1..n)
    BY <1>4, <2>3, StretchIsSum
  <2>6. 2 * Sum(down, T) >= Total(s)
    BY <1>6, <1>9, <2>2
  <2>7. Total(s) \in Int
    <3>1. DOMAIN s \in SUBSET D /\ \A i \in D : s[i] \in Int
      BY <1>1
    <3> QED BY <1>1, <1>5, <3>1, SumType, TotalIsSum
  <2> HIDE DEF n
  <2>8. 2 * Sum(down, 1..n) >= Total(s)
    BY <2>2, <2>3, <2>4, <2>6, <2>7
  <2> QED BY <2>2, <2>3, <2>5, <2>8
<1>10. first = enough
  BY <1>8, <1>9
<1>11. HalfIn(s) = Min(first)
  BY DEF HalfIn, down
<1> QED BY <1>10, <1>11 DEF Holds

-----------------------------------------------------------------------------
(* The dumps in the directory are of those a run may leave. *)
DumpsKept ==
  /\ "dump" \in DOMAIN outdir
  /\ outdir.dump \in [{"h1", "h2", "h4"} -> [ToSet(GraphList) -> Dumps \cup {None}]]

LEMMA DumpsStart ==
  ASSUME Init
  PROVE  DumpsKept
BY DEF Init, DumpsKept

LEMMA DumpsStep ==
  ASSUME DumpsKept, [Next]_vars
  PROVE  DumpsKept'
<1> DEFINE D == Dumps \cup {None}
           G == ToSet(GraphList)
<1>1. ASSUME NEW d, "dump" \in DOMAIN d, NEW f, NEW x
      PROVE  /\ "dump" \in DOMAIN [d EXCEPT !.tsv[f] = x]
             /\ [d EXCEPT !.tsv[f] = x].dump = d.dump
  BY <1>1
<1>2. ASSUME UNCHANGED outdir PROVE DumpsKept'
  BY <1>2 DEF DumpsKept
<1>3. ASSUME "dump" \in DOMAIN outdir', outdir'.dump = outdir.dump PROVE DumpsKept'
  BY <1>3 DEF DumpsKept
<1>4. ASSUME NEW sub, NEW g, NEW dump \in Dumps,
             outdir' = [outdir EXCEPT !.dump[sub][g] = dump]
      PROVE  DumpsKept'
  <2> DEFINE old == outdir.dump
             new == [old EXCEPT ![sub] = [old[sub] EXCEPT ![g] = dump]]
  <2>1. "dump" \in DOMAIN outdir' /\ outdir'.dump = new
    BY <1>4 DEF DumpsKept
  <2>2. old \in [{"h1", "h2", "h4"} -> [G -> D]]
    BY DEF DumpsKept
  <2> HIDE DEF old, G
  <2>3. new \in [{"h1", "h2", "h4"} -> [G -> D]]
    BY <2>2
  <2> QED BY <2>1, <2>3 DEF DumpsKept, G
<1>5. CASE MakeDirectory
  BY <1>3, <1>5 DEF MakeDirectory, DumpsKept
<1>6. CASE OpenSummary
  BY <1>1, <1>3, <1>6 DEF OpenSummary, DumpsKept
<1>7. CASE Profile
  BY <1>2, <1>4, <1>7 DEF Profile
<1>8. CASE TimedRow
  BY <1>1, <1>3, <1>8 DEF TimedRow, AppendRow, DumpsKept
<1>9. CASE AbsorbRow
  BY <1>1, <1>2, <1>3, <1>9 DEF AbsorbRow, AppendRow, DumpsKept
<1>10. CASE PeRun
  BY <1>3, <1>10 DEF PeRun, DumpsKept
<1>11. CASE JitterRow
  BY <1>1, <1>3, <1>11 DEF JitterRow, AppendRow, DumpsKept
<1>12. CASE ABRun
  BY <1>3, <1>12 DEF ABRun, DumpsKept
<1>13. CASE ABRow
  BY <1>1, <1>3, <1>13 DEF ABRow, AppendRow, DumpsKept
<1>14. CASE Rerun
  BY <1>2, <1>14 DEF Rerun
<1>15. CASE UNCHANGED vars
  BY <1>2, <1>15 DEF vars
<1> QED BY <1>5, <1>6, <1>7, <1>8, <1>9, <1>10, <1>11, <1>12, <1>13, <1>14, <1>15 DEF Next

LEMMA DumpFacts ==
  ASSUME DumpsKept, NEW dump \in Dumped
  PROVE  /\ dump.rounds \in Seq(RoundRow) /\ dump.arrivals \in Seq(ClassRow)
         /\ ByArrivals(dump.arrivals)
         /\ Column(dump.buckets, "created") \in Seq(Nat)
<1>1. dump \in Dumps
  <2>1. PICK sub \in {"h1", "h2", "h4"} : \E g \in Profiled(outdir, sub) : dump = outdir.dump[sub][g]
    BY DEF Dumped
  <2>0. PICK g \in Profiled(outdir, sub) : dump = outdir.dump[sub][g]
    BY <2>1
  <2>2. outdir.dump[sub][g] \in Dumps \cup {None} /\ outdir.dump[sub][g] # None
    <3> DEFINE d == outdir.dump
               G == ToSet(GraphList)
    <3>1. d \in [{"h1", "h2", "h4"} -> [G -> Dumps \cup {None}]]
      BY DEF DumpsKept
    <3>2. g \in DOMAIN d[sub] /\ d[sub][g] # None
      BY <2>0 DEF Profiled
    <3> HIDE DEF d, G
    <3>3. d[sub][g] \in Dumps \cup {None}
      BY <3>1, <3>2
    <3> QED BY <3>2, <3>3 DEF d
  <2> QED BY <2>0, <2>2
<1>2. /\ dump.buckets \in Seq(BucketRow) /\ dump.rounds \in Seq(RoundRow)
      /\ dump.arrivals \in Seq(ClassRow)
  BY <1>1, DumpAssumption
<1>3. ByArrivals(dump.arrivals)
  BY <1>1, DumpAssumption DEF ByArrivals
<1>4. Column(dump.buckets, "created") \in Seq(Nat)
  <2> DEFINE b == dump.buckets
             c == Column(b, "created")
             n == Len(b)
  <2>1. n \in Nat /\ DOMAIN b = 1..n /\ \A i \in 1..n : b[i] \in BucketRow
    BY <1>2
  <2> HIDE DEF b, n
  <2>2. c = [i \in 1..n |-> c[i]] /\ \A i \in 1..n : c[i] = b[i].created
    BY <2>1 DEF Column
  <2>3. \A r \in BucketRow : r.created \in Nat
    BY DEF BucketRow
  <2> HIDE DEF c
  <2>4. \A i \in 1..n : c[i] \in Nat
    BY <2>1, <2>2, <2>3
  <2>5. c \in Seq(Nat)
    BY <2>1, <2>2, <2>4, ListOf
  <2> QED BY <2>5 DEF b, c
<1> QED BY <1>2, <1>3, <1>4

LEMMA DumpsAlways == Spec => []DumpsKept
BY DumpsStart, DumpsStep, PTL DEF Spec

-----------------------------------------------------------------------------
(* The theorems *)

\* The directory and the harness's position in its plan agree at every
\* moment, however often it was killed and run again.
THEOREM HarnessRight == Spec => []HarnessInv
<1>1. ASSUME HarnessInv, [Next]_vars PROVE HarnessInv'
  <2>1. CASE Next
    BY <1>1, <2>1, ABStep, OtherStep
  <2>2. CASE UNCHANGED vars
    BY <1>1, <2>2 DEF vars, HarnessInv, Kept, RowsOfPlan, InStep, RowsCiteTheirRun, Runs, Plan
  <2> QED BY <1>1, <2>1, <2>2
<1> QED BY HarnessStart, <1>1, PTL DEF Spec

\* A row of ab/runs.tsv is never about the log of another run or invocation.
THEOREM CitationsRight == Spec => []RowsCiteTheirRun
BY HarnessRight, CitedAlways, PTL

\* Whichever runs fail, and wherever the harness is stopped, the report takes
\* the first variant of the file as the baseline of its ratios.
THEOREM BaselineRight == Spec => []BaselineFirst
BY HarnessRight, FirstNames, PTL

\* At no moment has one variant of a graph more than one repetition more than
\* another: a drift of the node lands on all of them alike.
THEOREM DriftShared == Spec => []RepsBalanced
<1>1. ASSUME HarnessInv PROVE RepsBalanced
  <2> SUFFICES ASSUME NEW g \in GraphsOf(Runs), NEW v \in ToSet(Variants), NEW w \in ToSet(Variants)
               PROVE  Len(Of(Runs, g, v)) <= Len(Of(Runs, g, w)) + 1
    BY DEF RepsBalanced
  <2>1. Kept
    BY <1>1 DEF HarnessInv
  <2>2. \A x : Len(Of(Runs, g, x)) = Cardinality(RowsAt(g, x))
    BY <2>1, RowsAtFacts
  <2>3. Cardinality(RowsAt(g, v)) <= Cardinality(RowsAt(g, w)) + 1
    BY <1>1, Interleaved
  <2> QED BY <2>2, <2>3
<1> QED BY HarnessRight, <1>1, PTL

\* The report counts every A/B run once, as a sample or as a failure, and no
\* run that was cut short as a sample.
THEOREM RunsCounted == Spec => []EveryRunCounted
BY HarnessRight, AllCounted, PTL

\* The time of the tail and its mean period, which the report computes in two
\* ways, agree of every dump, whichever round the tail starts with.
THEOREM TailCounted == Spec => []TailAddsUp
<1>1. ASSUME DumpsKept PROVE TailAddsUp
  BY <1>1, DumpFacts, TailFacts DEF TailAddsUp
<1> QED BY DumpsAlways, <1>1, PTL

\* The table of arrivals walks down from the busiest class: no part of the
\* vertices it has taken has less than that part of the arrivals.
THEOREM ConcentrationTrue == Spec => []BusiestFirst
<1>1. ASSUME DumpsKept PROVE BusiestFirst
  BY <1>1, DumpFacts, BusiestFacts DEF BusiestFirst
<1> QED BY DumpsAlways, <1>1, PTL

\* "half in" is the least number of buckets that hold half of all updates.
THEOREM HalfInCorrect == Spec => []HalfInMinimal
<1>1. ASSUME DumpsKept PROVE HalfInMinimal
  BY <1>1, DumpFacts, HalfInFacts DEF HalfInMinimal
<1> QED BY DumpsAlways, <1>1, PTL

=============================================================================
