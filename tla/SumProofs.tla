----------------------------- MODULE SumProofs -----------------------------
(***************************************************************************)
(* Induction by a least counterexample, and sums over finite sets by it.   *)
(***************************************************************************)
EXTENDS FiniteSetsExt, Integers, FiniteSetTheorems, WellFoundedInduction, TLAPS

\* A set of natural numbers that is not empty has a least one.
LEMMA LeastNatural ==
  ASSUME NEW T \in SUBSET Nat, T # {}
  PROVE  \E x \in T : \A y \in T : x <= y
<1> DEFINE Below(x) == {y \in T : y < x}
           Family == {Below(x) : x \in T}
           R == StrictSubsetOrdering(Nat)
<1>1. Family \subseteq FiniteSubsetsOf(Nat)
  <2> SUFFICES ASSUME NEW x \in T PROVE IsFiniteSet(Below(x)) /\ Below(x) \subseteq Nat
    BY DEF FiniteSubsetsOf
  <2>1. x \in Nat /\ Below(x) \in SUBSET Nat
    OBVIOUS
  <2>2. ASSUME NEW s \in Below(x) PROVE s <= x
    <3>1. s \in Nat /\ s < x
      OBVIOUS
    <3> QED BY <2>1, <3>1
  <2> QED BY <2>1, <2>2, FS_BoundedSetOfNaturals
<1>2. IsWellFoundedOn(R, FiniteSubsetsOf(Nat))
  BY FS_StrictSubsetOrderingWellFounded
<1>3. PICK b \in Family : \A c \in Family : ~ (<<c, b>> \in R)
  <2>1. Family # {}
    OBVIOUS
  <2> HIDE DEF Family, R
  <2> QED BY <1>1, <1>2, <2>1, WFMin
<1>4. PICK x \in T : b = Below(x)
  OBVIOUS
<1>5. ASSUME NEW y \in T, y < x PROVE FALSE
  <2>1. Below(y) \in Family
    OBVIOUS
  <2>2. x \in Nat /\ y \in Nat /\ ~(y < y) /\ \A z \in T : z \in Nat /\ (z < y => z < x)
    BY <1>5
  <2>3. <<Below(y), Below(x)>> \in R
    BY <1>5, <2>2 DEF StrictSubsetOrdering
  <2> QED BY <2>1, <2>3, <1>3, <1>4
<1> QED BY <1>5

-----------------------------------------------------------------------------
(* Sums *)

Sum(h, S) == MapThenSumSet(LAMBDA i : h[i], S)

Picked(T) == CHOOSE x \in T : TRUE

\* What a sum adds up to on each subset of S.
Adds(h, S, g) ==
  g = [T \in SUBSET S |-> IF T = {} THEN 0 ELSE h[Picked(T)] + g[T \ {Picked(T)}]]
IsSum(h, S, g) == g \in [SUBSET S -> Int] /\ Adds(h, S, g)

LEMMA SumExists ==
  ASSUME NEW S, IsFiniteSet(S), NEW h, \A i \in S : h[i] \in Int
  PROVE  \E g : IsSum(h, S, g)
<1> DEFINE Small(n) == {T \in SUBSET S : Cardinality(T) <= n}
           Good(n, g) ==
             /\ g \in [Small(n) -> Int]
             /\ \A T \in Small(n) :
                  g[T] = IF T = {} THEN 0 ELSE h[Picked(T)] + g[T \ {Picked(T)}]
           Bad == {n \in Nat : ~ \E g : Good(n, g)}
<1>0. \A T \in SUBSET S : IsFiniteSet(T) /\ Cardinality(T) \in Nat
  BY FS_Subset, FS_CardinalityType
<1>1. \E g : Good(0, g)
  <2>1. \A T \in Small(0) : T = {}
    BY <1>0, FS_EmptySet
  <2>2. Good(0, [T \in Small(0) |-> 0])
    BY <2>1
  <2> QED BY <2>2
<1>2. ASSUME NEW n \in Nat, \E g : Good(n, g) PROVE \E g : Good(n + 1, g)
  <2>1. PICK g : Good(n, g)
    BY <1>2
  <2> DEFINE f == [T \in Small(n + 1) |->
                     IF T = {} THEN 0 ELSE h[Picked(T)] + g[T \ {Picked(T)}]]
  <2>2. \A T \in Small(n + 1) : T # {} =>
          /\ Picked(T) \in T /\ Picked(T) \in S /\ h[Picked(T)] \in Int
          /\ T \ {Picked(T)} \in Small(n)
    <3> SUFFICES ASSUME NEW T \in Small(n + 1), T # {}
                 PROVE  /\ Picked(T) \in T /\ Picked(T) \in S /\ h[Picked(T)] \in Int
                        /\ T \ {Picked(T)} \in Small(n)
      OBVIOUS
    <3>1. Picked(T) \in T
      BY DEF Picked
    <3>2. Cardinality(T \ {Picked(T)}) = Cardinality(T) - 1
      BY <1>0, <3>1, FS_RemoveElement
    <3> QED BY <1>0, <3>1, <3>2
  <2>3. \A T \in Small(n) : T \in Small(n + 1) /\ f[T] = g[T]
    BY <1>0, <2>1
  <2>4. \A T \in Small(n + 1) : f[T] \in Int
    BY <2>1, <2>2
  <2>5. \A T \in Small(n + 1) : T # {} => f[T] = h[Picked(T)] + f[T \ {Picked(T)}]
    BY <2>2, <2>3
  <2>6. {} \in Small(n + 1) => f[{}] = 0
    OBVIOUS
  <2> QED BY <2>4, <2>5, <2>6
<1> HIDE DEF Good
<1>3. Bad = {}
  <2> SUFFICES ASSUME Bad # {} PROVE FALSE
    OBVIOUS
  <2>1. PICK n \in Bad : \A m \in Bad : n <= m
    BY LeastNatural
  <2>2. n \in Nat /\ n # 0
    BY <1>1
  <2>3. n - 1 \in Nat /\ ~(n <= n - 1) /\ n - 1 + 1 = n
    BY <2>2
  <2>4. n - 1 \notin Bad
    BY <2>1, <2>3
  <2> QED BY <1>2, <2>1, <2>3, <2>4
<1>4. PICK g : Good(Cardinality(S), g)
  BY <1>0, <1>3
<1>5. Small(Cardinality(S)) = SUBSET S
  BY <1>0, FS_Subset
<1> QED BY <1>4, <1>5 DEF Good, IsSum, Adds

\* The recursion determines it, also as a part of a larger set's.
LEMMA SumSame ==
  ASSUME NEW S, IsFiniteSet(S), NEW h, NEW T \in SUBSET S, NEW f, NEW g,
         Adds(h, T, f), Adds(h, S, g)
  PROVE  f[T] = g[T]
<1> DEFINE Bad == {n \in Nat : \E U \in SUBSET T : Cardinality(U) = n /\ f[U] # g[U]}
<1>0. \A U \in SUBSET T : U \in SUBSET S /\ IsFiniteSet(U) /\ Cardinality(U) \in Nat
  BY FS_Subset, FS_CardinalityType
<1>1. Bad = {}
  <2> SUFFICES ASSUME Bad # {} PROVE FALSE
    OBVIOUS
  <2>1. PICK n \in Bad : \A m \in Bad : n <= m
    BY LeastNatural
  <2>2. PICK U \in SUBSET T : Cardinality(U) = n /\ f[U] # g[U]
    OBVIOUS
  <2>3. f[{}] = 0 /\ g[{}] = 0
    BY DEF Adds
  <2>4. U # {}
    BY <2>2, <2>3
  <2> DEFINE x == Picked(U)
  <2>5. x \in U
    BY <2>4 DEF Picked
  <2>6. Cardinality(U \ {x}) = Cardinality(U) - 1 /\ U \ {x} \in SUBSET T
    BY <1>0, <2>5, FS_RemoveElement
  <2>7. Cardinality(U \ {x}) \in Nat /\ ~(n <= Cardinality(U \ {x}))
    BY <1>0, <2>2, <2>6
  <2>8. f[U \ {x}] = g[U \ {x}]
    BY <2>1, <2>6, <2>7
  <2>9. f[U] = h[x] + f[U \ {x}] /\ g[U] = h[x] + g[U \ {x}]
    BY <1>0, <2>4 DEF Adds
  <2> QED BY <2>2, <2>8, <2>9
<1> QED BY <1>0, <1>1

LEMMA SumIs ==
  ASSUME NEW S, IsFiniteSet(S), NEW h, \A i \in S : h[i] \in Int,
         NEW g, IsSum(h, S, g), NEW T \in SUBSET S
  PROVE  Sum(h, T) = g[T]
<1> DEFINE f ==
      CHOOSE f : Adds(h, T, f)
<1>1. Sum(h, T) = f[T]
  BY DEF Sum, MapThenSumSet, MapThenFoldSet, Picked, Adds
<1>2. Adds(h, T, f)
  <2>1. IsFiniteSet(T)
    BY FS_Subset
  <2>2. PICK k : IsSum(h, T, k)
    BY <2>1, SumExists
  <2> QED BY <2>2 DEF IsSum
<1> HIDE DEF f
<1> QED BY <1>1, <1>2, SumSame DEF IsSum

\* A sum is a number, and takes up its set element by element in any order.
LEMMA SumType ==
  ASSUME NEW S, IsFiniteSet(S), NEW h, \A i \in S : h[i] \in Int
  PROVE  Sum(h, S) \in Int
<1>1. PICK g : IsSum(h, S, g)
  BY SumExists
<1>2. g[S] \in Int
  BY <1>1 DEF IsSum
<1>3. Sum(h, S) = g[S]
  BY <1>1, SumIs
<1> QED BY <1>2, <1>3

LEMMA SumEmpty ==
  ASSUME NEW h
  PROVE  Sum(h, {}) = 0
<1>1. IsFiniteSet({})
  BY FS_EmptySet
<1>2. PICK g : IsSum(h, {}, g)
  BY <1>1, SumExists
<1>3. g[{}] = 0
  BY <1>2 DEF IsSum, Adds
<1> QED BY <1>1, <1>2, <1>3, SumIs

LEMMA SumPicked ==
  ASSUME NEW S, IsFiniteSet(S), S # {}, NEW h, \A i \in S : h[i] \in Int
  PROVE  Picked(S) \in S /\ Sum(h, S) = h[Picked(S)] + Sum(h, S \ {Picked(S)})
<1>1. PICK g : IsSum(h, S, g)
  BY SumExists
<1>2. g[S] = h[Picked(S)] + g[S \ {Picked(S)}]
  BY <1>1 DEF IsSum, Adds
<1>3. Sum(h, S) = g[S] /\ Sum(h, S \ {Picked(S)}) = g[S \ {Picked(S)}]
  BY <1>1, SumIs
<1> QED BY <1>2, <1>3 DEF Picked

LEMMA SumRemove ==
  ASSUME NEW S, IsFiniteSet(S), NEW h, \A i \in S : h[i] \in Int, NEW x \in S
  PROVE  Sum(h, S) = h[x] + Sum(h, S \ {x})
<1> DEFINE Wrong(T) == \E z \in T : Sum(h, T) # h[z] + Sum(h, T \ {z})
           Bad == {n \in Nat : \E T \in SUBSET S : Cardinality(T) = n /\ Wrong(T)}
<1>0. \A T \in SUBSET S : /\ IsFiniteSet(T) /\ Cardinality(T) \in Nat
                          /\ Sum(h, T) \in Int /\ \A i \in T : h[i] \in Int
  BY FS_Subset, FS_CardinalityType, SumType
<1>1. Bad = {}
  <2> SUFFICES ASSUME Bad # {} PROVE FALSE
    OBVIOUS
  <2>1. PICK n \in Bad : \A m \in Bad : n <= m
    BY LeastNatural
  <2>2. PICK T \in SUBSET S : Cardinality(T) = n /\ Wrong(T)
    OBVIOUS
  <2>2b. PICK z \in T : Sum(h, T) # h[z] + Sum(h, T \ {z})
    BY <2>2
  <2> DEFINE y == Picked(T)
  <2>3. y \in T /\ Sum(h, T) = h[y] + Sum(h, T \ {y})
    BY <1>0, SumPicked
  <2>4. y # z
    BY <2>2b, <2>3
  <2>5. ASSUME NEW v \in T PROVE ~Wrong(T \ {v})
    <3>1. Cardinality(T \ {v}) = Cardinality(T) - 1 /\ T \ {v} \in SUBSET S
      BY <1>0, FS_RemoveElement
    <3>2. Cardinality(T \ {v}) \in Nat /\ ~(n <= Cardinality(T \ {v}))
      BY <1>0, <2>2, <3>1
    <3> QED BY <2>1, <3>1, <3>2
  <2>6. Sum(h, T \ {y}) = h[z] + Sum(h, (T \ {y}) \ {z})
    BY <2>3, <2>4, <2>5
  <2>7. Sum(h, T \ {z}) = h[y] + Sum(h, (T \ {z}) \ {y})
    BY <2>3, <2>4, <2>5
  <2>8. (T \ {y}) \ {z} = (T \ {z}) \ {y}
    OBVIOUS
  <2>9. /\ h[y] \in Int /\ h[z] \in Int /\ Sum(h, (T \ {y}) \ {z}) \in Int
        /\ Sum(h, T \ {y}) \in Int /\ Sum(h, T \ {z}) \in Int
    BY <1>0, <2>3
  <2>10. /\ Sum(h, T) = h[y] + (h[z] + Sum(h, (T \ {z}) \ {y}))
         /\ h[z] + Sum(h, T \ {z}) = h[z] + (h[y] + Sum(h, (T \ {z}) \ {y}))
    BY <2>3, <2>6, <2>7, <2>8
  <2>11. \A a, b, c \in Int : a + (b + c) = b + (a + c)
    OBVIOUS
  <2>12. h[y] + (h[z] + Sum(h, (T \ {z}) \ {y})) = h[z] + (h[y] + Sum(h, (T \ {z}) \ {y}))
    BY <2>8, <2>9, <2>11
  <2> QED BY <2>2b, <2>10, <2>12
<1> QED BY <1>0, <1>1

\* Summing what an injection leads to.
Reached(p, T) == {p[i] : i \in T}

LEMMA SumImage ==
  ASSUME NEW T, IsFiniteSet(T), NEW p, \A i, j \in T : p[i] = p[j] => i = j,
         NEW h, NEW k, \A i \in T : k[i] = h[p[i]] /\ k[i] \in Int
  PROVE  Sum(k, T) = Sum(h, Reached(p, T))
<1> DEFINE Image(U) == {p[i] : i \in U}
           Wrong(U) == Sum(k, U) # Sum(h, Image(U))
           Bad == {n \in Nat : \E U \in SUBSET T : Cardinality(U) = n /\ Wrong(U)}
<1>0. \A U \in SUBSET T : /\ IsFiniteSet(U) /\ Cardinality(U) \in Nat
                          /\ IsFiniteSet(Image(U)) /\ \A y \in Image(U) : h[y] \in Int
  <2> SUFFICES ASSUME NEW U \in SUBSET T
               PROVE  /\ IsFiniteSet(U) /\ Cardinality(U) \in Nat
                      /\ IsFiniteSet(Image(U)) /\ \A y \in Image(U) : h[y] \in Int
    OBVIOUS
  <2>1. IsFiniteSet(U) /\ Cardinality(U) \in Nat
    BY FS_Subset, FS_CardinalityType
  <2>2. IsFiniteSet(Image(U))
    <3>1. [i \in U |-> p[i]] \in Surjection(U, Image(U))
      BY DEF Surjection
    <3> QED BY <2>1, <3>1, FS_Surjection
  <2> QED BY <2>1, <2>2
<1>1. Bad = {}
  <2> SUFFICES ASSUME Bad # {} PROVE FALSE
    OBVIOUS
  <2>1. PICK n \in Bad : \A m \in Bad : n <= m
    BY LeastNatural
  <2>2. PICK U \in SUBSET T : Cardinality(U) = n /\ Wrong(U)
    OBVIOUS
  <2>3. U # {}
    <3>1. Image({}) = {}
      OBVIOUS
    <3>2. ~Wrong({})
      BY <3>1, SumEmpty
    <3> QED BY <2>2, <3>2
  <2> DEFINE x == Picked(U)
             V == U \ {x}
  <2>4. x \in U /\ Sum(k, U) = k[x] + Sum(k, V)
    <3>1. IsFiniteSet(U) /\ \A i \in U : k[i] \in Int
      BY <1>0
    <3> QED BY <2>3, <3>1, SumPicked
  <2> HIDE DEF x
  <2>5. p[x] \in Image(U) /\ Image(V) = Image(U) \ {p[x]}
    BY <2>4
  <2>6. Sum(h, Image(U)) = h[p[x]] + Sum(h, Image(U) \ {p[x]})
    <3>1. IsFiniteSet(Image(U)) /\ \A y \in Image(U) : h[y] \in Int
      BY <1>0
    <3> HIDE DEF Image
    <3> QED BY <2>5, <3>1, SumRemove
  <2>7. ~Wrong(V)
    <3>1. Cardinality(V) = n - 1 /\ V \in SUBSET T
      BY <1>0, <2>2, <2>4, FS_RemoveElement
    <3>2. Cardinality(V) \in Nat /\ ~(n <= Cardinality(V))
      <4>1. Cardinality(V) \in Nat /\ n \in Nat
        BY <1>0, <3>1
      <4> QED BY <3>1, <4>1
    <3> QED BY <2>1, <3>1, <3>2
  <2>8. k[x] = h[p[x]]
    BY <2>4
  <2> QED BY <2>2, <2>4, <2>5, <2>6, <2>7, <2>8
<1>2. ~Wrong(T)
  BY <1>0, <1>1
<1> QED BY <1>2 DEF Reached

LEMMA SumAlike ==
  ASSUME NEW T, IsFiniteSet(T), NEW h, NEW k, \A i \in T : k[i] = h[i] /\ k[i] \in Int
  PROVE  Sum(k, T) = Sum(h, T)
<1> DEFINE p == [i \in T |-> i]
<1>1. Reached(p, T) = T /\ \A i \in T : p[i] = i
  BY DEF Reached
<1> HIDE DEF p
<1>2. Sum(k, T) = Sum(h, Reached(p, T))
  BY <1>1, SumImage
<1> QED BY <1>1, <1>2

\* A sum over a set is that over a part and that over the rest.
LEMMA SumSplit ==
  ASSUME NEW S, IsFiniteSet(S), NEW h, \A i \in S : h[i] \in Int, NEW T \in SUBSET S
  PROVE  Sum(h, S) = Sum(h, T) + Sum(h, S \ T)
<1> DEFINE Wrong(U) == Sum(h, S) # Sum(h, U) + Sum(h, S \ U)
           Bad == {n \in Nat : \E U \in SUBSET S : Cardinality(U) = n /\ Wrong(U)}
<1>0. \A U \in SUBSET S : /\ IsFiniteSet(U) /\ Cardinality(U) \in Nat
                          /\ Sum(h, U) \in Int /\ \A i \in U : h[i] \in Int
  BY FS_Subset, FS_CardinalityType, SumType
<1>1. Bad = {}
  <2> SUFFICES ASSUME Bad # {} PROVE FALSE
    OBVIOUS
  <2>1. PICK n \in Bad : \A m \in Bad : n <= m
    BY LeastNatural
  <2>2. PICK U \in SUBSET S : Cardinality(U) = n /\ Wrong(U)
    OBVIOUS
  <2>3. U # {}
    <3>1. S \ {} = S /\ Sum(h, {}) = 0 /\ Sum(h, S) \in Int
      BY <1>0, SumEmpty
    <3>2. ~Wrong({})
      BY <3>1
    <3> QED BY <2>2, <3>2
  <2>4. PICK x \in U : TRUE
    BY <2>3
  <2> DEFINE V == U \ {x}
  <2>5. Sum(h, U) = h[x] + Sum(h, V)
    BY <1>0, <2>4, SumRemove
  <2>6. Sum(h, S \ V) = h[x] + Sum(h, S \ U)
    <3>1. x \in S \ V /\ (S \ V) \ {x} = S \ U /\ S \ V \in SUBSET S
      BY <2>4
    <3>2. IsFiniteSet(S \ V) /\ \A i \in S \ V : h[i] \in Int
      BY <1>0, <3>1
    <3> HIDE DEF V
    <3>3. Sum(h, S \ V) = h[x] + Sum(h, (S \ V) \ {x})
      BY <3>1, <3>2, SumRemove
    <3> QED BY <3>1, <3>3
  <2>7. ~Wrong(V)
    <3>1. Cardinality(V) = n - 1 /\ V \in SUBSET S
      BY <1>0, <2>2, <2>4, FS_RemoveElement
    <3>2. Cardinality(V) \in Nat /\ ~(n <= Cardinality(V))
      BY <1>0, <3>1
    <3> QED BY <2>1, <3>1, <3>2
  <2>8. h[x] \in Int /\ Sum(h, V) \in Int /\ Sum(h, S \ U) \in Int
    BY <1>0, <2>4
  <2>9. \A a, b, c \in Int : b + (a + c) = (a + b) + c
    OBVIOUS
  <2>10. Sum(h, V) + (h[x] + Sum(h, S \ U)) = (h[x] + Sum(h, V)) + Sum(h, S \ U)
    BY <2>8, <2>9
  <2> QED BY <2>2, <2>5, <2>6, <2>7, <2>10
<1>2. ~Wrong(T)
  BY <1>0, <1>1
<1> QED BY <1>2

\* An inequality between multiples holds of the sums if it holds of each term.
LEMMA SumScaled ==
  ASSUME NEW S, IsFiniteSet(S), NEW h, NEW k, \A i \in S : h[i] \in Int /\ k[i] \in Int,
         NEW a \in Int, NEW b \in Int, \A i \in S : a * h[i] <= b * k[i]
  PROVE  a * Sum(h, S) <= b * Sum(k, S)
<1> DEFINE Wrong(U) == ~(a * Sum(h, U) <= b * Sum(k, U))
           Bad == {n \in Nat : \E U \in SUBSET S : Cardinality(U) = n /\ Wrong(U)}
<1>0. \A U \in SUBSET S :
        /\ IsFiniteSet(U) /\ Cardinality(U) \in Nat
        /\ Sum(h, U) \in Int /\ \A i \in U : h[i] \in Int
        /\ Sum(k, U) \in Int /\ \A i \in U : k[i] \in Int
  BY FS_Subset, FS_CardinalityType, SumType
<1>1. Bad = {}
  <2> SUFFICES ASSUME Bad # {} PROVE FALSE
    OBVIOUS
  <2>1. PICK n \in Bad : \A m \in Bad : n <= m
    BY LeastNatural
  <2>2. PICK U \in SUBSET S : Cardinality(U) = n /\ Wrong(U)
    OBVIOUS
  <2>3. U # {}
    <3>1. Sum(h, {}) = 0 /\ Sum(k, {}) = 0
      BY SumEmpty
    <3>2. a * 0 <= b * 0
      OBVIOUS
    <3> QED BY <2>2, <3>1, <3>2
  <2>4. PICK x \in U : TRUE
    BY <2>3
  <2> DEFINE V == U \ {x}
  <2>5. Sum(h, U) = h[x] + Sum(h, V) /\ Sum(k, U) = k[x] + Sum(k, V)
    BY <1>0, <2>4, SumRemove
  <2>6. ~Wrong(V)
    <3>1. Cardinality(V) = n - 1 /\ V \in SUBSET S
      BY <1>0, <2>2, <2>4, FS_RemoveElement
    <3>2. Cardinality(V) \in Nat /\ ~(n <= Cardinality(V))
      BY <1>0, <3>1
    <3> QED BY <2>1, <3>1, <3>2
  <2>7. /\ h[x] \in Int /\ Sum(h, V) \in Int /\ k[x] \in Int /\ Sum(k, V) \in Int
        /\ a * h[x] <= b * k[x]
    BY <1>0, <2>4
  <2>8. \A u, v, w, z \in Int : a * u <= b * w /\ a * v <= b * z => a * (u + v) <= b * (w + z)
    OBVIOUS
  <2>9. a * (h[x] + Sum(h, V)) <= b * (k[x] + Sum(k, V))
    BY <2>6, <2>7, <2>8
  <2> QED BY <2>2, <2>5, <2>9
<1>2. ~Wrong(S)
  BY <1>0, <1>1
<1> QED BY <1>2

-----------------------------------------------------------------------------
(* Counting a set part by part *)

LEMMA CardDisjoint ==
  ASSUME NEW S, IsFiniteSet(S), NEW T, IsFiniteSet(T), S \cap T = {}
  PROVE  /\ IsFiniteSet(S \cup T)
         /\ Cardinality(S \cup T) = Cardinality(S) + Cardinality(T)
<1>1. IsFiniteSet(S \cup T)
      /\ Cardinality(S \cup T) = Cardinality(S) + Cardinality(T) - Cardinality(S \cap T)
  BY FS_Union
<1>2. Cardinality(S \cap T) = 0
  BY FS_EmptySet
<1>3. Cardinality(S) \in Nat /\ Cardinality(T) \in Nat
  BY FS_CardinalityType
<1> QED BY <1>1, <1>2, <1>3

Part(f, A, i) == {u \in A : f[u] = i}
Parts(f, A, T) == {u \in A : f[u] \in T}

LEMMA PartsFinite ==
  ASSUME NEW A, IsFiniteSet(A), NEW f
  PROVE  /\ \A i : IsFiniteSet(Part(f, A, i)) /\ Cardinality(Part(f, A, i)) \in Nat
         /\ \A T : IsFiniteSet(Parts(f, A, T)) /\ Cardinality(Parts(f, A, T)) \in Nat
<1>1. \A U \in SUBSET A : IsFiniteSet(U) /\ Cardinality(U) \in Nat
  BY FS_Subset, FS_CardinalityType
<1>2. \A i : Part(f, A, i) \in SUBSET A
  BY DEF Part
<1>3. \A T : Parts(f, A, T) \in SUBSET A
  BY DEF Parts
<1> QED BY <1>1, <1>2, <1>3

LEMMA PartsAdd ==
  ASSUME NEW A, IsFiniteSet(A), NEW f, NEW T, NEW i \in T
  PROVE  Cardinality(Parts(f, A, T))
           = Cardinality(Part(f, A, i)) + Cardinality(Parts(f, A, T \ {i}))
<1>1. Parts(f, A, T) = Part(f, A, i) \cup Parts(f, A, T \ {i})
      /\ Part(f, A, i) \cap Parts(f, A, T \ {i}) = {}
  BY DEF Part, Parts
<1>2. IsFiniteSet(Part(f, A, i)) /\ IsFiniteSet(Parts(f, A, T \ {i}))
  BY PartsFinite
<1> QED BY <1>1, <1>2, CardDisjoint

\* Where h[i] is the size of a part of A less that of a part of C, the sum of
\* h is the size of all those parts of A less that of all those of C.
LEMMA SumParts ==
  ASSUME NEW S, IsFiniteSet(S), NEW A, IsFiniteSet(A), NEW C, IsFiniteSet(C),
         NEW f, NEW g, NEW h,
         \A i \in S : h[i] = Cardinality(Part(f, A, i)) - Cardinality(Part(g, C, i))
  PROVE  Sum(h, S) = Cardinality(Parts(f, A, S)) - Cardinality(Parts(g, C, S))
<1> DEFINE Wrong(T) == Sum(h, T) # Cardinality(Parts(f, A, T)) - Cardinality(Parts(g, C, T))
           Bad == {n \in Nat : \E T \in SUBSET S : Cardinality(T) = n /\ Wrong(T)}
<1>0. /\ \A T \in SUBSET S : IsFiniteSet(T) /\ Cardinality(T) \in Nat
      /\ \A i : Cardinality(Part(f, A, i)) \in Nat /\ Cardinality(Part(g, C, i)) \in Nat
      /\ \A T : Cardinality(Parts(f, A, T)) \in Nat /\ Cardinality(Parts(g, C, T)) \in Nat
  BY FS_Subset, FS_CardinalityType, PartsFinite
<1>1. \A i \in S : h[i] \in Int
  BY <1>0
<1>2. Bad = {}
  <2> SUFFICES ASSUME Bad # {} PROVE FALSE
    OBVIOUS
  <2>1. PICK n \in Bad : \A m \in Bad : n <= m
    BY LeastNatural
  <2>2. PICK T \in SUBSET S : Cardinality(T) = n /\ Wrong(T)
    OBVIOUS
  <2>3. T # {}
    <3>1. Parts(f, A, {}) = {} /\ Parts(g, C, {}) = {}
      BY DEF Parts
    <3>2. Sum(h, {}) = 0
      BY SumEmpty
    <3>3. Cardinality({}) = 0
      BY FS_EmptySet
    <3>4. ~Wrong({})
      BY <3>1, <3>2, <3>3
    <3> QED BY <2>2, <3>4
  <2> DEFINE i == Picked(T)
             U == T \ {i}
  <2>4. i \in T /\ Sum(h, T) = h[i] + Sum(h, U)
    <3>1. IsFiniteSet(T) /\ \A x \in T : h[x] \in Int
      BY <1>0, <1>1
    <3> QED BY <2>3, <3>1, SumPicked
  <2>5. U \in SUBSET S /\ Cardinality(U) = n - 1
    BY <1>0, <2>2, <2>4, FS_RemoveElement
  <2>6. ~Wrong(U)
    <3>1. Cardinality(U) \in Nat /\ ~(n <= Cardinality(U))
      BY <1>0, <2>5
    <3> QED BY <2>1, <2>5, <3>1
  <2>7. /\ Cardinality(Parts(f, A, T)) = Cardinality(Part(f, A, i)) + Cardinality(Parts(f, A, U))
        /\ Cardinality(Parts(g, C, T)) = Cardinality(Part(g, C, i)) + Cardinality(Parts(g, C, U))
    BY <2>4, PartsAdd
  <2>8. h[i] = Cardinality(Part(f, A, i)) - Cardinality(Part(g, C, i))
    BY <2>4
  <2> HIDE DEF i, U
  <2>9. \A a, b, c, e \in Nat : (a - b) + (c - e) = (a + c) - (b + e)
    OBVIOUS
  <2>10. Sum(h, U) = Cardinality(Parts(f, A, U)) - Cardinality(Parts(g, C, U))
    BY <2>6
  <2> QED BY <1>0, <2>2, <2>4, <2>7, <2>8, <2>9, <2>10
<1>3. ~Wrong(S)
  BY <1>0, <1>2
<1> QED BY <1>3

=============================================================================
