------------------------- MODULE ProcessWorkProofs -------------------------
(***************************************************************************)
(* The shared queue for any number of workers, items, batch size, caps and *)
(* thresholds.                                                             *)
(***************************************************************************)
EXTENDS ProcessWork, FiniteSetTheorems, TLAPS

-----------------------------------------------------------------------------
(* Types *)

\* A pop happens inside process_shared_heap(), so that a worker which gives up
\* has a slot to give back.
PopsInside == \A w \in Worker : pc[w] \in {"scan", "try", "taken"} => w \in inside

TypeInv == TypeOK /\ PopsInside

LEMMA TypeInvInit == Init => TypeInv
BY WorkAssumption, FS_EmptySet DEF Init, TypeInv, TypeOK, PopsInside

\* A worker leaves the heap, and the count with it.
LEMMA SlotReturned ==
  ASSUME TypeOK, NEW w \in inside,
         inside' = inside \ {w}, drainers' = drainers - 1
  PROVE  drainers' = Cardinality(inside') /\ drainers' <= drainCap
<1>1. IsFiniteSet(inside) /\ Cardinality(inside) \in Nat /\ drainCap \in Nat
  BY WorkAssumption, FS_Subset, FS_CardinalityType DEF TypeOK
<1>2. Cardinality(inside \ {w}) = Cardinality(inside) - 1
  BY <1>1, FS_RemoveElement
<1> QED BY <1>1, <1>2 DEF TypeOK

LEMMA TypeInvStep == TypeInv /\ [Next]_vars => TypeInv'
<1> SUFFICES ASSUME TypeInv, [Next]_vars PROVE TypeInv'
  OBVIOUS
<1> USE WorkAssumption DEF TypeInv
<1>1. ASSUME NEW w \in Worker, NEW i \in Item, Insert(w, i),
             hand' \in [Worker -> SUBSET Item], UNCHANGED drainCap
      PROVE  TypeInv'
  BY <1>1 DEF TypeOK, PopsInside, Insert
<1>2. ASSUME NEW w \in Worker, PushNew(w), UNCHANGED drainCap PROVE TypeInv'
  BY <1>2, <1>1 DEF TypeOK, PushNew, New
<1>3. ASSUME NEW w \in Worker, PutBack(w), UNCHANGED drainCap PROVE TypeInv'
  <2>1. PICK i \in hand[w] : /\ Insert(w, i)
                             /\ hand' = [hand EXCEPT ![w] = @ \ {i}]
    BY <1>3 DEF PutBack
  <2>2. i \in Item /\ hand' \in [Worker -> SUBSET Item]
    BY <2>1 DEF TypeOK
  <2> QED BY <2>1, <2>2, <1>1, <1>3
<1>4. ASSUME NEW w \in Worker, Signal(w), UNCHANGED drainCap PROVE TypeInv'
  BY <1>4 DEF TypeOK, PopsInside, Signal
<1>5. ASSUME NEW w \in Worker, Enter(w), UNCHANGED drainCap PROVE TypeInv'
  <2>1. IsFiniteSet(inside) /\ Cardinality(inside) \in Nat /\ drainCap \in Nat
    BY FS_Subset, FS_CardinalityType DEF TypeOK
  <2>2. Cardinality(inside \cup {w}) = Cardinality(inside) + 1
    BY <2>1, <1>5, FS_AddElement DEF Enter
  <2>3. drainers' = Cardinality(inside') /\ drainers' <= drainCap'
    BY <2>1, <2>2, <1>5 DEF TypeOK, Enter
  <2> QED BY <2>3, <1>5 DEF TypeOK, PopsInside, Enter
<1>6. ASSUME NEW w \in Worker, Yield(w), UNCHANGED drainCap PROVE TypeInv'
  <2>1. drainers' = Cardinality(inside') /\ drainers' <= drainCap
    BY <1>6, SlotReturned DEF Yield
  <2> QED BY <2>1, <1>6 DEF TypeOK, PopsInside, Yield
<1>7. ASSUME NEW w \in Worker, GiveUp(w), UNCHANGED drainCap PROVE TypeInv'
  <2>1. drainers' = Cardinality(inside') /\ drainers' <= drainCap
    BY <1>7, SlotReturned DEF GiveUp, PopsInside
  <2> QED BY <2>1, <1>7 DEF TypeOK, PopsInside, GiveUp
<1>8. ASSUME NEW w \in Worker, Scan(w), UNCHANGED drainCap PROVE TypeInv'
  BY <1>8 DEF TypeOK, PopsInside, Scan
<1>9. ASSUME NEW w \in Worker, Look(w), UNCHANGED drainCap PROVE TypeInv'
  <2>1. PICK b \in Worker :
          /\ left' = [left EXCEPT ![w] = @ \ {b}]
          /\ at' = [at EXCEPT ![w] = b]
          /\ pc' = [pc EXCEPT ![w] = "try"] \/ pc' = [pc EXCEPT ![w] = "scan"]
    BY <1>9 DEF TypeOK, Look
  <2> QED BY <2>1, <1>9 DEF TypeOK, PopsInside, Look
<1>10. ASSUME NEW w \in Worker, Try(w), UNCHANGED drainCap PROVE TypeInv'
  <2>1. PICK capacity \in 1..Capacity :
          /\ hand' = [hand EXCEPT ![w] = Batch(w, at[w], capacity)]
          /\ bin' = [bin EXCEPT ![at[w]] = Rest(w, at[w], capacity)]
    BY <1>10 DEF Try
  <2>2. /\ Batch(w, at[w], capacity) \subseteq Item /\ Rest(w, at[w], capacity) \subseteq Item
        /\ at[w] \in Worker
    BY DEF TypeOK, Batch, Rest
  <2> QED BY <2>1, <2>2, <1>10 DEF TypeOK, PopsInside, Try
<1>11. ASSUME NEW w \in Worker, Unlock(w), UNCHANGED drainCap PROVE TypeInv'
  <2>1. nonempty' \in [Worker -> BOOLEAN]
    BY <1>11 DEF TypeOK, Unlock, Flag
  <2>2. pc' = [pc EXCEPT ![w] = "scan"] \/ pc' = [pc EXCEPT ![w] = "free"]
    BY <1>11 DEF Unlock
  <2> QED BY <2>1, <2>2, <1>11 DEF TypeOK, PopsInside, Unlock
<1>12. ASSUME NEW w \in Worker, Consume(w), UNCHANGED drainCap PROVE TypeInv'
  BY <1>12 DEF TypeOK, PopsInside, Consume
<1>13. ASSUME NEW w \in Worker, Install(w) PROVE TypeInv'
  BY <1>13 DEF TypeOK, PopsInside, Install
<1>14. ASSUME NEW w \in Worker, Miss(w), UNCHANGED drainCap PROVE TypeInv'
  BY <1>14 DEF TypeOK, PopsInside, Miss
<1>15. CASE UNCHANGED vars
  BY <1>15 DEF vars, TypeOK, PopsInside
<1> QED BY <1>2, <1>3, <1>4, <1>5, <1>6, <1>7, <1>8, <1>9, <1>10, <1>11, <1>12,
           <1>13, <1>14, <1>15 DEF Next, Step

\* Every variable keeps its type, and the drainers are counted exactly and
\* never more than the cap (the DrainSlot of process_shared_heap()).
THEOREM TypeCorrect == Spec => []TypeOK
<1>1. Spec => []TypeInv
  BY TypeInvInit, TypeInvStep, PTL DEF Spec
<1> QED BY <1>1, PTL DEF TypeInv

-----------------------------------------------------------------------------
(* Flags *)

\* Who is between taking a lock and releasing it has it, and nobody else does;
\* behind a push the bin is not empty, and behind a pop that took nothing the
\* flag is still right.
LocksHeld ==
  \A w \in Worker : /\ pc[w] = "signal" => holder[w] = w /\ bin[w] # {}
                    /\ pc[w] = "taken" =>
                         /\ holder[at[w]] = w
                         /\ hand[w] = {} => (nonempty[at[w]] <=> bin[at[w]] # {})

FlagInv == LocksHeld /\ FlagHonest

LEMMA FlagInvInit == Init => FlagInv
BY WorkAssumption DEF Init, FlagInv, LocksHeld, FlagHonest

\* A worker that takes or releases no lock leaves all that as it is.
LEMMA LocksLeft ==
  ASSUME FlagInv, UNCHANGED <<bin, holder, nonempty>>,
         \A v \in Worker : pc'[v] = "signal" => pc[v] = "signal",
         \A v \in Worker :
           pc'[v] = "taken" => pc[v] = "taken" /\ at'[v] = at[v] /\ hand'[v] = hand[v]
  PROVE  FlagInv'
<1>1. \A v \in Worker : pc'[v] = "signal" => holder'[v] = v /\ bin'[v] # {}
  BY DEF FlagInv, LocksHeld
<1>2. \A v \in Worker :
        pc'[v] = "taken" => /\ holder'[at'[v]] = v
                            /\ hand'[v] = {} => (nonempty'[at'[v]] <=> bin'[at'[v]] # {})
  BY DEF FlagInv, LocksHeld
<1>3. FlagHonest'
  BY DEF FlagInv, FlagHonest
<1> QED BY <1>1, <1>2, <1>3 DEF FlagInv, LocksHeld

LEMMA FlagInvStep == TypeOK /\ FlagInv /\ [Next]_vars => FlagInv'
<1> SUFFICES ASSUME TypeOK, FlagInv, [Next]_vars PROVE FlagInv'
  OBVIOUS
<1> USE WorkAssumption DEF FlagInv, LocksHeld, FlagHonest
<1>1. ASSUME NEW w \in Worker, NEW i \in Item, Insert(w, i),
             \A v \in Worker \ {w} : hand'[v] = hand[v]
      PROVE  FlagInv'
  <2>1. /\ holder[w] = NoOne /\ w # NoOne /\ nonempty' = nonempty /\ at' = at
        /\ \A v \in Worker : pc'[v] = IF v = w THEN "signal" ELSE pc[v]
        /\ \A b \in Worker : holder'[b] = IF b = w THEN w ELSE holder[b]
        /\ \A b \in Worker : bin'[b] = IF b = w THEN bin[w] \cup {i} ELSE bin[b]
    BY <1>1 DEF TypeOK, Insert
  <2>2. \A v \in Worker : v # NoOne /\ at[v] \in Worker
    BY DEF TypeOK
  <2>3. \A v \in Worker : pc'[v] = "taken" => v # w /\ pc[v] = "taken" /\ at[v] # w
    BY <2>1, <2>2
  <2>4. \A v \in Worker : pc'[v] = "signal" => v = w \/ (pc[v] = "signal" /\ v # w)
    BY <2>1
  <2>5. LocksHeld'
    <3>1. \A v \in Worker : pc'[v] = "signal" => holder'[v] = v /\ bin'[v] # {}
      BY <2>1, <2>4
    <3>2. \A v \in Worker : pc'[v] = "taken" => holder'[at'[v]] = v
      BY <2>1, <2>2, <2>3
    <3>3. \A v \in Worker : pc'[v] = "taken" => hand'[v] = hand[v]
      BY <1>1, <2>3
    <3>4. \A v \in Worker : pc'[v] = "taken" =>
            nonempty'[at'[v]] = nonempty[at[v]] /\ bin'[at'[v]] = bin[at[v]]
      BY <2>1, <2>2, <2>3
    <3>5. \A v \in Worker :
            pc'[v] = "taken" => (hand'[v] = {} => (nonempty'[at'[v]] <=> bin'[at'[v]] # {}))
      BY <2>3, <3>3, <3>4
    <3> QED BY <3>1, <3>2, <3>5
  <2>6. FlagHonest'
    BY <2>1
  <2> QED BY <2>5, <2>6
<1>2. ASSUME NEW w \in Worker, PushNew(w) PROVE FlagInv'
  BY <1>2, <1>1 DEF PushNew, New
<1>3. ASSUME NEW w \in Worker, PutBack(w) PROVE FlagInv'
  <2>1. PICK i \in hand[w] : Insert(w, i) /\ hand' = [hand EXCEPT ![w] = @ \ {i}]
    BY <1>3 DEF PutBack
  <2>2. i \in Item /\ \A v \in Worker \ {w} : hand'[v] = hand[v]
    BY <2>1 DEF TypeOK
  <2> QED BY <2>1, <2>2, <1>1
<1>4. ASSUME NEW w \in Worker, Signal(w) PROVE FlagInv'
  <2>1. /\ holder[w] = w /\ bin[w] # {} /\ bin' = bin /\ at' = at /\ hand' = hand
        /\ \A v \in Worker : pc'[v] = IF v = w THEN "free" ELSE pc[v]
        /\ \A b \in Worker : holder'[b] = IF b = w THEN NoOne ELSE holder[b]
        /\ nonempty'[w] /\ \A b \in Worker : b # w => nonempty'[b] = nonempty[b]
    BY <1>4 DEF TypeOK, Signal
  <2>2. \A v \in Worker : pc'[v] = "signal" => v # w /\ pc[v] = "signal"
    BY <2>1
  <2>3. \A v \in Worker : pc'[v] = "taken" => v # w /\ pc[v] = "taken" /\ at[v] # w /\ at[v] \in Worker
    BY <2>1 DEF TypeOK
  <2>4. LocksHeld'
    BY <2>1, <2>2, <2>3
  <2>5. FlagHonest'
    BY <2>1
  <2> QED BY <2>4, <2>5
<1>5. ASSUME NEW w \in Worker,
             \/ Enter(w) \/ Yield(w) \/ GiveUp(w) \/ Scan(w) \/ Look(w) \/ Miss(w)
             \/ Consume(w) \/ Install(w)
      PROVE  FlagInv'
  <2>1. UNCHANGED <<bin, holder, nonempty>>
    BY <1>5 DEF Enter, Yield, GiveUp, Scan, Look, Miss, Consume, Install
  <2>2. pc' = pc \/ \E s \in {"free", "scan", "try"} : pc' = [pc EXCEPT ![w] = s]
    BY <1>5 DEF Enter, Yield, GiveUp, Scan, Look, Miss, Consume, Install
  <2>3. \A v \in Worker : pc'[v] \in {"signal", "taken"} => pc'[v] = pc[v]
    BY <2>2 DEF TypeOK
  <2>4. /\ pc[w] # "taken"
        /\ \A v \in Worker \ {w} : at'[v] = at[v] /\ hand'[v] = hand[v]
    <3>1. CASE Enter(w) \/ Yield(w) \/ GiveUp(w) \/ Scan(w) \/ Miss(w) \/ Install(w)
      BY <3>1 DEF Enter, Yield, GiveUp, Scan, Miss, Install
    <3>2. CASE Look(w)
      BY <3>2 DEF TypeOK, Look
    <3>3. CASE Consume(w)
      BY <3>3 DEF TypeOK, Consume
    <3> QED BY <1>5, <3>1, <3>2, <3>3
  <2> QED BY <2>1, <2>3, <2>4, LocksLeft
<1>6. ASSUME NEW w \in Worker, Try(w) PROVE FlagInv'
  <2>1. PICK capacity \in 1..Capacity :
          /\ hand' = [hand EXCEPT ![w] = Batch(w, at[w], capacity)]
          /\ bin' = [bin EXCEPT ![at[w]] = Rest(w, at[w], capacity)]
    BY <1>6 DEF Try
  <2>2. /\ holder[at[w]] = NoOne /\ w # NoOne /\ at[w] \in Worker
        /\ nonempty' = nonempty /\ at' = at
        /\ \A v \in Worker : pc'[v] = IF v = w THEN "taken" ELSE pc[v]
        /\ \A b \in Worker : holder'[b] = IF b = at[w] THEN w ELSE holder[b]
    BY <1>6 DEF TypeOK, Try
  <2>3. /\ \A v \in Worker \ {w} : hand'[v] = hand[v]
        /\ \A b \in Worker \ {at[w]} : bin'[b] = bin[b]
        /\ hand'[w] = {} => bin'[at[w]] = bin[at[w]]
    <3>1. Batch(w, at[w], capacity) = {} => Rest(w, at[w], capacity) = bin[at[w]]
      BY DEF Rest
    <3> QED BY <2>1, <3>1 DEF TypeOK
  <2>4. nonempty[at[w]] <=> bin[at[w]] # {}
    BY <2>2
  <2>5. LocksHeld'
    <3>1. \A v \in Worker : v # NoOne /\ at[v] \in Worker
      BY DEF TypeOK
    <3>2. \A v \in Worker : pc'[v] = "signal" => v # at[w] /\ v # w /\ pc[v] = "signal"
      BY <2>2, <3>1
    <3>3. \A v \in Worker : pc'[v] = "taken" => v = w \/ (v # w /\ pc[v] = "taken" /\ at[v] # at[w])
      BY <2>2, <3>1
    <3> QED BY <2>2, <2>3, <2>4, <3>1, <3>2, <3>3
  <2>6. FlagHonest'
    BY <2>2, <2>3
  <2> QED BY <2>5, <2>6
<1>7. ASSUME NEW w \in Worker, Unlock(w) PROVE FlagInv'
  <2>1. /\ at[w] \in Worker /\ holder[at[w]] = w /\ w # NoOne
        /\ bin' = bin /\ at' = at /\ hand' = hand
        /\ \A v \in Worker : v # w => pc'[v] = pc[v]
        /\ pc'[w] \in {"scan", "free"}
        /\ \A b \in Worker : holder'[b] = IF b = at[w] THEN NoOne ELSE holder[b]
        /\ \A b \in Worker : b # at[w] => nonempty'[b] = nonempty[b]
    BY <1>7 DEF TypeOK, Unlock
  <2>2. nonempty'[at[w]] <=> bin[at[w]] # {}
    <3>1. CASE hand[w] = {}
      BY <1>7, <3>1 DEF Unlock
    <3>2. CASE hand[w] # {}
      <4>1. nonempty' = [nonempty EXCEPT ![at[w]] = Flag(at[w])]
        BY <1>7, <3>2 DEF Unlock
      <4>2. nonempty'[at[w]] = Flag(at[w])
        BY <2>1, <4>1 DEF TypeOK
      <4> QED BY <4>2 DEF Flag
    <3> QED BY <3>1, <3>2
  <2>3. LocksHeld'
    <3>1. \A v \in Worker : pc'[v] = "signal" => v # w /\ pc[v] = "signal" /\ holder'[v] = holder[v]
      BY <2>1
    <3>2. \A v \in Worker : pc'[v] = "taken" => v # w /\ pc[v] = "taken" /\ at[v] # at[w]
      BY <2>1
    <3>3. \A v \in Worker : at[v] \in Worker
      BY DEF TypeOK
    <3> QED BY <2>1, <3>1, <3>2, <3>3
  <2>4. FlagHonest'
    BY <2>1, <2>2
  <2> QED BY <2>3, <2>4
<1>8. CASE UNCHANGED vars
  BY <1>8, LocksLeft DEF vars
<1> QED BY <1>2, <1>3, <1>4, <1>5, <1>6, <1>7, <1>8 DEF Next, Step

\* The flag of a bin that nobody holds is right (push() and pop_bin()).
THEOREM FlagsHonest == Spec => []FlagHonest
<1>1. Spec => [](TypeOK /\ FlagInv)
  BY FlagInvInit, FlagInvStep, TypeCorrect, PTL DEF Spec
<1> QED BY <1>1, PTL DEF FlagInv

-----------------------------------------------------------------------------
(* The pool *)

\* An item is in one bin, in one worker's hand, or consumed.
OnePlace ==
  \A i \in Item, a, b \in Worker :
    /\ i \in bin[a] /\ i \in bin[b] => a = b
    /\ i \in hand[a] /\ i \in hand[b] => a = b
    /\ ~(i \in bin[a] /\ i \in hand[b])
    /\ i \in spent => i \notin bin[a] /\ i \notin hand[a]

LEMMA OnePlaceInit == Init => OnePlace /\ Pool!Init
BY DEF Init, OnePlace, Pool!Init, PlaceMap, Where, Pooled

\* What a step does to one item, from what it does to the bins and hands.
LEMMA ItemStays ==
  ASSUME NEW i \in Item,
         \A b \in Worker : i \in bin'[b] <=> i \in bin[b],
         \A v \in Worker : i \in hand'[v] <=> i \in hand[v],
         i \in spent' <=> i \in spent
  PROVE  Where(i)' = Where(i)
<1>1. (i \in Pooled)' <=> i \in Pooled
  BY DEF Pooled
<1>2. {w \in Worker : i \in hand'[w]} = {w \in Worker : i \in hand[w]}
  OBVIOUS
<1> QED BY <1>1, <1>2 DEF Where

LEMMA ItemPooled ==
  ASSUME NEW i \in Item, NEW b \in Worker, i \in bin[b],
         \A v \in Worker : i \notin hand[v], i \notin spent
  PROVE  Where(i) = {"pool"}
BY DEF Where, Pooled

LEMMA ItemInHand ==
  ASSUME NEW i \in Item, NEW w \in Worker,
         \A b \in Worker : i \notin bin[b],
         \A v \in Worker : i \in hand[v] <=> v = w,
         i \notin spent
  PROVE  Where(i) = {w}
BY DEF Where, Pooled

\* A push makes the item the pool's, whether it is new or was in hand.
LEMMA Pushed ==
  ASSUME OnePlace, NEW w \in Worker, NEW i \in Item,
         \A b \in Worker : i \notin bin[b],
         \A v \in Worker : i \in hand[v] => v = w,
         i \notin spent,
         \A b \in Worker, j \in Item : j \in bin'[b] <=> j \in bin[b] \/ (b = w /\ j = i),
         \A v \in Worker, j \in Item : j \in hand'[v] <=> j \in hand[v] /\ j # i,
         spent' = spent
  PROVE  OnePlace' /\ Pool!Put(w, i)
<1>1. ASSUME NEW j \in Item, j # i
      PROVE  /\ \A b \in Worker : j \in bin'[b] <=> j \in bin[b]
             /\ \A v \in Worker : j \in hand'[v] <=> j \in hand[v]
  BY <1>1
<1>2. OnePlace'
  <2> SUFFICES ASSUME NEW j \in Item, NEW a \in Worker, NEW b \in Worker
               PROVE  /\ j \in bin'[a] /\ j \in bin'[b] => a = b
                      /\ j \in hand'[a] /\ j \in hand'[b] => a = b
                      /\ ~(j \in bin'[a] /\ j \in hand'[b])
                      /\ j \in spent' => j \notin bin'[a] /\ j \notin hand'[a]
    BY DEF OnePlace
  <2>1. CASE j = i
    BY <2>1
  <2>2. CASE j # i
    BY <2>2, <1>1 DEF OnePlace
  <2> QED BY <2>1, <2>2
<1>3. Where(i) \in {{}, {w}}
  <2>1. {v \in Worker : i \in hand[v]} \in {{}, {w}}
    OBVIOUS
  <2>2. i \notin Pooled
    BY DEF Pooled
  <2> QED BY <2>1, <2>2 DEF Where
<1>4. Where(i)' = {"pool"}
  <2>1. i \in Pooled'
    BY DEF Pooled
  <2>2. {v \in Worker : i \in hand'[v]} = {}
    OBVIOUS
  <2> QED BY <2>1, <2>2 DEF Where
<1>5. ASSUME NEW j \in Item, j # i PROVE Where(j)' = Where(j)
  BY <1>1, <1>5, ItemStays
<1>6. PlaceMap' = [PlaceMap EXCEPT ![i] = {"pool"}]
  BY <1>4, <1>5 DEF PlaceMap
<1> QED BY <1>2, <1>3, <1>6 DEF Pool!Put, Pool!InPool, PlaceMap

\* The item is done with.
LEMMA Spent ==
  ASSUME TypeOK, OnePlace, NEW w \in Worker, Consume(w)
  PROVE  OnePlace' /\ Pool!Next
<1>1. PICK i \in hand[w] : /\ hand' = [hand EXCEPT ![w] = @ \ {i}]
                           /\ spent' = spent \cup {i}
                           /\ bin' = bin
  BY DEF Consume
<1>2. /\ i \in Item /\ i \notin spent
      /\ \A b \in Worker : i \notin bin[b]
      /\ \A v \in Worker : i \in hand[v] <=> v = w
  BY DEF TypeOK, OnePlace
<1>3. \A v \in Worker : hand'[v] = IF v = w THEN hand[v] \ {i} ELSE hand[v]
  BY <1>1 DEF TypeOK
<1>4. OnePlace'
  BY <1>1, <1>2, <1>3 DEF OnePlace
<1>5. Where(i) = {w}
  BY <1>2, ItemInHand
<1>6. Where(i)' = {"spent"}
  <2>1. i \notin Pooled'
    BY <1>1, <1>2 DEF Pooled
  <2>2. {v \in Worker : i \in hand'[v]} = {}
    BY <1>2, <1>3
  <2> QED BY <2>1, <2>2, <1>1 DEF Where
<1>7. ASSUME NEW j \in Item, j # i PROVE Where(j)' = Where(j)
  BY <1>1, <1>3, <1>7, ItemStays
<1>8. PlaceMap' = [PlaceMap EXCEPT ![i] = {"spent"}]
  BY <1>6, <1>7 DEF PlaceMap
<1>9. Pool!Spend(w, i)
  BY <1>2, <1>5, <1>8 DEF Pool!Spend, PlaceMap
<1> QED BY <1>2, <1>4, <1>9 DEF Pool!Next

\* A batch goes from a bin to a hand.
LEMMA Taken ==
  ASSUME TypeOK, OnePlace, NEW w \in Worker, NEW b \in Worker,
         NEW taken \in SUBSET bin[b], taken # {}, hand[w] = {},
         hand' = [hand EXCEPT ![w] = taken],
         bin' = [bin EXCEPT ![b] = @ \ taken],
         spent' = spent
  PROVE  OnePlace' /\ Pool!Next
<1>1. /\ \A a \in Worker : bin'[a] = IF a = b THEN bin[a] \ taken ELSE bin[a]
      /\ \A v \in Worker : hand'[v] = IF v = w THEN taken ELSE hand[v]
      /\ taken \subseteq Item
  BY DEF TypeOK
<1>2. OnePlace'
  BY <1>1 DEF OnePlace
<1>3. ASSUME NEW j \in taken PROVE Where(j) = {"pool"}
  <2>1. /\ j \in Item /\ j \in bin[b] /\ j \notin spent
        /\ \A v \in Worker : j \notin hand[v]
    BY <1>1 DEF OnePlace
  <2> QED BY <2>1, ItemPooled
<1>4. ASSUME NEW j \in taken PROVE Where(j)' = {w}
  <2>1. j \in Item /\ j \in bin[b] /\ j \notin spent
    BY <1>1 DEF OnePlace
  <2>2. j \notin Pooled'
    BY <2>1, <1>1 DEF Pooled, OnePlace
  <2>3. {v \in Worker : j \in hand'[v]} = {w}
    BY <2>1, <1>1 DEF OnePlace
  <2> QED BY <2>1, <2>2, <2>3 DEF Where
<1>5. ASSUME NEW j \in Item, j \notin taken PROVE Where(j)' = Where(j)
  BY <1>1, <1>5, ItemStays
<1>6. PlaceMap' = [i \in Item |-> IF i \in taken THEN {w} ELSE PlaceMap[i]]
  BY <1>4, <1>5 DEF PlaceMap
<1>7. Pool!Take(w, taken)
  BY <1>1, <1>3, <1>6 DEF Pool!Take, Pool!InPool, PlaceMap
<1> QED BY <1>1, <1>2, <1>7 DEF Pool!Next

\* A pop looks with nothing in hand.
PopsEmptyHanded == \A w \in Worker : pc[w] \in {"scan", "try"} => hand[w] = {}

LEMMA EmptyHandedStep == TypeOK /\ PopsEmptyHanded /\ [Next]_vars => PopsEmptyHanded'
<1> SUFFICES ASSUME TypeOK, PopsEmptyHanded, [Next]_vars PROVE PopsEmptyHanded'
  OBVIOUS
<1> USE DEF TypeOK, PopsEmptyHanded
<1>1. ASSUME NEW w \in Worker, PushNew(w) \/ PutBack(w) PROVE PopsEmptyHanded'
  <2>1. /\ pc' = [pc EXCEPT ![w] = "signal"]
        /\ \A v \in Worker : hand'[v] \subseteq hand[v]
    <3>1. CASE PushNew(w)
      <4>1. hand' = hand /\ pc' = [pc EXCEPT ![w] = "signal"]
        BY <3>1 DEF PushNew, Insert
      <4> QED BY <4>1
    <3>2. CASE PutBack(w)
      <4>1. PICK i \in hand[w] : /\ pc' = [pc EXCEPT ![w] = "signal"]
                                 /\ hand' = [hand EXCEPT ![w] = @ \ {i}]
        BY <3>2 DEF PutBack, Insert
      <4> QED BY <4>1
    <3> QED BY <1>1, <3>1, <3>2
  <2> QED BY <2>1
<1>2. ASSUME NEW w \in Worker,
             Signal(w) \/ Enter(w) \/ Yield(w) \/ GiveUp(w) \/ Unlock(w) \/ Miss(w) \/ Install(w)
      PROVE  PopsEmptyHanded'
  BY <1>2 DEF Signal, Enter, Yield, GiveUp, Unlock, Miss, Install
<1>3. ASSUME NEW w \in Worker, Scan(w) \/ Consume(w) PROVE PopsEmptyHanded'
  <2>1. CASE Scan(w)
    BY <2>1 DEF Scan
  <2>2. CASE Consume(w)
    <3>1. pc' = pc /\ \A v \in Worker : hand'[v] \subseteq hand[v]
      BY <2>2 DEF Consume
    <3> QED BY <3>1
  <2> QED BY <1>3, <2>1, <2>2
<1>4. ASSUME NEW w \in Worker, Look(w) PROVE PopsEmptyHanded'
  <2>1. pc[w] = "scan" /\ UNCHANGED hand /\ \A v \in Worker \ {w} : pc'[v] = pc[v]
    BY <1>4 DEF Look
  <2>2. hand[w] = {} /\ hand' = hand
    BY <2>1
  <2> QED BY <2>1, <2>2
<1>5. ASSUME NEW w \in Worker, Try(w) PROVE PopsEmptyHanded'
  <2>1. pc' = [pc EXCEPT ![w] = "taken"] /\ \A v \in Worker \ {w} : hand'[v] = hand[v]
    BY <1>5 DEF Try
  <2> QED BY <2>1
<1>6. CASE UNCHANGED vars
  BY <1>6 DEF vars
<1> QED BY <1>1, <1>2, <1>3, <1>4, <1>5, <1>6 DEF Next, Step

\* Every step keeps items in one place, and moves them as WorkPool allows.
LEMMA PoolStep ==
  TypeOK /\ OnePlace /\ PopsEmptyHanded /\ [Next]_vars =>
    OnePlace' /\ [Pool!Next]_PlaceMap
<1> SUFFICES ASSUME TypeOK, OnePlace, PopsEmptyHanded, [Next]_vars
             PROVE  OnePlace' /\ (Pool!Next \/ UNCHANGED PlaceMap)
  OBVIOUS
<1>1. ASSUME NEW w \in Worker, PushNew(w) PROVE OnePlace' /\ Pool!Next
  <2>1. PICK i \in New : Insert(w, i) /\ UNCHANGED hand
    BY <1>1 DEF PushNew
  <2>2. /\ i \in Item /\ i \notin spent
        /\ \A b \in Worker : i \notin bin[b] /\ i \notin hand[b]
    BY DEF New, Pooled, InHand
  <2>3. /\ \A b \in Worker, j \in Item : j \in bin'[b] <=> j \in bin[b] \/ (b = w /\ j = i)
        /\ spent' = spent
    BY <2>1 DEF TypeOK, Insert
  <2>4. \A v \in Worker, j \in Item : j \in hand'[v] <=> j \in hand[v] /\ j # i
    BY <2>1, <2>2
  <2>5. OnePlace' /\ Pool!Put(w, i)
    BY <2>2, <2>3, <2>4, Pushed
  <2> QED BY <2>2, <2>5 DEF Pool!Next
<1>2. ASSUME NEW w \in Worker, PutBack(w) PROVE OnePlace' /\ Pool!Next
  <2>1. PICK i \in hand[w] : /\ Insert(w, i)
                             /\ hand' = [hand EXCEPT ![w] = @ \ {i}]
    BY <1>2 DEF PutBack
  <2>2. /\ i \in Item /\ i \notin spent
        /\ \A b \in Worker : i \notin bin[b]
        /\ \A v \in Worker : i \in hand[v] => v = w
    BY DEF TypeOK, OnePlace
  <2>3. /\ \A b \in Worker, j \in Item : j \in bin'[b] <=> j \in bin[b] \/ (b = w /\ j = i)
        /\ spent' = spent
    BY <2>1 DEF TypeOK, Insert
  <2>4. \A v \in Worker, j \in Item : j \in hand'[v] <=> j \in hand[v] /\ j # i
    BY <2>1, <2>2 DEF TypeOK
  <2>5. OnePlace' /\ Pool!Put(w, i)
    BY <2>2, <2>3, <2>4, Pushed
  <2> QED BY <2>2, <2>5 DEF Pool!Next
<1>3. ASSUME NEW w \in Worker, Consume(w) PROVE OnePlace' /\ Pool!Next
  BY <1>3, Spent
<1>4. CASE UNCHANGED <<bin, hand, spent>>
  BY <1>4 DEF OnePlace, PlaceMap, Where, Pooled
<1>5. ASSUME NEW w \in Worker, Try(w)
      PROVE  OnePlace' /\ (Pool!Next \/ UNCHANGED PlaceMap)
  <2>1. at[w] \in Worker /\ hand[w] = {} /\ spent' = spent
    BY <1>5 DEF TypeOK, PopsEmptyHanded, Try
  <2>2. PICK capacity \in 1..Capacity :
          /\ hand' = [hand EXCEPT ![w] = Batch(w, at[w], capacity)]
          /\ bin' = [bin EXCEPT ![at[w]] = Rest(w, at[w], capacity)]
    BY <1>5 DEF Try
  <2> DEFINE taken == Batch(w, at[w], capacity)
  <2>3. taken \subseteq bin[at[w]] /\ bin' = [bin EXCEPT ![at[w]] = @ \ taken]
    BY <2>2 DEF Batch, Rest
  <2>4. hand' = [hand EXCEPT ![w] = taken]
    BY <2>2
  <2> HIDE DEF taken
  <2>5. CASE taken = {}
    <3>1. hand' = hand /\ bin' = bin
      BY <2>1, <2>3, <2>4, <2>5 DEF TypeOK
    <3> QED BY <2>1, <3>1, <1>4
  <2>6. CASE taken # {}
    BY <2>1, <2>3, <2>4, <2>6, Taken
  <2> QED BY <2>5, <2>6
<1>6. ASSUME NEW w \in Worker, Signal(w) \/ Enter(w) \/ Yield(w) \/ Scan(w)
                               \/ Look(w) \/ GiveUp(w) \/ Miss(w) \/ Unlock(w) \/ Install(w)
      PROVE  UNCHANGED <<bin, hand, spent>>
  BY <1>6 DEF Signal, Enter, Yield, Scan, Look, GiveUp, Miss, Unlock, Install
<1> QED BY <1>1, <1>2, <1>3, <1>4, <1>5, <1>6 DEF Next, Step, vars

\* The bins, flags and missed locks of process_work.h implement a pool: an item
\* is never lost, copied, or handed to two workers.
THEOREM PoolImplemented == Spec => PoolSpec
<1>1. Init => PopsEmptyHanded
  BY DEF Init, PopsEmptyHanded
<1>2. Spec => [](TypeOK /\ PopsEmptyHanded /\ OnePlace)
  BY <1>1, OnePlaceInit, EmptyHandedStep, PoolStep, TypeCorrect, PTL DEF Spec
<1> QED BY <1>2, OnePlaceInit, PoolStep, PTL DEF Spec, PoolSpec, Pool!Spec
=============================================================================
