------------------------- MODULE ControlNodeProofs -------------------------
(***************************************************************************)
(* The node-level control path for any number of processes, workers and    *)
(* rounds.                                                                 *)
(***************************************************************************)
EXTENDS ControlNode, FiniteSetTheorems, TLAPS

-----------------------------------------------------------------------------
(* The inductive invariant *)

\* A handler of thresholds(): the process, the round, the store it is at, and
\* the PEs it has not yet sent the fallback to.
Handler == [node : Node, gen : Round, step : 1 .. 3, left : SUBSET PE]

TypeOK ==
  /\ latest \in [Node -> Round] /\ generation \in [Node -> Round]
  /\ publishing \subseteq Handler
  /\ pc \in [PE -> {"idle", "check", "get", "contribute"}]
  /\ applied \in [PE -> Round]
  /\ opened \in Round

\* Which round a PE and its process's announcement may be at.
OneRoundApart ==
  /\ \A n \in Node : generation[n] = opened \/ generation[n] + 1 = opened
  /\ \A p \in PE :
       /\ applied[p] = opened \/ (applied[p] + 1 = opened /\ pc[p] # "contribute")
       /\ applied[p] = opened => generation[NodeOf[p]] = opened
       /\ pc[p] = "get" => applied[p] # opened /\ generation[NodeOf[p]] = opened

\* What is announced has been recorded, and nothing is announced twice.
RecordedFirst ==
  /\ \A n \in Node : generation[n] = opened => latest[n] = opened
  /\ \A h \in publishing :
       /\ h.gen <= opened
       /\ h.step # 3 => h.gen = opened /\ generation[h.node] # opened
       /\ h.step = 2 => latest[h.node] = opened
  /\ \A h, k \in publishing : h.node = k.node /\ h.gen = k.gen => h = k

RoundInv == TypeOK /\ OneRoundApart /\ RecordedFirst

\* The PEs that have answered the open round, and where their answers are.
Answered == {p \in PE : applied[p] = opened /\ pc[p] # "contribute"}
Answers(S) == {<<p, opened>> : p \in S}
Forwarded == {n \in Node : PEsOf(n) \subseteq Answered}
Pending(n) == IF n \in Forwarded THEN {} ELSE PEsOf(n) \cap Answered
SumOf(n) == [node |-> n, sum |-> Answers(PEsOf(n))]
Collected == {n \in Forwarded : SumOf(n) \notin collecting}

Accumulated ==
  \A n \in Node : acc[n] = Answers(Pending(n)) /\ accCount[n] = Cardinality(Pending(n))

Gathered ==
  /\ acc \in [Node -> SUBSET (PE \X Round)] /\ accCount \in [Node -> Nat]
  /\ Accumulated
  /\ \A m \in collecting : \E n \in Forwarded : m = SumOf(n)
  /\ IF Collected = Node
     THEN root = {} /\ rootCount = 0 /\ ready = Answers(PE)
     ELSE /\ root = Answers({p \in PE : NodeOf[p] \in Collected})
          /\ rootCount = Cardinality(Collected)
          /\ ready = {}

-----------------------------------------------------------------------------
(* Rounds *)

LEMMA RoundInvInit == Init => RoundInv
BY ControlAssumption DEF Init, RoundInv, TypeOK, OneRoundApart, RecordedFirst, Round

\* A total means that every PE has answered, and its process announced the round.
LEMMA AllAnswered ==
  ASSUME Gathered, ready # {}
  PROVE  /\ Answered = PE /\ Collected = Node /\ ready = Answers(PE)
         /\ \E p \in PE : TRUE
<1>1. Collected = Node /\ ready = Answers(PE)
  BY DEF Gathered
<1>2. \A p \in PE : NodeOf[p] \in Node /\ p \in PEsOf(NodeOf[p])
  BY ControlAssumption DEF PEsOf
<1>3. Answered = PE
  BY <1>1, <1>2 DEF Collected, Forwarded, Answered
<1> QED BY <1>1, <1>3 DEF Answers

LEMMA RoundInvStep == RoundInv /\ Gathered /\ [Next]_vars => RoundInv'
<1> SUFFICES ASSUME RoundInv, Gathered, [Next]_vars PROVE RoundInv'
  OBVIOUS
<1> USE ControlAssumption DEF RoundInv, Round
<1>1. ASSUME NEW h \in publishing, StoreRecord(h), UNCHANGED <<pc, applied, opened>>
      PROVE  RoundInv'
  <2>1. h \in Handler /\ h.step = 1 /\ h.gen = opened /\ generation[h.node] # opened
    BY <1>1 DEF StoreRecord, Stores, TypeOK, Handler, RecordedFirst
  <2> DEFINE next == [h EXCEPT !.step = @ + 1]
  <2>2. next \in Handler /\ next.step = 2 /\ next.node = h.node /\ next.gen = h.gen
    BY <2>1 DEF Handler
  <2>3. publishing' = (publishing \ {h}) \cup {next} /\ latest' = [latest EXCEPT ![h.node] = h.gen]
        /\ UNCHANGED <<generation, pc, applied, opened>>
    BY <1>1 DEF StoreRecord
  <2> HIDE DEF next
  <2>4. TypeOK'
    BY <2>1, <2>2, <2>3 DEF TypeOK, Handler
  <2>5. OneRoundApart'
    BY <2>3 DEF OneRoundApart
  <2>6. RecordedFirst'
    <3>1. \A n \in Node : generation'[n] = opened' => latest'[n] = opened'
      BY <2>1, <2>3 DEF RecordedFirst, TypeOK, Handler
    <3>2. \A k \in publishing' :
            /\ k.gen <= opened'
            /\ k.step # 3 => k.gen = opened' /\ generation'[k.node] # opened'
            /\ k.step = 2 => latest'[k.node] = opened'
      BY <2>1, <2>2, <2>3 DEF RecordedFirst, TypeOK, Handler
    <3>3. \A i, k \in publishing' : i.node = k.node /\ i.gen = k.gen => i = k
      BY <2>2, <2>3 DEF RecordedFirst
    <3> QED BY <3>1, <3>2, <3>3 DEF RecordedFirst
  <2> QED BY <2>4, <2>5, <2>6
<1>2. ASSUME NEW h \in publishing, StoreGeneration(h), UNCHANGED <<pc, applied, opened>>
      PROVE  RoundInv'
  <2>1. /\ h \in Handler /\ h.step = 2 /\ h.gen = opened /\ generation[h.node] # opened
        /\ latest[h.node] = opened
    BY <1>2 DEF StoreGeneration, Stores, TypeOK, Handler, RecordedFirst
  <2> DEFINE next == [h EXCEPT !.step = @ + 1]
  <2>2. next \in Handler /\ next.step = 3 /\ next.node = h.node /\ next.gen = h.gen
    BY <2>1 DEF Handler
  <2>3. publishing' = (publishing \ {h}) \cup {next}
        /\ generation' = [generation EXCEPT ![h.node] = h.gen]
        /\ UNCHANGED <<latest, pc, applied, opened>>
    BY <1>2 DEF StoreGeneration
  <2> HIDE DEF next
  <2>4. TypeOK'
    BY <2>1, <2>2, <2>3 DEF TypeOK, Handler
  <2>5. OneRoundApart'
    BY <2>1, <2>3 DEF OneRoundApart, TypeOK, Handler
  <2>6. RecordedFirst'
    <3>1. \A n \in Node : generation'[n] = opened' => latest'[n] = opened'
      BY <2>1, <2>3 DEF RecordedFirst, TypeOK, Handler
    <3>2. \A k \in publishing' :
            /\ k.gen <= opened'
            /\ k.step # 3 => k.gen = opened' /\ generation'[k.node] # opened'
            /\ k.step = 2 => latest'[k.node] = opened'
      BY <2>1, <2>2, <2>3 DEF RecordedFirst, TypeOK, Handler
    <3>3. \A i, k \in publishing' : i.node = k.node /\ i.gen = k.gen => i = k
      BY <2>2, <2>3 DEF RecordedFirst
    <3> QED BY <3>1, <3>2, <3>3 DEF RecordedFirst
  <2> QED BY <2>4, <2>5, <2>6
<1>3. ASSUME NEW h \in publishing, SendFallback(h), UNCHANGED <<pc, applied, opened>>
      PROVE  RoundInv'
  <2>1. h \in Handler /\ h.step = 3
    BY <1>3 DEF SendFallback, Stores, TypeOK, Handler
  <2>2. PICK p \in h.left :
          publishing' = (publishing \ {h}) \cup
                          (IF h.left = {p} THEN {} ELSE {[h EXCEPT !.left = @ \ {p}]})
    BY <1>3 DEF SendFallback
  <2> DEFINE next == [h EXCEPT !.left = @ \ {p}]
  <2>3. /\ next \in Handler /\ next.step = 3 /\ next.node = h.node /\ next.gen = h.gen
        /\ publishing' \subseteq (publishing \ {h}) \cup {next}
        /\ UNCHANGED <<latest, generation, pc, applied, opened>>
    BY <1>3, <2>1, <2>2 DEF Handler, SendFallback
  <2> HIDE DEF next
  <2>4. TypeOK' /\ OneRoundApart'
    BY <2>3 DEF TypeOK, OneRoundApart
  <2>5. RecordedFirst'
    BY <2>3 DEF RecordedFirst
  <2> QED BY <2>4, <2>5
<1>4. ASSUME NEW p \in PE, MaybePickup(p) \/ PickupFallback(p) \/ Check(p) PROVE RoundInv'
  <2>1. /\ UNCHANGED <<latest, generation, publishing, applied, opened>>
        /\ \/ pc' = [pc EXCEPT ![p] = "check"]
           \/ pc' = [pc EXCEPT ![p] = "idle"]
           \/ generation[NodeOf[p]] # applied[p] /\ pc' = [pc EXCEPT ![p] = "get"]
    BY <1>4 DEF MaybePickup, PickupFallback, Check, controller
  <2>2. TypeOK' /\ RecordedFirst'
    BY <2>1 DEF TypeOK, RecordedFirst
  <2>3. NodeOf[p] \in Node /\ applied[p] \in Round /\ generation[NodeOf[p]] \in Round
    BY DEF TypeOK
  <2>4. OneRoundApart'
    BY <2>1, <2>3 DEF OneRoundApart, TypeOK
  <2> QED BY <2>2, <2>4
<1>5. ASSUME NEW p \in PE, Get(p) PROVE RoundInv'
  <2>1. NodeOf[p] \in Node /\ latest[NodeOf[p]] = opened /\ generation[NodeOf[p]] = opened
    BY <1>5 DEF Get, OneRoundApart, RecordedFirst
  <2>2. /\ applied' = [applied EXCEPT ![p] = opened]
        /\ pc' = [pc EXCEPT ![p] = "contribute"]
        /\ UNCHANGED <<latest, generation, publishing, opened>>
    BY <1>5, <2>1 DEF Get, controller
  <2> QED BY <2>1, <2>2 DEF TypeOK, OneRoundApart, RecordedFirst
<1>6. ASSUME NEW p \in PE, Add(p) PROVE RoundInv'
  <2>1. /\ pc' = [pc EXCEPT ![p] = "idle"]
        /\ UNCHANGED <<latest, generation, publishing, applied, opened>>
    BY <1>6 DEF Add
  <2> QED BY <2>1 DEF TypeOK, OneRoundApart, RecordedFirst
<1>7. ASSUME Collect PROVE RoundInv'
  BY <1>7 DEF Collect, worker, TypeOK, OneRoundApart, RecordedFirst
<1>8. ASSUME Release PROVE RoundInv'
  <2>1. Answered = PE
    BY <1>8, AllAnswered DEF Release
  <2>2. \A p \in PE : applied[p] = opened /\ pc[p] # "contribute" /\ pc[p] # "get"
    BY <2>1 DEF Answered, OneRoundApart
  <2>3. \A n \in Node : generation[n] = opened /\ latest[n] = opened
    BY <2>2 DEF OneRoundApart, RecordedFirst
  <2> DEFINE new == {[node |-> n, gen |-> opened + 1, step |-> 1, left |-> PEsOf(n)] : n \in Node}
  <2>4. /\ opened' = opened + 1 /\ opened' \in Round /\ publishing' = publishing \cup new
        /\ UNCHANGED <<latest, generation, pc, applied>>
    BY <1>8 DEF Release, worker, TypeOK
  <2>5. \A h \in new : h \in Handler /\ h.gen = opened' /\ h.step = 1
    BY <2>4 DEF Handler, PEsOf
  <2>6. \A h, k \in new : h.node = k.node => h = k
    OBVIOUS
  <2> HIDE DEF new
  <2>7. TypeOK'
    BY <2>4, <2>5 DEF TypeOK
  <2>8. OneRoundApart'
    BY <2>2, <2>3, <2>4 DEF OneRoundApart, TypeOK
  <2>9. RecordedFirst'
    <3>1. \A h \in publishing : h \in Handler /\ h.gen <= opened /\ h.step = 3
      BY <2>3 DEF RecordedFirst, TypeOK, Handler
    <3>2. \A n \in Node : generation'[n] = opened' => latest'[n] = opened'
      BY <2>3, <2>4 DEF TypeOK
    <3>3. \A k \in publishing' :
            /\ k.gen <= opened'
            /\ k.step # 3 => k.gen = opened' /\ generation'[k.node] # opened'
            /\ k.step = 2 => latest'[k.node] = opened'
      BY <2>3, <2>4, <2>5, <3>1 DEF TypeOK, Handler
    <3>4. \A i, k \in publishing' : i.node = k.node /\ i.gen = k.gen => i = k
      BY <2>4, <2>5, <2>6, <3>1 DEF RecordedFirst, TypeOK, Handler
    <3> QED BY <3>2, <3>3, <3>4 DEF RecordedFirst
  <2> QED BY <2>7, <2>8, <2>9
<1>9. CASE UNCHANGED vars
  BY <1>9 DEF vars, TypeOK, OneRoundApart, RecordedFirst
<1> QED
  BY <1>1, <1>2, <1>3, <1>4, <1>5, <1>6, <1>7, <1>8, <1>9 DEF Next, Publish

-----------------------------------------------------------------------------
(* Totals *)

LEMMA NodeFacts ==
  /\ IsFiniteSet(Node) /\ Collected \subseteq Node
  /\ \A n \in Node : IsFiniteSet(PEsOf(n)) /\ PEsOf(n) # {}
  /\ \A S \in SUBSET Node : IsFiniteSet(S) /\ Cardinality(S) \in Nat
  /\ \A n \in Node : \A S \in SUBSET PEsOf(n) :
       /\ IsFiniteSet(S) /\ Cardinality(S) \in Nat
       /\ Cardinality(S) = Cardinality(PEsOf(n)) => S = PEsOf(n)
<1>1. IsFiniteSet(Node) /\ Collected \subseteq Node
  BY ControlAssumption DEF Collected, Forwarded
<1>2. \A n \in Node : IsFiniteSet(PEsOf(n)) /\ PEsOf(n) # {}
  <2> TAKE n \in Node
  <2>1. PEsOf(n) \in SUBSET PE
    BY DEF PEsOf
  <2> QED BY <2>1, ControlAssumption, FS_Subset DEF PEsOf
<1>3. \A S \in SUBSET Node : IsFiniteSet(S) /\ Cardinality(S) \in Nat
  BY <1>1, FS_Subset, FS_CardinalityType
<1>4. \A n \in Node : \A S \in SUBSET PEsOf(n) :
        /\ IsFiniteSet(S) /\ Cardinality(S) \in Nat
        /\ Cardinality(S) = Cardinality(PEsOf(n)) => S = PEsOf(n)
  BY <1>2, FS_Subset, FS_CardinalityType
<1> QED BY <1>1, <1>2, <1>3, <1>4

LEMMA GatheredInit == Init => Gathered
<1> SUFFICES ASSUME Init PROVE Gathered
  OBVIOUS
<1>1. Answered = {}
  BY DEF Init, Answered
<1>2. Forwarded = {} /\ Collected = {}
  BY <1>1, NodeFacts DEF Forwarded, Collected
<1>3. acc \in [Node -> SUBSET (PE \X Round)] /\ accCount \in [Node -> Nat] /\ collecting = {}
  BY DEF Init
<1>4. Accumulated
  BY <1>1, <1>2, FS_EmptySet DEF Accumulated, Pending, Answers, Init
<1>5. Collected = Node => PE = {}
  BY <1>2, ControlAssumption
<1> QED BY <1>2, <1>3, <1>4, <1>5, FS_EmptySet DEF Gathered, Answers, Init

\* A step that lets no PE answer, and hands no sum on, moves nothing.
LEMMA NothingMoved ==
  ASSUME Gathered, Answered' = Answered,
         UNCHANGED <<acc, accCount, collecting, root, rootCount, ready, opened>>
  PROVE  Gathered'
<1>1. Forwarded' = Forwarded
  BY DEF Forwarded
<1>2. /\ Collected' = Collected
      /\ \A n : Pending(n)' = Pending(n) /\ SumOf(n)' = SumOf(n)
      /\ \A S : Answers(S)' = Answers(S)
  BY <1>1 DEF Collected, Pending, SumOf, Answers
<1>3. Accumulated'
  BY <1>2 DEF Gathered, Accumulated, Answers
<1> QED BY <1>1, <1>2, <1>3 DEF Gathered, Answers, SumOf

LEMMA AddGathers ==
  ASSUME RoundInv, Gathered, NEW p \in PE, Add(p)
  PROVE  Gathered' /\ Answered' = Answered \cup {p} /\ p \notin Answered
<1> DEFINE n == NodeOf[p]
           more == Pending(n) \cup {p}
<1>1. /\ n \in Node /\ p \in PEsOf(n) /\ \A k \in Node : p \in PEsOf(k) => k = n
      /\ applied[p] = opened /\ pc[p] = "contribute" /\ opened \in Round
  BY ControlAssumption DEF PEsOf, Add, RoundInv, OneRoundApart, TypeOK
<1>2. Answered' = Answered \cup {p} /\ p \notin Answered
  BY <1>1 DEF Add, Answered, RoundInv, TypeOK
<1>3. n \notin Forwarded /\ Pending(n) = PEsOf(n) \cap Answered
  BY <1>1, <1>2 DEF Forwarded, Pending
<1>4. /\ more = PEsOf(n) \cap Answered'
      /\ acc[n] \cup {<<p, applied[p]>>} = Answers(more)
      /\ Answers(more) \in SUBSET (PE \X Round)
  BY <1>1, <1>2, <1>3 DEF Gathered, Accumulated, Answers, PEsOf
<1>5. Cardinality(more) = accCount[n] + 1 /\ Cardinality(more) \in Nat
  BY <1>1, <1>2, <1>3, <1>4, NodeFacts, FS_AddElement DEF Gathered, Accumulated
<1>6. Full(n, accCount[n] + 1) <=> PEsOf(n) \subseteq Answered'
  BY <1>1, <1>4, <1>5, NodeFacts DEF Full
<1>7. Forwarded' = IF Full(n, accCount[n] + 1) THEN Forwarded \cup {n} ELSE Forwarded
  BY <1>1, <1>2, <1>3, <1>6 DEF Forwarded, PEsOf
<1>8. \A k \in Node \ {n} : Pending(k)' = Pending(k)
  BY <1>1, <1>2, <1>7 DEF Pending, PEsOf
<1>9. Pending(n)' = IF Full(n, accCount[n] + 1) THEN {} ELSE more
  BY <1>1, <1>3, <1>4, <1>7 DEF Pending, PEsOf
<1>10. opened' = opened /\ (\A S : Answers(S)' = Answers(S)) /\ \A k : SumOf(k)' = SumOf(k)
  BY DEF Add, Answers, SumOf
<1>11. UNCHANGED <<root, rootCount, ready>>
  BY DEF Add
<1>12. SumOf(n) \notin collecting /\ n \notin Collected /\ Collected # Node
  BY <1>1, <1>3 DEF Gathered, Collected, SumOf
<1>13. CASE Full(n, accCount[n] + 1)
  <2>1. /\ acc' = [acc EXCEPT ![n] = {}] /\ accCount' = [accCount EXCEPT ![n] = 0]
        /\ collecting' = collecting \cup {[node |-> n, sum |-> acc[n] \cup {<<p, applied[p]>>}]}
    BY <1>13 DEF Add
  <2>2. more = PEsOf(n)
    BY <1>4, <1>6, <1>13
  <2>3. collecting' = collecting \cup {SumOf(n)}
    BY <1>4, <2>1, <2>2 DEF SumOf
  <2>4. Collected' = Collected
    BY <1>7, <1>10, <1>12, <1>13, <2>3 DEF Collected, SumOf
  <2>5. /\ acc' \in [Node -> SUBSET (PE \X Round)] /\ accCount' \in [Node -> Nat]
        /\ \A k \in Node : acc'[k] = Answers(Pending(k)') /\ accCount'[k] = Cardinality(Pending(k)')
    BY <1>1, <1>8, <1>9, <1>13, <2>1, FS_EmptySet DEF Gathered, Accumulated, Answers
  <2>6. \A m \in collecting' : \E k \in Forwarded' : m = SumOf(k)'
    BY <1>7, <1>10, <1>13, <2>3 DEF Gathered
  <2> QED BY <1>2, <1>10, <1>11, <1>12, <2>4, <2>5, <2>6 DEF Gathered, Accumulated, Answers
<1>14. CASE ~Full(n, accCount[n] + 1)
  <2>1. /\ acc' = [acc EXCEPT ![n] = @ \cup {<<p, applied[p]>>}]
        /\ accCount' = [accCount EXCEPT ![n] = @ + 1]
        /\ collecting' = collecting
    BY <1>14 DEF Add
  <2>2. Collected' = Collected
    BY <1>7, <1>10, <1>14, <2>1 DEF Collected, SumOf
  <2>3. /\ acc' \in [Node -> SUBSET (PE \X Round)] /\ accCount' \in [Node -> Nat]
        /\ \A k \in Node : acc'[k] = Answers(Pending(k)') /\ accCount'[k] = Cardinality(Pending(k)')
    BY <1>1, <1>4, <1>5, <1>8, <1>9, <1>14, <2>1 DEF Gathered, Accumulated
  <2>4. \A m \in collecting' : \E k \in Forwarded' : m = SumOf(k)'
    BY <1>7, <1>10, <1>14, <2>1 DEF Gathered
  <2> QED BY <1>2, <1>10, <1>11, <1>12, <2>2, <2>3, <2>4 DEF Gathered, Accumulated, Answers
<1> QED BY <1>2, <1>13, <1>14

LEMMA CollectGathers == ASSUME RoundInv, Gathered, Collect PROVE Gathered'
<1>1. PICK m \in collecting :
        /\ collecting' = collecting \ {m}
        /\ IF rootCount + 1 = Cardinality(Node)
           THEN ready' = root \cup m.sum /\ root' = {} /\ rootCount' = 0
           ELSE root' = root \cup m.sum /\ rootCount' = rootCount + 1 /\ UNCHANGED ready
        /\ UNCHANGED <<worker, publishing, opened>>
  BY DEF Collect
<1>2. PICK n \in Forwarded : m = SumOf(n)
  BY DEF Gathered
<1>3. n \in Node /\ m.sum = Answers(PEsOf(n)) /\ n \notin Collected
  BY <1>2 DEF SumOf, Forwarded, Collected
<1>4. Answered' = Answered /\ Forwarded' = Forwarded
  BY <1>1 DEF worker, Answered, Forwarded
<1>5. /\ \A S : Answers(S)' = Answers(S)
      /\ \A k : SumOf(k)' = SumOf(k) /\ Pending(k)' = Pending(k)
  BY <1>1, <1>4 DEF Answers, SumOf, Pending
<1>6. Collected' = Collected \cup {n}
  BY <1>1, <1>2, <1>4, <1>5 DEF Collected, SumOf
<1>7. Collected # Node /\ Collected' \in SUBSET Node
  BY <1>3, <1>6, NodeFacts
<1>8. /\ root = Answers({p \in PE : NodeOf[p] \in Collected})
      /\ rootCount = Cardinality(Collected) /\ ready = {}
  BY <1>7 DEF Gathered
<1>9. root \cup m.sum = Answers({p \in PE : NodeOf[p] \in Collected'})
  BY <1>3, <1>6, <1>8 DEF Answers, PEsOf
<1>10. rootCount + 1 = Cardinality(Collected')
  BY <1>3, <1>6, <1>8, NodeFacts, FS_AddElement
<1>11. Cardinality(Collected') = Cardinality(Node) <=> Collected' = Node
  BY <1>7, NodeFacts, FS_Subset
<1>12. {p \in PE : NodeOf[p] \in Node} = PE
  BY ControlAssumption
<1>13. Accumulated' /\ acc' \in [Node -> SUBSET (PE \X Round)] /\ accCount' \in [Node -> Nat]
  BY <1>1, <1>5 DEF worker, Gathered, Accumulated, Answers
<1>14. \A k \in collecting' : \E j \in Forwarded' : k = SumOf(j)'
  BY <1>1, <1>4, <1>5 DEF Gathered
<1>15. CASE Collected' = Node
  BY <1>1, <1>5, <1>9, <1>10, <1>11, <1>12, <1>13, <1>14, <1>15 DEF Gathered, Answers
<1>16. CASE Collected' # Node
  BY <1>1, <1>5, <1>8, <1>9, <1>10, <1>11, <1>13, <1>14, <1>16 DEF Gathered, Answers
<1> QED BY <1>15, <1>16

LEMMA ReleaseGathers == ASSUME RoundInv, Gathered, Release PROVE Gathered' /\ Answered' = {}
<1>1. Answered = PE /\ Collected = Node /\ \E p \in PE : TRUE
  BY AllAnswered DEF Release
<1>2. \A p \in PE : applied'[p] = opened /\ opened' = opened + 1 /\ opened \in Nat
  BY <1>1 DEF Release, worker, Answered, RoundInv, TypeOK, Round
<1>3. Answered' = {}
  BY <1>2 DEF Answered
<1>4. Forwarded' = {} /\ Collected' = {} /\ Node # {}
  BY <1>1, <1>3, NodeFacts, ControlAssumption DEF Forwarded, Collected
<1>5. Forwarded = Node /\ collecting = {}
  <2>1. Forwarded = Node /\ \A n \in Node : SumOf(n) \notin collecting
    BY <1>1 DEF Forwarded, Collected
  <2>2. \A m \in collecting : \E n \in Forwarded : m = SumOf(n)
    BY DEF Gathered
  <2> QED BY <2>1, <2>2
<1>6. \A n \in Node : acc[n] = {} /\ accCount[n] = 0
  BY <1>5, FS_EmptySet DEF Gathered, Accumulated, Pending, Answers
<1>7. root = {} /\ rootCount = 0
  BY <1>1 DEF Gathered
<1>8. UNCHANGED <<acc, accCount, collecting, root, rootCount>> /\ ready' = {}
  BY DEF Release, worker
<1>9. Accumulated'
  BY <1>3, <1>4, <1>6, <1>8, FS_EmptySet DEF Accumulated, Pending, Answers
<1> QED BY <1>3, <1>4, <1>5, <1>7, <1>8, <1>9, FS_EmptySet DEF Gathered, Answers

\* Looking for a round and taking its thresholds answers nothing.
LEMMA PickupAnswersNothing ==
  ASSUME RoundInv, NEW p \in PE,
         MaybePickup(p) \/ PickupFallback(p) \/ Check(p) \/ Get(p)
  PROVE  /\ Answered' = Answered
         /\ UNCHANGED <<acc, accCount, collecting, root, rootCount, ready, opened>>
<1>1. UNCHANGED <<acc, accCount, collecting, root, rootCount, ready, opened>>
  BY DEF MaybePickup, PickupFallback, Check, Get, controller
<1>2. CASE MaybePickup(p) \/ PickupFallback(p) \/ Check(p)
  BY <1>1, <1>2 DEF MaybePickup, PickupFallback, Check, controller, Answered, RoundInv, TypeOK
<1>3. CASE Get(p)
  BY <1>1, <1>3 DEF Get, Answered, RoundInv, OneRoundApart, TypeOK
<1> QED BY <1>1, <1>2, <1>3

LEMMA GatheredStep == RoundInv /\ Gathered /\ [Next]_vars => Gathered'
<1> SUFFICES ASSUME RoundInv, Gathered, [Next]_vars PROVE Gathered'
  OBVIOUS
<1>1. CASE Publish
  <2>1. /\ UNCHANGED <<pc, applied, acc, accCount, collecting, root, rootCount, ready, opened>>
    BY <1>1 DEF Publish
  <2> QED BY <2>1, NothingMoved DEF Answered
<1>2. ASSUME NEW p \in PE, MaybePickup(p) \/ PickupFallback(p) \/ Check(p) \/ Get(p)
      PROVE  Gathered'
  BY <1>2, PickupAnswersNothing, NothingMoved
<1>3. ASSUME NEW p \in PE, Add(p) PROVE Gathered'
  BY <1>3, AddGathers
<1>4. CASE Collect
  BY <1>4, CollectGathers
<1>5. CASE Release
  BY <1>5, ReleaseGathers
<1>6. CASE UNCHANGED vars
  BY <1>6, NothingMoved DEF vars, Answered
<1> QED BY <1>1, <1>2, <1>3, <1>4, <1>5, <1>6 DEF Next

\* The state of the control path has its types, whatever processes, workers and
\* rounds there are; a PE or an announcement is at most one round behind Main.
THEOREM RoundsCorrect == Spec => [](RoundInv /\ Gathered)
<1>1. Init => RoundInv /\ Gathered
  BY RoundInvInit, GatheredInit
<1>2. RoundInv /\ Gathered /\ [Next]_vars => (RoundInv /\ Gathered)'
  BY RoundInvStep, GatheredStep
<1> QED BY <1>1, <1>2, PTL DEF Spec

\* Every total Main is handed is one contribution of every PE, each an answer to
\* the round that is open, although add() and collect() only count arrivals.
THEOREM TotalsArePure == Spec => []TotalsPure
<1>1. Gathered => TotalsPure
  BY AllAnswered DEF TotalsPure, Answers
<1> QED BY <1>1, RoundsCorrect, PTL

\* A merge is relative to the scale before it: a PE neither skips a round nor
\* applies one twice nor goes back to one.
AppliedInOrder ==
  [][\A p \in PE : applied'[p] \in {applied[p], applied[p] + 1}]_vars

THEOREM RoundsInOrder == Spec => AppliedInOrder
<1>1. RoundInv /\ [Next]_vars =>
        [\A p \in PE : applied'[p] \in {applied[p], applied[p] + 1}]_vars
  <2> SUFFICES ASSUME RoundInv, Next
               PROVE  \A p \in PE : applied'[p] \in {applied[p], applied[p] + 1}
    OBVIOUS
  <2>1. ASSUME NEW p \in PE, Get(p)
        PROVE  \A q \in PE : applied'[q] \in {applied[q], applied[q] + 1}
    <3>1. /\ applied \in [PE -> Round] /\ latest[NodeOf[p]] = opened
          /\ applied[p] + 1 = opened
      BY <2>1, ControlAssumption DEF Get, RoundInv, TypeOK, OneRoundApart, RecordedFirst
    <3>2. applied' = [applied EXCEPT ![p] = applied[p] + 1]
      BY <2>1, <3>1 DEF Get
    <3> QED BY <3>1, <3>2
  <2>2. ASSUME Publish \/ Collect \/ Release \/ \E p \in PE :
                 MaybePickup(p) \/ PickupFallback(p) \/ Check(p) \/ Add(p)
        PROVE  applied' = applied
    BY <2>2 DEF Publish, Collect, Release, worker, MaybePickup, PickupFallback, Check, Add,
                controller
  <2> QED BY <2>1, <2>2 DEF Next
<1> QED BY <1>1, RoundsCorrect, PTL DEF Spec, AppliedInOrder

-----------------------------------------------------------------------------
(* Refinement *)

\* The control path, with its accumulators and its three stores, implements the
\* lockstep of Rounds: one answer of every PE to a round, then the next round.
THEOREM LockstepImplemented == Spec => LockstepSpec
<1> DEFINE Waiting == {p \in PE : ~(applied[p] = opened /\ pc[p] # "contribute")}
<1>1. Waiting = PE \ Answered
  BY DEF Answered
<1>2. Init => Lockstep!Init
  BY DEF Init, Lockstep!Init
<1>3. RoundInv /\ Gathered /\ [Next]_vars => [Lockstep!Next]_<<opened, Waiting>>
  <2> SUFFICES ASSUME RoundInv, Gathered, [Next]_vars
               PROVE  [Lockstep!Next]_<<opened, Waiting>>
    OBVIOUS
  <2>0. Waiting' = PE \ Answered'
    BY DEF Answered
  <2> HIDE DEF Waiting
  <2>1. ASSUME NEW p \in PE, Add(p) PROVE Lockstep!Answer(p)
    <3>1. opened' = opened
      BY <2>1 DEF Add
    <3>2. p \in PE \ Answered /\ PE \ Answered' = (PE \ Answered) \ {p}
      BY <2>1, AddGathers
    <3> QED BY <3>1, <3>2, <1>1, <2>0 DEF Lockstep!Answer, Waiting, Answered
  <2>2. ASSUME Release PROVE Lockstep!Open
    <3>1. Answered = PE /\ Answered' = {}
      BY <2>2, AllAnswered, ReleaseGathers DEF Release
    <3>2. opened' = opened + 1 /\ opened + 1 \in Round
      BY <2>2, ControlAssumption DEF Release, RoundInv, TypeOK, Round
    <3> QED BY <3>1, <3>2, <1>1, <2>0 DEF Lockstep!Open, Waiting, Answered
  <2>3. ASSUME NEW p \in PE, MaybePickup(p) \/ PickupFallback(p) \/ Check(p) \/ Get(p)
        PROVE  UNCHANGED <<opened, Waiting>>
    BY <2>3, <1>1, <2>0, PickupAnswersNothing
  <2>4. ASSUME Publish \/ Collect \/ UNCHANGED vars PROVE UNCHANGED <<opened, Waiting>>
    BY <2>4, <1>1, <2>0 DEF Publish, Collect, worker, vars, Answered
  <2> QED BY <2>1, <2>2, <2>3, <2>4 DEF Next, Lockstep!Next
<1> QED BY <1>2, <1>3, RoundsCorrect, PTL DEF Spec, LockstepSpec, Lockstep!Spec
=============================================================================
