---------------------------- MODULE SolverProofs ----------------------------
(***************************************************************************)
(* Proofs about Solver, for every graph, partition and set of PEs.         *)
(*                                                                         *)
(* The argument, in the order of the sections: the typing invariant; the   *)
(* shape of updates and why no vertex is expanded twice at one distance    *)
(* (Expansion), from which the counters are exact (Accounting); the two    *)
(* halves of the answer, distances never below the shortest ones (Bounded) *)
(* and every edge either relaxed or still owed a relaxation by a live      *)
(* update (Relaxing); the double snapshot (Snapshots), which turns two     *)
(* equal sums into a moment at which nothing was live; and serial        *)
(* Dijkstra, which computes the same answer (ReferenceIsShortest).         *)
(***************************************************************************)
EXTENDS Solver, SumProofs

-----------------------------------------------------------------------------
(* Counters *)

\* Adding to one PE's counter adds to the union of all of them.
LEMMA CountAll ==
  ASSUME NEW S, NEW counter \in [PE -> SUBSET S], NEW p \in PE, NEW us
  PROVE  All(Count(counter, p, us)) = All(counter) \cup us
<1> DEFINE new == Count(counter, p, us)
<1>1. /\ \A q \in PE : q # p => new[q] = counter[q]
      /\ new[p] = counter[p] \cup us
  BY DEF Count
<1>2. ASSUME NEW x
      PROVE  x \in All(new) <=> x \in All(counter) \cup us
  BY <1>1 DEF All
<1> QED
  BY <1>2

\* A counter stays a family of sets of updates.
LEMMA CountType ==
  ASSUME NEW S, NEW counter \in [PE -> SUBSET S], NEW p \in PE,
         NEW us \in SUBSET S
  PROVE  /\ Count(counter, p, us) \in [PE -> SUBSET S]
         /\ \A q \in PE : counter[q] \subseteq Count(counter, p, us)[q]
  BY DEF Count

LEMMA SourceUpdateType == SourceUpdate \in Update
  BY GraphAssumption, SourceAssumption DEF SourceUpdate, Update

LEMMA RelaxationType ==
  ASSUME NEW e \in Edge, NEW d \in Nat
  PROVE  Relaxation(e, d) \in Update
  BY GraphAssumption DEF Relaxation, Update

LEMMA RelaxationsType ==
  ASSUME NEW u \in Update
  PROVE  Relaxations(u) \in SUBSET Update
<1>1. ASSUME NEW e \in Out(u.to) PROVE Relaxation(e, u.d) \in Update
  <2>1. e \in Edge /\ u.d \in Nat
    BY DEF Out, Update
  <2> QED BY <2>1, RelaxationType
<1> QED
  BY <1>1 DEF Relaxations

-----------------------------------------------------------------------------
(* Typing *)

\* Applying an update keeps the types of everything it touches.
LEMMA ApplyType ==
  ASSUME TypeOK, NEW p \in PE, NEW u \in Update, Apply(p, u)
  PROVE  /\ dist' \in [Vertex -> Distance]
         /\ queued' \subseteq Update
         /\ processed' \in [PE -> SUBSET Update]
<1> USE DEF TypeOK
<1>1. u.to \in Vertex /\ u.d \in Nat
  BY DEF Update
<1>2. Count(processed, p, {u}) \in [PE -> SUBSET Update]
  <2>1. {u} \in SUBSET Update
    OBVIOUS
  <2> QED BY <2>1, CountType
<1>3. CASE u.d < dist[u.to]
  <2>1. dist[u.to] \in Nat /\ dist[u.to] <= Lmax
    BY <1>1, GraphAssumption DEF Distance
  <2>2. u.d \in Distance
    BY <1>1, <1>3, <2>1, GraphAssumption DEF Distance
  <2>3. dist' = [dist EXCEPT ![u.to] = u.d]
    BY <1>3 DEF Apply
  <2>4. dist' \in [Vertex -> Distance]
    BY <2>2, <2>3
  <2> QED
    BY <1>2, <1>3, <2>4 DEF Apply
<1>4. CASE ~(u.d < dist[u.to])
  BY <1>2, <1>4 DEF Apply
<1> QED
  BY <1>3, <1>4

LEMMA TypeInit == Init => TypeOK
<1> SUFFICES ASSUME Init PROVE TypeOK
  OBVIOUS
<1>1. Lmax \in Distance
  BY GraphAssumption DEF Distance
<1> QED
  BY <1>1 DEF Init, TypeOK, Nothing

LEMMA TypeStep == TypeOK /\ [Next]_vars => TypeOK'
<1> SUFFICES ASSUME TypeOK, [Next]_vars PROVE TypeOK'
  OBVIOUS
<1> USE DEF TypeOK
<1>1. ASSUME NEW p \in PE, Start(p) PROVE TypeOK'
  <2>1. created' \in [PE -> SUBSET Update]
    <3>1. {SourceUpdate} \in SUBSET Update
      BY SourceUpdateType
    <3>2. created' = Count(created, p, {SourceUpdate})
      BY <1>1 DEF Start
    <3> QED BY <3>1, <3>2, CountType
  <2>2. Apply(p, SourceUpdate)
    BY <1>1 DEF Start
  <2> QED
    BY <1>1, <2>1, <2>2, ApplyType, SourceUpdateType DEF Start, mainvars
<1>2. ASSUME NEW p \in PE, Contribute(p) PROVE TypeOK'
  BY <1>2 DEF Contribute, pevars, mainvars
<1>3. ASSUME NEW p \in PE, NEW u \in net, Receive(p, u) PROVE TypeOK'
  <2>1. u \in Update /\ Apply(p, u)
    BY <1>3 DEF Receive
  <2> QED
    BY <1>3, <2>1, ApplyType DEF Receive, mainvars
<1>4. ASSUME NEW p \in PE, NEW u \in net, Absorb(p, u) PROVE TypeOK'
  <2>1. processed' \in [PE -> SUBSET Update]
    <3>1. {u} \in SUBSET Update
      OBVIOUS
    <3> QED BY <1>4, <3>1, CountType DEF Absorb
  <2> QED
    BY <1>4, <2>1 DEF Absorb, mainvars
<1>5. ASSUME NEW p \in PE, NEW u \in queued, Expand(p, u) PROVE TypeOK'
  <2>1. PICK sent \in SUBSET Relaxations(u) :
          created' = Count(created, p, sent) /\ net' = net \cup sent
    BY <1>5 DEF Expand
  <2>2. sent \subseteq Update
    BY RelaxationsType
  <2>3. created' \in [PE -> SUBSET Update]
    BY <2>1, <2>2, CountType
  <2>4. processed' \in [PE -> SUBSET Update]
    <3>1. {u} \in SUBSET Update
      OBVIOUS
    <3> QED BY <1>5, <3>1, CountType DEF Expand
  <2> QED
    BY <1>5, <2>1, <2>2, <2>3, <2>4 DEF Expand, mainvars
<1>6. CASE Finish
  BY <1>6 DEF Finish, pevars
<1>7. CASE NextRound
  <2>1. All(snapCreated) \subseteq Update /\ All(snapProcessed) \subseteq Update
    BY DEF All
  <2> QED
    BY <1>7, <2>1 DEF NextRound, pevars, Nothing
<1>8. CASE UNCHANGED vars
  BY <1>8 DEF vars, pevars, mainvars
<1> QED
  BY <1>1, <1>2, <1>3, <1>4, <1>5, <1>6, <1>7, <1>8 DEF Next

\* Every state of the solver is well typed; in particular no tentative
\* distance ever exceeds lmax, whatever is added along the way.
THEOREM TypeCorrect == Spec => []TypeOK
  BY TypeInit, TypeStep, PTL DEF Spec

-----------------------------------------------------------------------------
(* Expansion: no vertex is expanded twice at one distance *)

\* The source update comes first and only once.
Started == All(created) = {} \/ SourceUpdate \in created[Owner[Source]]

\* Whatever is live has been created.
Known == net \cup queued \subseteq All(created)

\* An update is the source's or the relaxation of an edge whose tail has had
\* the distance it was relaxed from.
Shape ==
  \A x \in All(created) :
    \/ x = SourceUpdate
    \/ /\ x.via \in Edge
       /\ x.to = To[x.via]
       /\ dist[From[x.via]] + Weight[x.via] <= x.d

\* A queued entry was its vertex's distance once, and is the only one with it.
Distinct ==
  \A u \in queued :
    /\ dist[u.to] <= u.d
    /\ \A x \in queued : x.to = u.to /\ x.d = u.d => x = u

\* While an entry is current, nothing has been relaxed from its distance.
Fresh ==
  \A u \in queued : u.d = dist[u.to] =>
    \A x \in All(created) :
      x.via \in Edge /\ From[x.via] = u.to => u.d + Weight[x.via] < x.d

Expansion == Started /\ Known /\ Shape /\ Distinct /\ Fresh

\* What process_update() does, by cases.
LEMMA ApplyFacts ==
  ASSUME TypeOK, NEW p \in PE, NEW u \in Update, Apply(p, u)
  PROVE  /\ \A v \in Vertex : dist[v] \in Nat /\ dist'[v] \in Nat
         /\ \A v \in Vertex : dist'[v] <= dist[v]
         /\ \A v \in Vertex \ {u.to} : dist'[v] = dist[v]
         /\ u.to \in Vertex /\ u.d \in Nat
         /\ dist'[u.to] <= u.d
         /\ \/ dist' = dist /\ dist[u.to] <= u.d /\ queued' = queued
               /\ processed' = Count(processed, p, {u})
            \/ /\ u.d < dist[u.to] /\ dist'[u.to] = u.d
               /\ \/ /\ queued' = queued \cup {u} /\ processed' = processed
                     /\ QueueWorthy(u.to, u.d)
                  \/ /\ queued' = queued
                     /\ processed' = Count(processed, p, {u})
                     /\ ~QueueWorthy(u.to, u.d)
<1>1. u.to \in Vertex /\ u.d \in Nat
  BY DEF Update
<1>2. dist \in [Vertex -> Nat] /\ dist' \in [Vertex -> Nat]
  BY ApplyType, GraphAssumption DEF TypeOK, Distance
<1>3. CASE u.d < dist[u.to]
  <2>1. dist' = [dist EXCEPT ![u.to] = u.d]
    BY <1>3 DEF Apply
  <2>2. /\ \A v \in Vertex : dist'[v] <= dist[v]
        /\ \A v \in Vertex \ {u.to} : dist'[v] = dist[v]
        /\ dist'[u.to] = u.d
    BY <1>1, <1>2, <1>3, <2>1
  <2>3. \/ /\ queued' = queued \cup {u} /\ processed' = processed
           /\ QueueWorthy(u.to, u.d)
        \/ /\ queued' = queued
           /\ processed' = Count(processed, p, {u})
           /\ ~QueueWorthy(u.to, u.d)
    BY <1>3 DEF Apply
  <2>4. dist'[u.to] <= u.d
    BY <1>1, <2>2
  <2> QED
    BY <1>1, <1>2, <1>3, <2>2, <2>3, <2>4
<1>4. CASE ~(u.d < dist[u.to])
  <2>1. dist' = dist /\ queued' = queued /\ processed' = Count(processed, p, {u})
    BY <1>4 DEF Apply
  <2>2. dist[u.to] <= u.d
    BY <1>1, <1>2, <1>4
  <2> QED
    BY <1>1, <1>2, <2>1, <2>2
<1> QED
  BY <1>3, <1>4

\* Applying a created update keeps the expansion invariant, whether it comes
\* from the network or is the source's own.
LEMMA ApplyExpansion ==
  ASSUME TypeOK, Expansion, NEW p \in PE, NEW u \in All(created), Apply(p, u),
         u \in Update
  PROVE  /\ queued' \subseteq All(created)
         /\ \A x \in All(created) :
              \/ x = SourceUpdate
              \/ /\ x.via \in Edge
                 /\ x.to = To[x.via]
                 /\ dist'[From[x.via]] + Weight[x.via] <= x.d
         /\ Distinct'
         /\ \A w \in queued' : w.d = dist'[w.to] =>
              \A x \in All(created) :
                x.via \in Edge /\ From[x.via] = w.to => w.d + Weight[x.via] < x.d
<1> USE DEF Expansion
<1>1. /\ \A v \in Vertex : dist[v] \in Nat /\ dist'[v] \in Nat
      /\ \A v \in Vertex : dist'[v] <= dist[v]
      /\ \A v \in Vertex \ {u.to} : dist'[v] = dist[v]
      /\ u.to \in Vertex /\ u.d \in Nat
      /\ \/ dist' = dist /\ queued' = queued
         \/ /\ u.d < dist[u.to] /\ dist'[u.to] = u.d
            /\ queued' = queued \cup {u} \/ queued' = queued
  BY ApplyFacts
<1>2. \A w \in queued : w.to \in Vertex /\ w.d \in Nat
  BY DEF TypeOK, Update
<1>3. \A x \in All(created) : x.d \in Nat
  BY DEF TypeOK, All, Update
<1>4. \A e \in Edge : From[e] \in Vertex /\ Weight[e] \in Nat
  BY GraphAssumption
<1>5. queued' \subseteq queued \cup {u}
  BY <1>1
<1>6. queued' \subseteq All(created)
  BY <1>5 DEF Known
<1>7. ASSUME NEW x \in All(created)
      PROVE  \/ x = SourceUpdate
             \/ /\ x.via \in Edge
                /\ x.to = To[x.via]
                /\ dist'[From[x.via]] + Weight[x.via] <= x.d
  <2>1. CASE x = SourceUpdate
    BY <2>1
  <2>2. CASE /\ x.via \in Edge /\ x.to = To[x.via]
             /\ dist[From[x.via]] + Weight[x.via] <= x.d
    <3>1. /\ dist'[From[x.via]] <= dist[From[x.via]]
          /\ dist'[From[x.via]] \in Nat /\ dist[From[x.via]] \in Nat
          /\ Weight[x.via] \in Nat /\ x.d \in Nat
      BY <1>1, <1>3, <1>4, <2>2
    <3> QED BY <2>2, <3>1
  <2> QED BY <2>1, <2>2 DEF Shape
<1>8. Distinct'
  <2>1. ASSUME NEW w \in queued'
        PROVE  dist'[w.to] <= w.d
    <3>1. CASE w \in queued
      <4>1. /\ dist[w.to] <= w.d /\ dist'[w.to] <= dist[w.to]
            /\ dist[w.to] \in Nat /\ dist'[w.to] \in Nat /\ w.d \in Nat
        BY <1>1, <1>2, <3>1 DEF Distinct
      <4> QED BY <4>1
    <3>2. CASE w = u /\ w \notin queued
      BY <1>1, <3>2
    <3> QED BY <1>5, <3>1, <3>2
  <2>2. ASSUME NEW w \in queued', NEW x \in queued', x.to = w.to, x.d = w.d
        PROVE  x = w
    <3>1. CASE w \in queued /\ x \in queued
      BY <2>2, <3>1 DEF Distinct
    <3>2. ASSUME NEW y \in queued, u \notin queued, u \in queued',
                 y.to = u.to
          PROVE  u.d < y.d
      <4>1. u.d < dist[u.to] /\ dist[u.to] \in Nat /\ u.d \in Nat
        BY <1>1, <3>2
      <4>2. dist[u.to] <= y.d /\ y.d \in Nat
        BY <1>2, <3>2 DEF Distinct
      <4> QED BY <4>1, <4>2
    <3> QED BY <1>1, <1>2, <1>5, <2>2, <3>1, <3>2
  <2> QED BY <2>1, <2>2 DEF Distinct
<1>9. ASSUME NEW w \in queued', w.d = dist'[w.to], NEW x \in All(created),
             x.via \in Edge, From[x.via] = w.to
      PROVE  w.d + Weight[x.via] < x.d
  <2>1. CASE w \in queued /\ w.d = dist[w.to]
    BY <1>9, <2>1 DEF Fresh
  <2>2. CASE ~(w \in queued /\ w.d = dist[w.to])
    <3>1. w.to = u.to /\ w.d = u.d /\ u.d < dist[u.to]
      BY <1>1, <1>2, <1>5, <1>9, <2>2
    <3>2. x # SourceUpdate
      BY <1>9, SolverAssumption DEF SourceUpdate
    <3>3. dist[From[x.via]] + Weight[x.via] <= x.d
      BY <3>2 DEF Shape
    <3>4. dist[u.to] \in Nat /\ u.d \in Nat /\ x.d \in Nat /\ Weight[x.via] \in Nat
      BY <1>1, <1>3, <1>4, <1>9
    <3> QED BY <1>9, <3>1, <3>3, <3>4
  <2> QED BY <2>1, <2>2
<1> QED
  BY <1>6, <1>7, <1>8, <1>9

LEMMA ExpansionInit == Init => Expansion
  BY DEF Init, Expansion, Started, Known, Shape, Distinct, Fresh, All, Nothing

\* A step that leaves created, dist and queued alone and takes from net only.
LEMMA ExpansionFrame ==
  ASSUME Expansion, created' = created, dist' = dist, queued' = queued,
         net' \subseteq net
  PROVE  Expansion'
  BY DEF Expansion, Started, Known, Shape, Distinct, Fresh, All

LEMMA ExpansionStep == TypeOK /\ Expansion /\ [Next]_vars => Expansion'
<1> SUFFICES ASSUME TypeOK, Expansion, [Next]_vars PROVE Expansion'
  OBVIOUS
<1>1. ASSUME NEW p \in PE, Start(p) PROVE Expansion'
  <2>1. /\ p = Owner[Source] /\ SourceUpdate \notin created[p]
        /\ created' = Count(created, p, {SourceUpdate})
        /\ Apply(p, SourceUpdate) /\ net' = net
    BY <1>1 DEF Start
  <2>2. All(created') = All(created) \cup {SourceUpdate}
    BY <2>1, CountAll DEF TypeOK
  <2>3. All(created) = {} /\ net = {} /\ queued = {}
    BY <2>1 DEF Expansion, Started, Known
  <2>4. SourceUpdate \in created'[Owner[Source]]
    BY <2>1 DEF Count, TypeOK
  <2>5. queued' \subseteq {SourceUpdate}
    BY <2>1, <2>3 DEF Apply
  <2>6. \A x \in All(created') : x.via \notin Edge
    BY <2>2, <2>3, SolverAssumption DEF SourceUpdate
  <2>7. \A w \in queued' : dist'[w.to] <= w.d
    BY <2>1, <2>5, ApplyFacts, SourceUpdateType
  <2>8. Started' /\ Known'
    BY <2>1, <2>2, <2>3, <2>4, <2>5 DEF Started, Known
  <2>9. Shape' /\ Distinct' /\ Fresh'
    BY <2>2, <2>3, <2>5, <2>6, <2>7 DEF Shape, Distinct, Fresh
  <2> QED BY <2>8, <2>9 DEF Expansion
<1>2. ASSUME NEW p \in PE, Contribute(p) PROVE Expansion'
  BY <1>2, ExpansionFrame DEF Contribute, pevars
<1>3. ASSUME NEW p \in PE, NEW u \in net, Receive(p, u) PROVE Expansion'
  <2>1. /\ u \in Update /\ u \in All(created) /\ Apply(p, u)
        /\ created' = created /\ net' = net \ {u}
    BY <1>3 DEF Receive, TypeOK, Expansion, Known
  <2>2. Started' /\ Known'
    BY <2>1, ApplyExpansion DEF Expansion, Started, Known, All
  <2>3. Shape' /\ Distinct' /\ Fresh'
    BY <2>1, ApplyExpansion DEF Shape, Fresh, All
  <2> QED BY <2>2, <2>3 DEF Expansion
<1>4. ASSUME NEW p \in PE, NEW u \in net, Absorb(p, u) PROVE Expansion'
  BY <1>4, ExpansionFrame DEF Absorb
<1>5. ASSUME NEW p \in PE, NEW u \in queued, Expand(p, u) PROVE Expansion'
  <2>1. PICK sent \in SUBSET Relaxations(u) :
          /\ created' = Count(created, p, sent) /\ net' = net \cup sent
    BY <1>5 DEF Expand
  <2>2. /\ queued' = queued \ {u} /\ dist' = dist
        /\ u \in Update /\ u.to \in Vertex /\ u.d \in Nat
    BY <1>5 DEF Expand, TypeOK, Update
  <2>3. All(created') = All(created) \cup sent
    BY <2>1, CountAll, RelaxationsType, <2>2 DEF TypeOK
  <2>4. ASSUME NEW x \in sent
        PROVE  /\ u.d = dist[u.to] /\ x.via \in Edge /\ x.to = To[x.via]
               /\ From[x.via] = u.to
               /\ x.d = dist[From[x.via]] + Weight[x.via]
               /\ x.d \in Nat
    <3>1. PICK e \in Out(u.to) : u.d = dist[u.to] /\ x = Relaxation(e, u.d)
      BY <2>1, <2>4 DEF Relaxations
    <3>2. e \in Edge /\ From[e] = u.to /\ Weight[e] \in Nat
      BY <3>1, GraphAssumption DEF Out
    <3> QED BY <2>2, <3>1, <3>2 DEF Relaxation
  <2>5. Started'
    <3>1. CASE All(created) = {}
      BY <3>1 DEF Expansion, Known
    <3>2. CASE SourceUpdate \in created[Owner[Source]]
      BY <2>1, <3>2 DEF Count, TypeOK, Started
    <3> QED BY <3>1, <3>2 DEF Expansion, Started
  <2>6. Known'
    BY <2>1, <2>2, <2>3 DEF Expansion, Known
  <2>7. Shape'
    <3>1. ASSUME NEW x \in All(created)'
          PROVE  x = SourceUpdate \/
                 /\ x.via \in Edge /\ x.to = To[x.via]
                 /\ dist'[From[x.via]] + Weight[x.via] <= x.d
      <4>1. CASE x \in All(created)
        BY <2>2, <4>1 DEF Expansion, Shape
      <4>2. CASE x \in sent
        BY <2>2, <2>4, <4>2
      <4> QED BY <2>3, <4>1, <4>2 DEF All
    <3> QED BY <3>1 DEF Shape
  <2>8. Distinct'
    BY <2>2 DEF Expansion, Distinct
  <2>9. Fresh'
    <3>1. ASSUME NEW w \in queued', w.d = dist'[w.to], NEW x \in All(created)',
                 x.via \in Edge, From[x.via] = w.to
          PROVE  w.d + Weight[x.via] < x.d
      <4>1. w \in queued /\ w # u /\ w.d = dist[w.to]
        BY <2>2, <3>1
      <4>2. x \notin sent
        BY <2>4, <3>1, <4>1 DEF Expansion, Distinct
      <4>3. x \in All(created)
        BY <2>3, <3>1, <4>2 DEF All
      <4> QED BY <3>1, <4>1, <4>3 DEF Expansion, Fresh
    <3> QED BY <3>1 DEF Fresh
  <2> QED BY <2>5, <2>6, <2>7, <2>8, <2>9 DEF Expansion
<1>6. CASE Finish
  BY <1>6, ExpansionFrame DEF Finish, pevars
<1>7. CASE NextRound
  BY <1>7, ExpansionFrame DEF NextRound, pevars
<1>8. CASE UNCHANGED vars
  BY <1>8, ExpansionFrame DEF vars, pevars
<1> QED
  BY <1>1, <1>2, <1>3, <1>4, <1>5, <1>6, <1>7, <1>8 DEF Next

THEOREM ExpansionCorrect == Spec => []Expansion
  BY ExpansionInit, ExpansionStep, TypeCorrect, PTL DEF Spec

\* The relaxations of an entry that is still current are new.
LEMMA ExpansionNew ==
  ASSUME TypeOK, Expansion, NEW u \in queued
  PROVE  Relaxations(u) \cap All(created) = {}
<1> SUFFICES ASSUME NEW x \in Relaxations(u), x \in All(created) PROVE FALSE
  OBVIOUS
<1>1. PICK e \in Out(u.to) : u.d = dist[u.to] /\ x = Relaxation(e, u.d)
  BY DEF Relaxations
<1>2. x.via \in Edge /\ From[x.via] = u.to /\ x.d = u.d + Weight[x.via]
  BY <1>1 DEF Relaxation, Out
<1>3. u.d + Weight[x.via] < x.d
  BY <1>1, <1>2 DEF Expansion, Fresh
<1>4. u.d \in Nat /\ Weight[x.via] \in Nat
  BY <1>2, GraphAssumption DEF TypeOK, Update
<1> QED
  BY <1>2, <1>3, <1>4

\* No vertex is expanded twice at the same distance, which is also why a set
\* is as good as a counter: an expansion never creates what exists.
THEOREM NoSecondExpansion == Spec => []NeverExpandedTwice
<1>1. TypeOK /\ Expansion => NeverExpandedTwice
  BY ExpansionNew DEF NeverExpandedTwice
<1> QED
  BY <1>1, TypeCorrect, ExpansionCorrect, PTL

-----------------------------------------------------------------------------
(* Accounting: created - processed is the number of live updates *)

\* Adding what no PE has counted yet keeps the counters disjoint.
LEMMA CountDisjoint ==
  ASSUME NEW S, NEW counter \in [PE -> SUBSET S], NEW p \in PE, NEW us,
         us \cap All(counter) = {},
         \A q, r \in PE : q # r => counter[q] \cap counter[r] = {}
  PROVE  \A q, r \in PE : q # r =>
           Count(counter, p, us)[q] \cap Count(counter, p, us)[r] = {}
<1>1. \A q \in PE : us \cap counter[q] = {}
  BY DEF All
<1> QED
  BY <1>1 DEF Count

Accounting == LiveAccounted /\ CountedOnce

LEMMA AccountingInit == Init => Accounting
  BY DEF Init, Accounting, LiveAccounted, CountedOnce, All, Nothing

LEMMA AccountingFrame ==
  ASSUME Accounting, net' = net, queued' = queued, created' = created,
         processed' = processed
  PROVE  Accounting'
  BY DEF Accounting, LiveAccounted, CountedOnce, All

\* Retiring or queueing one update that was in the network.
LEMMA AccountingTake ==
  ASSUME TypeOK, Accounting, NEW p \in PE, NEW u \in net,
         net' = net \ {u}, created' = created,
         \/ queued' = queued \cup {u} /\ processed' = processed
         \/ queued' = queued /\ processed' = Count(processed, p, {u})
  PROVE  Accounting'
<1>1. /\ u \notin queued /\ u \notin All(processed)
      /\ All(created') = All(created)
  BY DEF Accounting, LiveAccounted
<1>2. CASE queued' = queued \cup {u} /\ processed' = processed
  BY <1>1, <1>2 DEF Accounting, LiveAccounted, CountedOnce, All
<1>3. CASE queued' = queued /\ processed' = Count(processed, p, {u})
  <2>1. All(processed') = All(processed) \cup {u}
    BY <1>3, CountAll DEF TypeOK
  <2>2. LiveAccounted'
    BY <1>1, <1>3, <2>1 DEF Accounting, LiveAccounted
  <2>3. \A q, r \in PE : q # r => processed'[q] \cap processed'[r] = {}
    <3>1. {u} \cap All(processed) = {}
      BY <1>1
    <3>2. processed \in [PE -> SUBSET Update]
      BY DEF TypeOK
    <3>3. \A q, r \in PE : q # r => processed[q] \cap processed[r] = {}
      BY DEF Accounting, CountedOnce
    <3> QED BY <1>3, <3>1, <3>2, <3>3, CountDisjoint
  <2> QED
    BY <2>2, <2>3 DEF Accounting, CountedOnce
<1> QED
  BY <1>2, <1>3

LEMMA AccountingStep ==
  TypeOK /\ Expansion /\ Accounting /\ [Next]_vars => Accounting'
<1> SUFFICES ASSUME TypeOK, Expansion, Accounting, [Next]_vars
             PROVE  Accounting'
  OBVIOUS
<1>1. ASSUME NEW p \in PE, Start(p) PROVE Accounting'
  <2>1. /\ p = Owner[Source] /\ SourceUpdate \notin created[p]
        /\ created' = Count(created, p, {SourceUpdate})
        /\ Apply(p, SourceUpdate) /\ net' = net
    BY <1>1 DEF Start
  <2>2. All(created) = {} /\ net = {} /\ queued = {} /\ All(processed) = {}
    BY <2>1 DEF Expansion, Started, Known, Accounting, LiveAccounted
  <2>3. All(created') = {SourceUpdate}
    BY <2>1, <2>2, CountAll DEF TypeOK
  <2>4. \/ queued' = {SourceUpdate} /\ processed' = processed
        \/ queued' = {} /\ processed' = Count(processed, p, {SourceUpdate})
    BY <2>1, <2>2, ApplyFacts, SourceUpdateType
  <2>5. \A q, r \in PE : q # r => created'[q] \cap created'[r] = {}
    <3>1. created \in [PE -> SUBSET Update] /\ {SourceUpdate} \cap All(created) = {}
      BY <2>2 DEF TypeOK
    <3>2. \A q, r \in PE : q # r => created[q] \cap created[r] = {}
      BY DEF Accounting, CountedOnce
    <3> QED BY <2>1, <3>1, <3>2, CountDisjoint
  <2>6. CASE queued' = {SourceUpdate} /\ processed' = processed
    BY <2>1, <2>2, <2>3, <2>5, <2>6 DEF Accounting, LiveAccounted, CountedOnce
  <2>7. CASE queued' = {} /\ processed' = Count(processed, p, {SourceUpdate})
    <3>1. All(processed') = {SourceUpdate}
      BY <2>2, <2>7, CountAll DEF TypeOK
    <3>2. \A q, r \in PE : q # r => processed'[q] \cap processed'[r] = {}
      <4>1. processed \in [PE -> SUBSET Update]
            /\ {SourceUpdate} \cap All(processed) = {}
        BY <2>2 DEF TypeOK
      <4>2. \A q, r \in PE : q # r => processed[q] \cap processed[r] = {}
        BY DEF Accounting, CountedOnce
      <4> QED BY <2>7, <4>1, <4>2, CountDisjoint
    <3>3. LiveAccounted'
      BY <2>1, <2>2, <2>3, <2>7, <3>1 DEF LiveAccounted, All
    <3> QED BY <2>5, <3>2, <3>3 DEF Accounting, CountedOnce
  <2> QED BY <2>4, <2>6, <2>7
<1>2. ASSUME NEW p \in PE, Contribute(p) PROVE Accounting'
  BY <1>2, AccountingFrame DEF Contribute, pevars
<1>3. ASSUME NEW p \in PE, NEW u \in net, Receive(p, u) PROVE Accounting'
  <2>1. u \in Update /\ Apply(p, u) /\ net' = net \ {u} /\ created' = created
    BY <1>3 DEF Receive, TypeOK
  <2>2. \/ queued' = queued \cup {u} /\ processed' = processed
        \/ queued' = queued /\ processed' = Count(processed, p, {u})
    BY <2>1 DEF Apply
  <2> QED BY <2>1, <2>2, AccountingTake
<1>4. ASSUME NEW p \in PE, NEW u \in net, Absorb(p, u) PROVE Accounting'
  <2>1. /\ net' = net \ {u} /\ created' = created /\ queued' = queued
        /\ processed' = Count(processed, p, {u})
    BY <1>4 DEF Absorb
  <2> QED BY <2>1, AccountingTake
<1>5. ASSUME NEW p \in PE, NEW u \in queued, Expand(p, u) PROVE Accounting'
  <2>1. PICK sent \in SUBSET Relaxations(u) :
          /\ created' = Count(created, p, sent) /\ net' = net \cup sent
    BY <1>5 DEF Expand
  <2>2. /\ queued' = queued \ {u} /\ u \in Update
        /\ processed' = Count(processed, p, {u})
    BY <1>5 DEF Expand, TypeOK
  <2>3. sent \cap All(created) = {}
    BY ExpansionNew
  <2>4. All(created') = All(created) \cup sent
    BY <2>1, CountAll DEF TypeOK
  <2>5. All(processed') = All(processed) \cup {u}
    BY <2>2, CountAll DEF TypeOK
  <2>6. {u} \cap All(processed) = {} /\ u \notin net /\ u \in All(created)
    BY DEF Accounting, LiveAccounted
  <2>7. LiveAccounted'
    BY <2>1, <2>2, <2>3, <2>4, <2>5, <2>6 DEF Accounting, LiveAccounted
  <2>8. CountedOnce'
    <3>1. /\ created \in [PE -> SUBSET Update] /\ processed \in [PE -> SUBSET Update]
          /\ \A q, r \in PE : q # r => created[q] \cap created[r] = {}
          /\ \A q, r \in PE : q # r => processed[q] \cap processed[r] = {}
      BY DEF TypeOK, Accounting, CountedOnce
    <3>2. \A q, r \in PE : q # r => created'[q] \cap created'[r] = {}
      BY <2>1, <2>3, <3>1, CountDisjoint
    <3>3. \A q, r \in PE : q # r => processed'[q] \cap processed'[r] = {}
      BY <2>2, <2>6, <3>1, CountDisjoint
    <3> QED BY <3>2, <3>3 DEF CountedOnce
  <2> QED BY <2>7, <2>8 DEF Accounting
<1>6. CASE Finish
  BY <1>6, AccountingFrame DEF Finish, pevars
<1>7. CASE NextRound
  BY <1>7, AccountingFrame DEF NextRound, pevars
<1>8. CASE UNCHANGED vars
  BY <1>8, AccountingFrame DEF vars, pevars
<1> QED
  BY <1>1, <1>2, <1>3, <1>4, <1>5, <1>6, <1>7, <1>8 DEF Next

\* created - processed counts the live updates exactly, and the sums Main
\* receives are cardinalities: nothing is lost, duplicated or retired twice.
THEOREM AccountingCorrect == Spec => [](LiveAccounted /\ CountedOnce)
<1>1. Spec => []Accounting
  BY AccountingInit, AccountingStep, TypeCorrect, ExpansionCorrect, PTL DEF Spec
<1> QED
  BY <1>1, PTL DEF Accounting

-----------------------------------------------------------------------------
(* Bounded: distances are never below the shortest ones *)

Bounded ==
  \A g \in Potential :
    /\ \A v \in Vertex : g[v] <= dist[v]
    /\ \A x \in All(created) : g[x.to] <= x.d

LEMMA PotentialFacts ==
  ASSUME NEW g \in Potential
  PROVE  /\ \A v \in Vertex : g[v] \in Nat /\ g[v] <= Lmax
         /\ g[Source] = 0
         /\ \A e \in Edge : g[To[e]] <= g[From[e]] + Weight[e]
  BY GraphAssumption, SourceAssumption DEF Potential, PotentialFrom, Distance

LEMMA BoundedInit == Init => Bounded
  BY PotentialFacts DEF Init, Bounded, All, Nothing

LEMMA BoundedFrame ==
  ASSUME Bounded, created' = created, dist' = dist
  PROVE  Bounded'
  BY DEF Bounded

\* Applying an update that is not below a potential keeps every distance
\* above it.
LEMMA BoundedApply ==
  ASSUME TypeOK, NEW p \in PE, NEW u \in Update, Apply(p, u),
         NEW g \in [Vertex -> Nat], g[u.to] <= u.d,
         \A v \in Vertex : g[v] <= dist[v]
  PROVE  \A v \in Vertex : g[v] <= dist'[v]
<1> SUFFICES ASSUME NEW v \in Vertex PROVE g[v] <= dist'[v]
  OBVIOUS
<1>1. v # u.to => dist'[v] = dist[v]
  BY ApplyFacts
<1>2. dist' = dist \/ dist'[u.to] = u.d
  BY ApplyFacts
<1> QED
  BY <1>1, <1>2

LEMMA BoundedStep ==
  TypeOK /\ Expansion /\ Bounded /\ [Next]_vars => Bounded'
<1> SUFFICES ASSUME TypeOK, Expansion, Bounded, [Next]_vars PROVE Bounded'
  OBVIOUS
<1>1. ASSUME NEW p \in PE, Start(p) PROVE Bounded'
  <2>1. /\ created' = Count(created, p, {SourceUpdate})
        /\ Apply(p, SourceUpdate)
    BY <1>1 DEF Start
  <2>2. All(created') = All(created) \cup {SourceUpdate}
    BY <2>1, CountAll DEF TypeOK
  <2>3. ASSUME NEW g \in Potential
        PROVE  /\ \A v \in Vertex : g[v] <= dist'[v]
               /\ \A x \in All(created') : g[x.to] <= x.d
    <3>1. g \in [Vertex -> Nat] /\ g[SourceUpdate.to] <= SourceUpdate.d
      BY PotentialFacts DEF SourceUpdate, Potential, PotentialFrom, Distance
    <3>2. \A v \in Vertex : g[v] <= dist'[v]
      BY <2>1, <3>1, BoundedApply, SourceUpdateType DEF Bounded
    <3> QED BY <2>2, <3>1, <3>2 DEF Bounded
  <2> QED BY <2>3 DEF Bounded
<1>2. ASSUME NEW p \in PE, Contribute(p) PROVE Bounded'
  BY <1>2, BoundedFrame DEF Contribute, pevars
<1>3. ASSUME NEW p \in PE, NEW u \in net, Receive(p, u) PROVE Bounded'
  <2>1. /\ u \in Update /\ u \in All(created) /\ Apply(p, u)
        /\ created' = created
    BY <1>3 DEF Receive, TypeOK, Expansion, Known
  <2>2. ASSUME NEW g \in Potential PROVE \A v \in Vertex : g[v] <= dist'[v]
    <3>1. g \in [Vertex -> Nat] /\ g[u.to] <= u.d
      BY <2>1 DEF Potential, PotentialFrom, Distance, Bounded
    <3> QED BY <2>1, <3>1, BoundedApply DEF Bounded
  <2> QED BY <2>1, <2>2 DEF Bounded
<1>4. ASSUME NEW p \in PE, NEW u \in net, Absorb(p, u) PROVE Bounded'
  BY <1>4, BoundedFrame DEF Absorb
<1>5. ASSUME NEW p \in PE, NEW u \in queued, Expand(p, u) PROVE Bounded'
  <2>1. PICK sent \in SUBSET Relaxations(u) : created' = Count(created, p, sent)
    BY <1>5 DEF Expand
  <2>2. dist' = dist /\ u \in Update /\ u.to \in Vertex /\ u.d \in Nat
    BY <1>5 DEF Expand, TypeOK, Update
  <2>3. All(created') = All(created) \cup sent
    BY <2>1, <2>2, CountAll DEF TypeOK
  <2>4. ASSUME NEW g \in Potential, NEW x \in sent PROVE g[x.to] <= x.d
    <3>1. PICK e \in Out(u.to) : u.d = dist[u.to] /\ x = Relaxation(e, u.d)
      BY DEF Relaxations
    <3>2. /\ e \in Edge /\ From[e] = u.to /\ Weight[e] \in Nat
          /\ To[e] \in Vertex
      BY <3>1, GraphAssumption DEF Out
    <3>3. /\ g[To[e]] <= g[u.to] + Weight[e] /\ g[u.to] <= u.d
          /\ g[To[e]] \in Nat /\ g[u.to] \in Nat
      BY <2>2, <3>1, <3>2, PotentialFacts DEF Bounded
    <3> QED BY <2>2, <3>1, <3>2, <3>3 DEF Relaxation
  <2> QED BY <2>2, <2>3, <2>4 DEF Bounded
<1>6. CASE Finish
  BY <1>6, BoundedFrame DEF Finish, pevars
<1>7. CASE NextRound
  BY <1>7, BoundedFrame DEF NextRound, pevars
<1>8. CASE UNCHANGED vars
  BY <1>8, BoundedFrame DEF vars, pevars
<1> QED
  BY <1>1, <1>2, <1>3, <1>4, <1>5, <1>6, <1>7, <1>8 DEF Next

\* No tentative distance and no update in flight is ever shorter than the
\* shortest path it stands for.
THEOREM NeverBelow == Spec => []Bounded
  BY BoundedInit, BoundedStep, TypeCorrect, ExpansionCorrect, PTL DEF Spec

-----------------------------------------------------------------------------
(* Relaxing: every edge is relaxed, or a live update still owes it *)

\* Vertex v has a distance of at most d, or is about to.
Beaten(v, d) == dist[v] <= d \/ \E y \in net : y.to = v /\ y.d <= d

\* Every update ever created has had its effect, or something as good has or
\* will: why a covered send or a folded update may be dropped.
Effective == \A x \in All(created) : Beaten(x.to, x.d)

Relaxed == \A e \in Edge :
  \/ Beaten(To[e], dist[From[e]] + Weight[e])
  \/ \E u \in queued : u.to = From[e] /\ u.d = dist[From[e]]

Begun == All(created) # {} => dist[Source] = 0

Relaxing == Effective /\ Relaxed /\ Begun

\* Natural numbers everywhere.
LEMMA Naturalness ==
  ASSUME TypeOK
  PROVE  /\ dist \in [Vertex -> Nat]
         /\ \A x \in net \cup queued \cup All(created) :
              x.to \in Vertex /\ x.d \in Nat
         /\ \A e \in Edge : /\ From[e] \in Vertex /\ To[e] \in Vertex
                            /\ Weight[e] \in Nat
  BY GraphAssumption DEF TypeOK, Distance, All, Update

\* What is beaten stays beaten when distances fall and an update leaves the
\* network only for something as good.
LEMMA BeatenStays ==
  ASSUME TypeOK, NEW v \in Vertex, NEW d \in Nat, Beaten(v, d),
         dist' \in [Vertex -> Nat],
         \A w \in Vertex : dist'[w] <= dist[w],
         \A y \in net : \/ y \in net'
                        \/ dist'[y.to] <= y.d
                        \/ \E z \in net' : z.to = y.to /\ z.d <= y.d /\ z.d \in Nat
  PROVE  Beaten(v, d)'
<1>1. dist[v] \in Nat /\ dist'[v] \in Nat /\ dist'[v] <= dist[v]
  BY Naturalness
<1>2. CASE dist[v] <= d
  BY <1>1, <1>2 DEF Beaten
<1>3. ASSUME NEW y \in net, y.to = v, y.d <= d PROVE Beaten(v, d)'
  <2>1. y.d \in Nat
    BY Naturalness
  <2>2. CASE y \in net'
    BY <1>3, <2>2 DEF Beaten
  <2>3. CASE dist'[y.to] <= y.d
    BY <1>1, <1>3, <2>1, <2>3 DEF Beaten
  <2>4. ASSUME NEW z \in net', z.to = y.to, z.d <= y.d, z.d \in Nat
        PROVE  Beaten(v, d)'
    BY <1>3, <2>1, <2>4 DEF Beaten
  <2> QED BY <2>2, <2>3, <2>4
<1> QED
  BY <1>2, <1>3 DEF Beaten

\* A vertex that took a new distance and is not worth queueing has no edge to
\* relax: it has none, or its only edge leads back where the update came from.
LEMMA PrunedRelaxed ==
  ASSUME TypeOK, Expansion, NEW u \in All(created), NEW e \in Edge,
         From[e] = u.to, ~QueueWorthy(u.to, u.d)
  PROVE  dist[To[e]] <= u.d
<1>1. e \in Out(u.to)
  BY DEF Out
<1>2. LeafPrune /\ Cardinality(Out(u.to)) = 1 /\ u.d # 0
  BY <1>1 DEF QueueWorthy
<1>3. Out(From[e]) = {e}
  <2>1. IsFiniteSet(Out(u.to))
    BY GraphAssumption, FS_Subset DEF Out
  <2>2. PICK f : Out(u.to) = {f}
    BY <1>2, <2>1, FS_Singleton
  <2> QED BY <1>1, <2>2
<1>4. u # SourceUpdate
  BY <1>2 DEF SourceUpdate
<1>5. /\ u.via \in Edge /\ To[u.via] = From[e]
      /\ dist[From[u.via]] + Weight[u.via] <= u.d
  BY <1>4 DEF Expansion, Shape
<1>6. From[u.via] = To[e]
  BY <1>2, <1>3, <1>5, LeafAssumption
<1>7. dist[To[e]] \in Nat /\ Weight[u.via] \in Nat /\ u.d \in Nat
  BY <1>5, Naturalness
<1> QED
  BY <1>5, <1>6, <1>7

LEMMA RelaxingInit == Init => Relaxing
<1> SUFFICES ASSUME Init PROVE Relaxing
  OBVIOUS
<1>1. \A e \in Edge : dist[To[e]] <= dist[From[e]] + Weight[e]
  BY GraphAssumption DEF Init
<1> QED
  BY <1>1 DEF Init, Relaxing, Effective, Relaxed, Begun, Beaten, All, Nothing

LEMMA RelaxingFrame ==
  ASSUME Relaxing, created' = created, dist' = dist, queued' = queued,
         net' = net
  PROVE  Relaxing'
  BY DEF Relaxing, Effective, Relaxed, Begun, Beaten

\* Applying an update that has been created, whether or not it was in net.
LEMMA RelaxingApply ==
  ASSUME TypeOK, Expansion, Effective, Relaxed,
         NEW p \in PE, NEW u \in All(created), u \in Update, Apply(p, u),
         net' = net \ {u}
  PROVE  /\ Relaxed'
         /\ \A x \in All(created) : Beaten(x.to, x.d)'
<1>1. /\ dist' \in [Vertex -> Nat]
      /\ \A v \in Vertex : dist'[v] <= dist[v]
      /\ \A v \in Vertex \ {u.to} : dist'[v] = dist[v]
      /\ dist'[u.to] <= u.d
  BY ApplyFacts, ApplyType, GraphAssumption DEF Distance
<1>2. ASSUME NEW v \in Vertex, NEW d \in Nat, Beaten(v, d)
      PROVE  Beaten(v, d)'
  <2>1. \A y \in net : y \in net' \/ dist'[y.to] <= y.d
    BY <1>1
  <2> QED BY <1>1, <1>2, <2>1, BeatenStays
<1>3. \A x \in All(created) : Beaten(x.to, x.d)'
  BY <1>2, Naturalness DEF Effective
<1>4. ASSUME NEW e \in Edge
      PROVE  \/ Beaten(To[e], dist[From[e]] + Weight[e])'
             \/ \E w \in queued' : w.to = From[e] /\ w.d = dist'[From[e]]
  <2>1. /\ From[e] \in Vertex /\ To[e] \in Vertex /\ Weight[e] \in Nat
        /\ dist[From[e]] + Weight[e] \in Nat
        /\ dist[To[e]] \in Nat /\ dist'[To[e]] \in Nat
        /\ dist'[To[e]] <= dist[To[e]]
    BY <1>1, Naturalness
  <2>2. CASE dist'[From[e]] = dist[From[e]]
    <3>1. CASE Beaten(To[e], dist[From[e]] + Weight[e])
      <4>1. Beaten(To[e], dist[From[e]] + Weight[e]) =>
              \/ dist'[To[e]] <= dist[From[e]] + Weight[e]
              \/ \E y \in net' : /\ y.to = To[e]
                                 /\ y.d <= dist[From[e]] + Weight[e]
        BY <1>2, <2>1 DEF Beaten
      <4> QED BY <2>2, <3>1, <4>1 DEF Beaten
    <3>2. ASSUME NEW w \in queued, w.to = From[e], w.d = dist[From[e]]
          PROVE  \E z \in queued' : z.to = From[e] /\ z.d = dist'[From[e]]
      <4>1. w \in queued'
        BY ApplyFacts
      <4> QED BY <2>2, <3>2, <4>1
    <3> QED BY <3>1, <3>2 DEF Relaxed
  <2>3. CASE dist'[From[e]] # dist[From[e]]
    <3>1. From[e] = u.to /\ dist' # dist
      BY <1>1, <2>1, <2>3
    <3>2. /\ dist'[u.to] = u.d
          /\ \/ queued' = queued \cup {u}
             \/ ~QueueWorthy(u.to, u.d)
      BY <3>1, ApplyFacts
    <3>3. CASE queued' = queued \cup {u}
      BY <3>1, <3>2, <3>3
    <3>4. CASE ~QueueWorthy(u.to, u.d)
      <4>1. dist[To[e]] <= u.d /\ u.d \in Nat
        BY <3>1, <3>4, PrunedRelaxed, Naturalness
      <4>2. dist'[To[e]] <= dist'[From[e]] + Weight[e]
        BY <2>1, <3>1, <3>2, <4>1
      <4> QED BY <4>2 DEF Beaten
    <3> QED BY <3>2, <3>3, <3>4
  <2> QED BY <2>2, <2>3
<1> QED
  BY <1>3, <1>4 DEF Relaxed

LEMMA RelaxingStart ==
  ASSUME TypeOK, Expansion, Relaxing, Accounting, NEW p \in PE, Start(p)
  PROVE  Relaxing'
<1>1. /\ p = Owner[Source] /\ SourceUpdate \notin created[p]
      /\ created' = Count(created, p, {SourceUpdate})
      /\ Apply(p, SourceUpdate) /\ net' = net
  BY DEF Start
<1>2. All(created) = {} /\ net = {} /\ queued = {}
  BY <1>1 DEF Expansion, Started, Known
<1>3. All(created') = {SourceUpdate}
  BY <1>1, <1>2, CountAll DEF TypeOK
<1>4. SourceUpdate.to = Source /\ SourceUpdate.d = 0 /\ Source \in Vertex
  BY SourceAssumption DEF SourceUpdate
<1>5. /\ dist' \in [Vertex -> Nat]
      /\ \A v \in Vertex : dist'[v] <= dist[v]
      /\ \A v \in Vertex \ {Source} : dist'[v] = dist[v]
      /\ dist'[Source] <= 0
  BY <1>1, <1>4, ApplyFacts, ApplyType, SourceUpdateType, GraphAssumption
     DEF Distance
<1>6. dist'[Source] = 0
  BY <1>4, <1>5
<1>7. Effective' /\ Begun'
  BY <1>3, <1>4, <1>5, <1>6 DEF Effective, Begun, Beaten
<1>8. ASSUME NEW e \in Edge
      PROVE  \/ Beaten(To[e], dist[From[e]] + Weight[e])'
             \/ \E w \in queued' : w.to = From[e] /\ w.d = dist'[From[e]]
  <2>1. dist[To[e]] <= dist[From[e]] + Weight[e]
    BY <1>2 DEF Relaxing, Relaxed, Beaten
  <2>2. /\ From[e] \in Vertex /\ To[e] \in Vertex /\ Weight[e] \in Nat
        /\ dist[From[e]] \in Nat /\ dist'[From[e]] \in Nat
        /\ dist[To[e]] \in Nat /\ dist'[To[e]] \in Nat
        /\ dist'[To[e]] <= dist[To[e]]
    BY <1>5, Naturalness
  <2>3. CASE dist'[From[e]] = dist[From[e]]
    <3>1. dist'[To[e]] <= dist'[From[e]] + Weight[e]
      BY <2>1, <2>2, <2>3
    <3> QED BY <3>1 DEF Beaten
  <2>4. CASE dist'[From[e]] # dist[From[e]]
    <3>1. From[e] = Source /\ dist' # dist
      BY <1>5, <2>2, <2>4
    <3>2. QueueWorthy(Source, 0)
      BY <3>1 DEF QueueWorthy, Out
    <3>3. SourceUpdate \in queued'
      BY <1>1, <1>4, <3>1, <3>2, ApplyFacts, SourceUpdateType
    <3> QED BY <1>4, <1>6, <3>1, <3>3
  <2> QED BY <2>3, <2>4
<1> QED
  BY <1>7, <1>8 DEF Relaxing, Relaxed

LEMMA RelaxingExpand ==
  ASSUME TypeOK, Expansion, Relaxing, NEW p \in PE, NEW u \in queued,
         Expand(p, u)
  PROVE  Relaxing'
<1>1. PICK sent \in SUBSET Relaxations(u) :
        /\ \A k \in Relaxations(u) \ sent : Covered(p, k, sent)
        /\ created' = Count(created, p, sent) /\ net' = net \cup sent
  BY DEF Expand
<1>2. /\ queued' = queued \ {u} /\ dist' = dist
      /\ u \in Update /\ u.to \in Vertex /\ u.d \in Nat
      /\ All(created) # {}
  BY DEF Expand, TypeOK, Update, Expansion, Known
<1>3. All(created') = All(created) \cup sent
  BY <1>1, <1>2, CountAll, RelaxationsType DEF TypeOK
<1>4. \A k \in Relaxations(u) : k.to \in Vertex /\ k.d \in Nat
  BY <1>2, RelaxationsType DEF Update
<1>5. \A v, d : Beaten(v, d) => \/ dist'[v] <= d
                                \/ \E y \in net' : y.to = v /\ y.d <= d
  BY <1>1, <1>2 DEF Beaten
<1>6. ASSUME NEW k \in Relaxations(u)
      PROVE  dist'[k.to] <= k.d \/ \E y \in net' : y.to = k.to /\ y.d <= k.d
  <2>1. CASE k \in sent
    BY <1>1, <1>4, <2>1
  <2>2. CASE dist[k.to] <= k.d
    BY <1>2, <2>2
  <2>3. ASSUME NEW x \in created[p] \cup sent, x.to = k.to, x.d <= k.d
        PROVE  \/ dist'[k.to] <= k.d
               \/ \E y \in net' : y.to = k.to /\ y.d <= k.d
    <3>1. CASE x \in sent
      BY <1>1, <2>3, <3>1
    <3>2. CASE x \in created[p]
      <4>1. x \in All(created)
        BY <3>2 DEF All
      <4>2. dist[x.to] <= x.d \/ \E y \in net : y.to = x.to /\ y.d <= x.d
        BY <4>1 DEF Relaxing, Effective, Beaten
      <4>3. /\ x.d \in Nat /\ k.d \in Nat /\ dist[k.to] \in Nat
            /\ \A y \in net : y.d \in Nat
        BY <1>4, <4>1, Naturalness
      <4> QED BY <1>1, <1>2, <2>3, <4>2, <4>3
    <3> QED BY <2>3, <3>1, <3>2
  <2> QED BY <1>1, <2>1, <2>2, <2>3 DEF Covered
<1>7. Effective'
  <2>1. ASSUME NEW x \in All(created') PROVE Beaten(x.to, x.d)'
    <3>1. CASE x \in All(created)
      BY <1>5, <3>1 DEF Relaxing, Effective, Beaten
    <3>2. CASE x \in sent
      BY <1>6, <3>2 DEF Beaten
    <3> QED BY <1>3, <3>1, <3>2
  <2> QED BY <2>1 DEF Effective
<1>8. ASSUME NEW e \in Edge
      PROVE  \/ Beaten(To[e], dist[From[e]] + Weight[e])'
             \/ \E w \in queued' : w.to = From[e] /\ w.d = dist'[From[e]]
  <2>1. CASE Beaten(To[e], dist[From[e]] + Weight[e])
    BY <1>2, <1>5, <2>1 DEF Beaten
  <2>2. ASSUME NEW w \in queued, w.to = From[e], w.d = dist[From[e]]
        PROVE  \/ Beaten(To[e], dist[From[e]] + Weight[e])'
               \/ \E z \in queued' : z.to = From[e] /\ z.d = dist'[From[e]]
    <3>1. CASE w # u
      BY <1>2, <2>2, <3>1
    <3>2. CASE w = u
      <4>1. Relaxation(e, u.d) \in Relaxations(u)
        BY <2>2, <3>2 DEF Relaxations, Out
      <4>2. \/ dist'[To[e]] <= u.d + Weight[e]
            \/ \E y \in net' : y.to = To[e] /\ y.d <= u.d + Weight[e]
        BY <1>6, <4>1 DEF Relaxation
      <4> QED BY <1>2, <2>2, <3>2, <4>2 DEF Beaten
    <3> QED BY <3>1, <3>2
  <2> QED BY <2>1, <2>2 DEF Relaxing, Relaxed
<1> QED
  BY <1>2, <1>7, <1>8 DEF Relaxing, Relaxed, Begun

LEMMA RelaxingStep ==
  TypeOK /\ Expansion /\ Accounting /\ Relaxing /\ [Next]_vars => Relaxing'
<1> SUFFICES ASSUME TypeOK, Expansion, Accounting, Relaxing, [Next]_vars
             PROVE  Relaxing'
  OBVIOUS
<1>1. ASSUME NEW p \in PE, Start(p) PROVE Relaxing'
  BY <1>1, RelaxingStart
<1>2. ASSUME NEW p \in PE, Contribute(p) PROVE Relaxing'
  BY <1>2, RelaxingFrame DEF Contribute, pevars
<1>3. ASSUME NEW p \in PE, NEW u \in net, Receive(p, u) PROVE Relaxing'
  <2>1. /\ u \in Update /\ u \in All(created) /\ Apply(p, u)
        /\ created' = created /\ net' = net \ {u}
    BY <1>3 DEF Receive, TypeOK, Expansion, Known
  <2>2. Relaxed' /\ \A x \in All(created) : Beaten(x.to, x.d)'
    BY <2>1, RelaxingApply DEF Relaxing
  <2>3. Begun'
    <3>1. \A v \in Vertex : dist[v] \in Nat /\ dist'[v] \in Nat /\ dist'[v] <= dist[v]
      BY <2>1, ApplyFacts
    <3>2. Source \in Vertex
      BY SourceAssumption
    <3> QED BY <2>1, <3>1, <3>2 DEF Relaxing, Begun
  <2> QED BY <2>1, <2>2, <2>3 DEF Relaxing, Effective
<1>4. ASSUME NEW p \in PE, NEW u \in net, Absorb(p, u) PROVE Relaxing'
  <2>1. /\ net' = net \ {u} /\ dist' = dist /\ queued' = queued
        /\ created' = created
        /\ \E x \in net \ {u} : x.to = u.to /\ x.d <= u.d
    BY <1>4 DEF Absorb
  <2>2. ASSUME NEW v \in Vertex, NEW d \in Nat, Beaten(v, d)
        PROVE  dist'[v] <= d \/ \E y \in net' : y.to = v /\ y.d <= d
    <3>1. \A y \in net : \/ y \in net'
                         \/ \E z \in net' : z.to = y.to /\ z.d <= y.d /\ z.d \in Nat
      BY <2>1, Naturalness
    <3>2. dist' \in [Vertex -> Nat] /\ \A w \in Vertex : dist'[w] <= dist[w]
      BY <2>1, Naturalness
    <3> QED BY <2>2, <3>1, <3>2, BeatenStays DEF Beaten
  <2>3. Effective'
    BY <2>1, <2>2, Naturalness DEF Relaxing, Effective, Beaten
  <2>4. Relaxed'
    <3>1. \A e \in Edge : To[e] \in Vertex /\ dist[From[e]] + Weight[e] \in Nat
      BY Naturalness
    <3> QED BY <2>1, <2>2, <3>1 DEF Relaxing, Relaxed, Beaten
  <2> QED BY <2>1, <2>3, <2>4 DEF Relaxing, Begun
<1>5. ASSUME NEW p \in PE, NEW u \in queued, Expand(p, u) PROVE Relaxing'
  BY <1>5, RelaxingExpand
<1>6. CASE Finish
  BY <1>6, RelaxingFrame DEF Finish, pevars
<1>7. CASE NextRound
  BY <1>7, RelaxingFrame DEF NextRound, pevars
<1>8. CASE UNCHANGED vars
  BY <1>8, RelaxingFrame DEF vars, pevars
<1> QED
  BY <1>1, <1>2, <1>3, <1>4, <1>5, <1>6, <1>7, <1>8 DEF Next

\* No relaxation is ever forgotten, although sends are filtered, updates
\* folded and leaves pruned.
THEOREM NothingForgotten == Spec => []Relaxing
<1>1. Spec => []Accounting
  BY AccountingCorrect, PTL DEF Accounting
<1> QED
  BY <1>1, RelaxingInit, RelaxingStep, TypeCorrect, ExpansionCorrect, PTL DEF Spec

-----------------------------------------------------------------------------
(* Snapshots: two equal sums mean that nothing was live at the broadcast *)

Idle == net = {} /\ queued = {} /\ All(created) # {}

FiniteCounters == IsFiniteSet(All(created))

\* roundCreated and roundProcessed lie between the two snapshots Main
\* compares: after every contribution to the last round, before any to this.
Between ==
  /\ \A p \in PE : /\ roundCreated[p] \subseteq created[p]
                   /\ roundProcessed[p] \subseteq processed[p]
  /\ \A p \in contributed :
       /\ roundCreated[p] \subseteq snapCreated[p]
       /\ snapCreated[p] \subseteq created[p]
       /\ roundProcessed[p] \subseteq snapProcessed[p]
       /\ snapProcessed[p] \subseteq processed[p]
  /\ prevCreated \subseteq All(roundCreated)
  /\ prevProcessed \subseteq All(roundProcessed)
  /\ All(roundProcessed) \subseteq All(roundCreated)

\* If everything created had been processed at the broadcast, it still is.
QuietAtRound ==
  All(roundCreated) = All(roundProcessed) /\ All(roundCreated) # {} => Idle

Snapshots ==
  FiniteCounters /\ Between /\ QuietAtRound /\ (done => Idle)

\* The core of the termination test, on sets: the previous sums' sets are
\* within the sets at the broadcast, those within the current ones.
LEMMA DoubleSnapshot ==
  ASSUME TypeOK, Accounting, Snapshots, contributed = PE, Converged
  PROVE  Idle
<1> DEFINE C == All(snapCreated)
           Q == All(snapProcessed)
<1>1. /\ prevCreated \subseteq All(roundCreated) /\ All(roundCreated) \subseteq C
      /\ C \subseteq All(created)
      /\ prevProcessed \subseteq All(roundProcessed) /\ All(roundProcessed) \subseteq Q
      /\ Q \subseteq All(created)
      /\ All(roundProcessed) \subseteq All(roundCreated)
  <2>1. /\ All(roundCreated) \subseteq C /\ C \subseteq All(created)
        /\ All(roundProcessed) \subseteq Q /\ Q \subseteq All(processed)
    BY DEF Snapshots, Between, All
  <2>2. All(processed) \subseteq All(created)
    BY DEF Accounting, LiveAccounted
  <2> QED BY <2>1, <2>2 DEF Snapshots, Between
<1>2. IsFiniteSet(C) /\ IsFiniteSet(Q)
  BY <1>1, FS_Subset DEF Snapshots, FiniteCounters
<1>3. /\ Cardinality(C) > 0 /\ Cardinality(Q) = Cardinality(C)
      /\ Cardinality(C) = Cardinality(prevCreated)
      /\ Cardinality(Q) = Cardinality(prevProcessed)
  BY DEF Converged
<1>4. prevCreated = C
  <2>1. prevCreated \subseteq C
    BY <1>1
  <2> QED BY <1>2, <1>3, <2>1, FS_Subset, Zenon
<1>5. prevProcessed = Q
  <2>1. prevProcessed \subseteq Q
    BY <1>1
  <2> QED BY <1>2, <1>3, <2>1, FS_Subset, Zenon
<1>6. All(roundCreated) = C /\ All(roundProcessed) = Q /\ Q \subseteq C
  BY <1>1, <1>4, <1>5
<1>7. Q = C
  BY <1>2, <1>3, <1>6, FS_Subset, Zenon
<1>8. C # {}
  BY <1>3, FS_EmptySet
<1> QED
  BY <1>6, <1>7, <1>8 DEF Snapshots, QuietAtRound

LEMMA SnapshotsInit == Init => Snapshots
  BY FS_EmptySet
     DEF Init, Snapshots, FiniteCounters, Between, QuietAtRound, All, Nothing

\* A PE's step only adds to its counters, and is not possible once idle.
LEMMA SnapshotsPE ==
  ASSUME TypeOK, Snapshots, ~Idle,
         UNCHANGED <<contributed, snapCreated, snapProcessed, mainvars>>,
         \A p \in PE : created[p] \subseteq created'[p],
         \A p \in PE : processed[p] \subseteq processed'[p],
         IsFiniteSet(All(created'))
  PROVE  Snapshots'
<1>1. Between'
  <2>1. /\ roundCreated' = roundCreated /\ roundProcessed' = roundProcessed
        /\ prevCreated' = prevCreated /\ prevProcessed' = prevProcessed
        /\ snapCreated' = snapCreated /\ snapProcessed' = snapProcessed
        /\ contributed' = contributed
    BY DEF mainvars
  <2>2. \A p \in PE : /\ roundCreated[p] \subseteq created'[p]
                      /\ roundProcessed[p] \subseteq processed'[p]
    BY DEF Snapshots, Between
  <2>3. \A p \in contributed :
          p \in PE => /\ roundCreated[p] \subseteq snapCreated[p]
                      /\ snapCreated[p] \subseteq created'[p]
                      /\ roundProcessed[p] \subseteq snapProcessed[p]
                      /\ snapProcessed[p] \subseteq processed'[p]
    BY DEF Snapshots, Between
  <2> QED BY <2>1, <2>2, <2>3 DEF Snapshots, Between, TypeOK
<1>2. FiniteCounters'
  BY DEF FiniteCounters
<1>3. ~(All(roundCreated) = All(roundProcessed) /\ All(roundCreated) # {}) /\ ~done
  BY DEF Snapshots, QuietAtRound
<1>4. QuietAtRound' /\ ~done'
  BY <1>3 DEF QuietAtRound, mainvars
<1> QED
  BY <1>1, <1>2, <1>4 DEF Snapshots

LEMMA RelaxationsFinite ==
  ASSUME NEW u \in Update
  PROVE  IsFiniteSet(Relaxations(u))
<1>1. IsFiniteSet(Out(u.to))
  BY GraphAssumption, FS_Subset DEF Out
<1>2. IsFiniteSet({Relaxation(e, u.d) : e \in Out(u.to)})
  <2> DEFINE f == [e \in Out(u.to) |-> Relaxation(e, u.d)]
  <2>1. {Relaxation(e, u.d) : e \in Out(u.to)} = {f[e] : e \in Out(u.to)}
    OBVIOUS
  <2>2. f \in Surjection(Out(u.to), {f[e] : e \in Out(u.to)})
    BY DEF Surjection
  <2>3. IsFiniteSet({f[e] : e \in Out(u.to)})
    BY <1>1, <2>2, FS_Surjection
  <2> QED BY <2>1, <2>3
<1> QED
  BY <1>2, FS_EmptySet DEF Relaxations

LEMMA SnapshotsStep ==
  /\ TypeOK /\ Expansion /\ Accounting /\ Snapshots /\ [Next]_vars
  => Snapshots'
<1> SUFFICES ASSUME TypeOK, Expansion, Accounting, Snapshots, [Next]_vars
             PROVE  Snapshots'
  OBVIOUS
<1>1. ASSUME NEW p \in PE, Start(p) PROVE Snapshots'
  <2>1. /\ p = Owner[Source] /\ SourceUpdate \notin created[p]
        /\ created' = Count(created, p, {SourceUpdate})
        /\ Apply(p, SourceUpdate)
    BY <1>1 DEF Start
  <2>2. All(created) = {}
    BY <2>1 DEF Expansion, Started
  <2>3. All(created') = {SourceUpdate}
    BY <2>1, <2>2, CountAll DEF TypeOK
  <2>4. IsFiniteSet(All(created')) /\ ~Idle
    BY <2>2, <2>3, FS_Singleton DEF Idle
  <2>5. \A q \in PE : created[q] \subseteq created'[q]
    BY <2>1 DEF Count, TypeOK
  <2>6. \A q \in PE : processed[q] \subseteq processed'[q]
    BY <2>1 DEF Apply, Count, TypeOK
  <2> QED
    BY <1>1, <2>4, <2>5, <2>6, SnapshotsPE DEF Start
<1>2. ASSUME NEW p \in PE, Contribute(p) PROVE Snapshots'
  <2>1. /\ contributed' = contributed \cup {p}
        /\ snapCreated' = [snapCreated EXCEPT ![p] = created[p]]
        /\ snapProcessed' = [snapProcessed EXCEPT ![p] = processed[p]]
        /\ UNCHANGED <<pevars, mainvars>>
    BY <1>2 DEF Contribute
  <2>2. /\ snapCreated'[p] = created[p] /\ snapProcessed'[p] = processed[p]
        /\ \A q \in PE : q # p => /\ snapCreated'[q] = snapCreated[q]
                                  /\ snapProcessed'[q] = snapProcessed[q]
    BY <2>1 DEF TypeOK
  <2>3. Between'
    BY <2>1, <2>2 DEF Snapshots, Between, pevars, mainvars, TypeOK
  <2>4. FiniteCounters' /\ QuietAtRound' /\ (done => Idle)'
    BY <2>1 DEF Snapshots, FiniteCounters, QuietAtRound, Idle, pevars, mainvars
  <2> QED BY <2>3, <2>4 DEF Snapshots
<1>3. ASSUME NEW p \in PE, NEW u \in net, Receive(p, u) PROVE Snapshots'
  <2>1. created' = created /\ Apply(p, u) /\ ~Idle
    BY <1>3 DEF Receive, Idle
  <2>2. \A q \in PE : processed[q] \subseteq processed'[q]
    BY <2>1 DEF Apply, Count, TypeOK
  <2> QED
    BY <1>3, <2>1, <2>2, SnapshotsPE DEF Receive, Snapshots, FiniteCounters
<1>4. ASSUME NEW p \in PE, NEW u \in net, Absorb(p, u) PROVE Snapshots'
  <2>1. created' = created /\ ~Idle /\ processed' = Count(processed, p, {u})
    BY <1>4 DEF Absorb, Idle
  <2>2. \A q \in PE : processed[q] \subseteq processed'[q]
    BY <2>1 DEF Count, TypeOK
  <2> QED
    BY <1>4, <2>1, <2>2, SnapshotsPE DEF Absorb, Snapshots, FiniteCounters
<1>5. ASSUME NEW p \in PE, NEW u \in queued, Expand(p, u) PROVE Snapshots'
  <2>1. PICK sent \in SUBSET Relaxations(u) : created' = Count(created, p, sent)
    BY <1>5 DEF Expand
  <2>2. u \in Update /\ ~Idle /\ processed' = Count(processed, p, {u})
    BY <1>5 DEF Expand, TypeOK, Idle
  <2>3. All(created') = All(created) \cup sent
    BY <2>1, CountAll DEF TypeOK
  <2>4. IsFiniteSet(sent)
    BY <2>2, RelaxationsFinite, FS_Subset
  <2>5. IsFiniteSet(All(created'))
    BY <2>3, <2>4, FS_Union DEF Snapshots, FiniteCounters
  <2>6. \A q \in PE : /\ created[q] \subseteq created'[q]
                      /\ processed[q] \subseteq processed'[q]
    BY <2>1, <2>2 DEF Count, TypeOK
  <2> QED
    BY <1>5, <2>2, <2>5, <2>6, SnapshotsPE DEF Expand
<1>6. CASE Finish
  <2>1. Idle
    BY <1>6, DoubleSnapshot DEF Finish
  <2> QED
    BY <1>6, <2>1 DEF Finish, pevars, Snapshots, FiniteCounters, Between,
                     QuietAtRound, Idle
<1>7. CASE NextRound
  <2>1. /\ ~done /\ done' = done /\ contributed = PE /\ contributed' = {}
        /\ prevCreated' = All(snapCreated) /\ prevProcessed' = All(snapProcessed)
        /\ roundCreated' = created /\ roundProcessed' = processed
        /\ UNCHANGED pevars
    BY <1>7 DEF NextRound
  <2>2. All(snapCreated) \subseteq All(created)
        /\ All(snapProcessed) \subseteq All(processed)
    BY <2>1 DEF Snapshots, Between, All
  <2>3. All(processed) \subseteq All(created)
    BY DEF Accounting, LiveAccounted
  <2>4. Between'
    BY <2>1, <2>2, <2>3 DEF Between, pevars
  <2>5. QuietAtRound'
    <3>1. ASSUME All(created) = All(processed), All(created) # {} PROVE Idle
      BY <3>1 DEF Accounting, LiveAccounted, Idle
    <3> QED BY <2>1, <3>1 DEF QuietAtRound, Idle, pevars
  <2> QED
    BY <2>1, <2>4, <2>5 DEF Snapshots, FiniteCounters, pevars
<1>8. CASE UNCHANGED vars
  BY <1>8 DEF vars, pevars, mainvars, Snapshots, FiniteCounters, Between,
              QuietAtRound, Idle
<1> QED
  BY <1>1, <1>2, <1>3, <1>4, <1>5, <1>6, <1>7, <1>8 DEF Next

THEOREM SnapshotsCorrect == Spec => []Snapshots
<1>1. Spec => []Accounting
  BY AccountingCorrect, PTL DEF Accounting
<1> QED
  BY <1>1, SnapshotsInit, SnapshotsStep, TypeCorrect, ExpansionCorrect, PTL
     DEF Spec

\* When Main announces the end no update is live on any PE or in any message,
\* although its two sums were taken at different times on different PEs.
THEOREM TerminationSafe == Spec => []NoFalseTermination
<1>1. Snapshots => NoFalseTermination
  BY DEF Snapshots, NoFalseTermination, Idle
<1> QED
  BY <1>1, SnapshotsCorrect, PTL

-----------------------------------------------------------------------------
(* The answer *)

LEMMA IdleShortest ==
  ASSUME TypeOK, Relaxing, Bounded, Idle
  PROVE  IsShortest(dist)
<1>1. dist \in [Vertex -> Distance] /\ dist[Source] = 0
  BY DEF TypeOK, Relaxing, Begun, Idle
<1>2. \A e \in Edge : dist[To[e]] <= dist[From[e]] + Weight[e]
  BY DEF Relaxing, Relaxed, Beaten, Idle
<1> QED
  BY <1>1, <1>2 DEF IsShortest, IsShortestFrom, Potential, PotentialFrom, Bounded

\* The distances at the announced end are the shortest ones, for every graph
\* and every order of applying, filtering, folding and expanding.
THEOREM AnswerIsShortest == Spec => []AnswerCorrect
<1>1. TypeOK /\ Relaxing /\ Bounded /\ Snapshots => AnswerCorrect
  BY IdleShortest DEF Snapshots, AnswerCorrect
<1> QED
  BY <1>1, TypeCorrect, NothingForgotten, NeverBelow, SnapshotsCorrect, PTL

-----------------------------------------------------------------------------
(* serial_dijkstra() finds the shortest distances of every graph *)

\* Its recursion defines a function.
LEMMA PoppedDef ==
  /\ DOMAIN Popped = 0..LoopBound
  /\ Popped[0] = FirstPush
  /\ \A n \in 1..LoopBound : Popped[n] = PopTop(Popped[n - 1])
<1> DEFINE Good(n, f) ==
             f = [i \in 0..n |-> IF i = 0 THEN FirstPush ELSE PopTop(f[i - 1])]
           Bad == {n \in Nat : ~ \E f : Good(n, f)}
<1>0. LoopBound \in Nat
  BY GraphAssumption, FS_CardinalityType DEF LoopBound
<1>1. \E f : Good(0, f)
  <2>1. Good(0, [i \in 0..0 |-> FirstPush])
    OBVIOUS
  <2> QED BY <2>1
<1>2. ASSUME NEW n \in Nat, NEW f, Good(n, f) PROVE \E h : Good(n + 1, h)
  <2> DEFINE h == [i \in 0..(n + 1) |-> IF i = 0 THEN FirstPush ELSE PopTop(f[i - 1])]
  <2>1. \A i \in 0..n : f[i] = IF i = 0 THEN FirstPush ELSE PopTop(f[i - 1])
    BY <1>2
  <2>2. \A i \in 0..n : h[i] = f[i]
    BY <2>1
  <2>3. \A i \in 0..(n + 1) : i # 0 => i - 1 \in 0..n
    OBVIOUS
  <2>4. \A i \in 0..(n + 1) : i # 0 => h[i - 1] = f[i - 1]
    BY <2>2, <2>3
  <2>5. Good(n + 1, h)
    BY <2>4
  <2> QED BY <2>5
<1> HIDE DEF Good
<1>3. Bad = {}
  <2> SUFFICES ASSUME Bad # {} PROVE FALSE
    OBVIOUS
  <2>1. PICK n \in Bad : \A m \in Bad : n <= m
    BY LeastNatural
  <2>2. n \in Nat /\ n # 0
    BY <1>1
  <2>3. n - 1 \in Nat /\ ~(n <= n - 1) /\ n - 1 + 1 = n
    BY <2>2
  <2>4. n - 1 \notin Bad
    BY <2>1, <2>3
  <2> QED BY <1>2, <2>1, <2>3, <2>4
<1>4. \E f : Good(LoopBound, f)
  BY <1>0, <1>3
<1>5. Popped = [i \in 0..LoopBound |-> IF i = 0 THEN FirstPush ELSE PopTop(Popped[i - 1])]
  BY <1>4 DEF Good, Popped
<1> HIDE DEF Popped
<1> QED BY <1>0, <1>5

\* The vertices that have been reached and expanded at the distance they have.
Settled(s) ==
  {v \in Vertex : /\ s.distances[v] < Lmax
                  /\ [d |-> s.distances[v], to |-> v] \notin s.frontier}

\* The invariant of the loop: no distance is below the shortest one, and what
\* leaves a settled vertex has been relaxed and is not going to be again.
Heaped(s) ==
  /\ s.frontier \subseteq HeapEntry /\ IsFiniteSet(s.frontier)
  /\ \A x \in s.frontier : s.distances[x.to] <= x.d /\ x.d < Lmax
LoopInv(s) ==
  /\ s.distances \in [Vertex -> Distance]
  /\ s.distances[Source] = 0
  /\ Heaped(s)
  /\ \A g \in Potential, v \in Vertex : g[v] <= s.distances[v]
  /\ \A e \in Edge : From[e] \in Settled(s) =>
       s.distances[To[e]] <= s.distances[From[e]] + Weight[e]
  /\ \A v \in Settled(s), x \in s.frontier : s.distances[v] <= x.d

\* The pushes still to come, and those still in the frontier.
Unsettled(s) == {e \in Edge : From[e] \notin Settled(s)}
Left(s) == Cardinality(Unsettled(s)) + Cardinality(s.frontier)

LEMMA LeftType ==
  ASSUME NEW s, LoopInv(s)
  PROVE  /\ IsFiniteSet(Unsettled(s)) /\ Cardinality(Unsettled(s)) \in Nat
         /\ IsFiniteSet(s.frontier) /\ Cardinality(s.frontier) \in Nat
         /\ Left(s) \in Nat
<1>1. IsFiniteSet(Unsettled(s)) /\ IsFiniteSet(s.frontier)
  BY GraphAssumption, FS_Subset DEF Unsettled, LoopInv, Heaped
<1> QED BY <1>1, FS_CardinalityType DEF Left

LEMMA FirstPushFacts == LoopInv(FirstPush) /\ Left(FirstPush) <= LoopBound
<1>1. /\ FirstPush.distances = [v \in Vertex |-> IF v = Source THEN 0 ELSE Lmax]
      /\ FirstPush.frontier = {[d |-> 0, to |-> Source]}
  BY DEF FirstPush
<1>2. /\ FirstPush.distances \in [Vertex -> Distance]
      /\ FirstPush.distances[Source] = 0
  BY <1>1, GraphAssumption, SourceAssumption DEF Distance
<1>3. Heaped(FirstPush)
  <2>1. IsFiniteSet(FirstPush.frontier)
    BY <1>1, FS_Singleton
  <2>2. [d |-> 0, to |-> Source] \in HeapEntry
    BY SourceAssumption DEF HeapEntry
  <2>3. 0 < Lmax /\ FirstPush.distances[Source] <= 0
    BY <1>2, GraphAssumption
  <2> QED BY <1>1, <2>1, <2>2, <2>3 DEF Heaped
<1>4. \A g \in Potential, v \in Vertex : g[v] <= FirstPush.distances[v]
  BY <1>1, PotentialFacts
<1>5. Settled(FirstPush) = {}
  BY <1>1, GraphAssumption DEF Settled
<1>6. LoopInv(FirstPush)
  BY <1>2, <1>3, <1>4, <1>5 DEF LoopInv
<1>7. Unsettled(FirstPush) = Edge /\ Cardinality(FirstPush.frontier) = 1
  BY <1>1, <1>5, FS_Singleton DEF Unsettled
<1> QED BY <1>6, <1>7, GraphAssumption, FS_CardinalityType DEF Left, LoopBound

LEMMA TopFacts ==
  ASSUME NEW s, LoopInv(s), s.frontier # {}
  PROVE  /\ Top(s.frontier) \in s.frontier
         /\ \A y \in s.frontier : Top(s.frontier).d <= y.d
<1> DEFINE Keys == {x.d : x \in s.frontier}
<1>1. Keys \in SUBSET Nat /\ Keys # {}
  BY DEF LoopInv, Heaped, HeapEntry
<1>2. PICK k \in Keys : \A l \in Keys : k <= l
  BY <1>1, LeastNatural
<1>3. PICK x \in s.frontier : k = x.d
  OBVIOUS
<1>4. \A y \in s.frontier : x.d <= y.d
  BY <1>2, <1>3
<1> QED BY <1>4 DEF Top

LEMMA DropStep ==
  ASSUME NEW s, LoopInv(s), NEW top \in s.frontier, top.d > s.distances[top.to]
  PROVE  LoopInv(DropTop(s, top)) /\ Left(DropTop(s, top)) < Left(s)
<1> DEFINE t == DropTop(s, top)
<1>1. t.distances = s.distances /\ t.frontier = s.frontier \ {top}
  BY DEF DropTop
<1> HIDE DEF t
<1>2. top \in HeapEntry /\ s.distances[top.to] \in Nat
  BY GraphAssumption DEF LoopInv, Heaped, HeapEntry, Distance
<1>3. ASSUME NEW v \in Vertex PROVE [d |-> s.distances[v], to |-> v] # top
  BY <1>2
<1>4. Settled(t) = Settled(s)
  BY <1>1, <1>3 DEF Settled
<1>5. Heaped(t)
  BY <1>1, FS_RemoveElement DEF LoopInv, Heaped
<1>6. LoopInv(t)
  BY <1>1, <1>4, <1>5 DEF LoopInv
<1>7. Cardinality(t.frontier) = Cardinality(s.frontier) - 1
  BY <1>1, FS_RemoveElement DEF LoopInv, Heaped
<1>8. Unsettled(t) = Unsettled(s)
  BY <1>4 DEF Unsettled
<1>9. Left(t) < Left(s)
  BY <1>7, <1>8, LeftType DEF Left
<1> QED BY <1>6, <1>9 DEF t

\* What a fresh pop does: the candidates that improve their vertex.
LEMMA RelaxFacts ==
  ASSUME NEW s, LoopInv(s), NEW top \in s.frontier, NEW v \in Vertex,
         Candidates(s, top, v) # {}
  PROVE  /\ Min(Candidates(s, top, v)) \in Nat
         /\ Min(Candidates(s, top, v)) < s.distances[v]
         /\ \E e \in Out(top.to) : To[e] = v /\ Min(Candidates(s, top, v)) = top.d + Weight[e]
         /\ \A c \in Candidates(s, top, v) : Min(Candidates(s, top, v)) <= c
<1>1. top.d \in Nat /\ top.to \in Vertex
  BY DEF LoopInv, Heaped, HeapEntry
<1>2. \A e \in Out(top.to) : top.d + Weight[e] \in Nat
  BY <1>1, GraphAssumption DEF Out
<1>3. Candidates(s, top, v) \in SUBSET Nat
  BY <1>2 DEF Candidates
<1>4. \E x \in Candidates(s, top, v) : \A y \in Candidates(s, top, v) : x <= y
  BY <1>3, LeastNatural
<1>5. /\ Min(Candidates(s, top, v)) \in Candidates(s, top, v)
      /\ \A c \in Candidates(s, top, v) : Min(Candidates(s, top, v)) <= c
  BY <1>4 DEF Min
<1> HIDE DEF Candidates
<1>6. Min(Candidates(s, top, v)) \in Nat
  BY <1>3, <1>5
<1> DEFINE c == Min(Candidates(s, top, v))
<1>7. c < s.distances[v] /\ \E e \in Out(top.to) : To[e] = v /\ c = top.d + Weight[e]
  <2> HIDE DEF c
  <2>1. c \in Candidates(s, top, v)
    BY <1>5 DEF c
  <2> QED BY <2>1 DEF Candidates
<1> QED BY <1>5, <1>6, <1>7

\* An expansion settles the popped vertex, and no settled one gets unsettled:
\* a candidate is no smaller than the entry popped, the least there is.
LEMMA RelaxStep ==
  ASSUME NEW s, LoopInv(s), NEW top \in s.frontier, ~(top.d > s.distances[top.to]),
         \A y \in s.frontier : top.d <= y.d
  PROVE  LoopInv(RelaxTop(s, top)) /\ Left(RelaxTop(s, top)) < Left(s)
<1> DEFINE t == RelaxTop(s, top)
           u == top.to
           best(v) == Min(Candidates(s, top, v))
           nearer == {v \in Vertex : Candidates(s, top, v) # {}}
           pushed == {[d |-> best(v), to |-> v] : v \in nearer}
<1>1. /\ t.distances = [v \in Vertex |-> IF v \in nearer THEN best(v) ELSE s.distances[v]]
      /\ t.frontier = (s.frontier \ {top}) \cup pushed
  BY DEF RelaxTop
<1> HIDE DEF t
<1>2. /\ top \in HeapEntry /\ u \in Vertex /\ top.d \in Nat
      /\ \A v \in Vertex : s.distances[v] \in Nat /\ s.distances[v] <= Lmax
      /\ \A e \in Edge : From[e] \in Vertex /\ To[e] \in Vertex /\ Weight[e] \in Nat
  BY GraphAssumption DEF LoopInv, Heaped, HeapEntry, Distance
<1>3. s.distances[u] = top.d /\ top = [d |-> s.distances[u], to |-> u]
  <2>1. s.distances[u] <= top.d
    BY DEF LoopInv, Heaped
  <2>2. s.distances[u] = top.d
    BY <1>2, <2>1
  <2> QED BY <1>2, <2>2 DEF HeapEntry
<1>4. \A v \in nearer :
        /\ best(v) \in Nat /\ best(v) < s.distances[v]
        /\ \E e \in Out(u) : To[e] = v /\ best(v) = top.d + Weight[e]
        /\ \A c \in Candidates(s, top, v) : best(v) <= c
  BY RelaxFacts
<1> HIDE DEF best, nearer
<1>5. nearer \in SUBSET Vertex
  BY DEF nearer
<1>6. \A v \in nearer : top.d <= best(v)
  <2> SUFFICES ASSUME NEW v \in nearer PROVE top.d <= best(v)
    OBVIOUS
  <2>1. PICK e \in Out(u) : best(v) = top.d + Weight[e]
    BY <1>4
  <2>2. Weight[e] \in Nat
    BY <1>2 DEF Out
  <2> QED BY <1>2, <2>1, <2>2
<1>7. u \notin nearer /\ u \notin Settled(s)
  <2>1. u \notin nearer
    BY <1>2, <1>3, <1>4, <1>6
  <2> QED BY <1>3, <2>1 DEF Settled
<1>8. \A v \in Settled(s) : v \notin nearer /\ s.distances[v] <= top.d
  <2> SUFFICES ASSUME NEW v \in Settled(s) PROVE v \notin nearer /\ s.distances[v] <= top.d
    OBVIOUS
  <2>1. v \in Vertex /\ s.distances[v] <= top.d
    BY DEF LoopInv, Settled
  <2> QED BY <1>2, <1>4, <1>6, <2>1
<1>9. \A v \in Vertex : /\ v \in nearer => t.distances[v] = best(v)
                        /\ v \notin nearer => t.distances[v] = s.distances[v]
                        /\ t.distances[v] <= s.distances[v] /\ t.distances[v] \in Nat
  BY <1>1, <1>2, <1>4
<1>10. ASSUME NEW x \in t.frontier
       PROVE  \/ x \in s.frontier /\ x # top
              \/ x.to \in nearer /\ x.d = best(x.to) /\ x = [d |-> best(x.to), to |-> x.to]
  BY <1>1
<1>11. \A v \in nearer : [d |-> best(v), to |-> v] \in t.frontier
  BY <1>1
<1>12. Settled(t) = Settled(s) \cup {u}
  <2>1. ASSUME NEW v \in Settled(s) PROVE v \in Settled(t)
    <3>1. /\ v \in Vertex /\ v \notin nearer /\ t.distances[v] = s.distances[v]
          /\ s.distances[v] < Lmax /\ [d |-> s.distances[v], to |-> v] \notin s.frontier
      BY <1>8, <1>9 DEF Settled
    <3>2. [d |-> t.distances[v], to |-> v] \notin t.frontier
      <4> SUFFICES ASSUME [d |-> t.distances[v], to |-> v] \in t.frontier PROVE FALSE
        OBVIOUS
      <4>1. [d |-> t.distances[v], to |-> v].to = v
        OBVIOUS
      <4> QED BY <1>10, <3>1, <4>1
    <3> QED BY <3>1, <3>2 DEF Settled
  <2>2. u \in Settled(t)
    <3>1. t.distances[u] = top.d /\ top.d < Lmax
      BY <1>2, <1>3, <1>7, <1>9 DEF LoopInv, Heaped
    <3>2. top \notin t.frontier
      BY <1>7, <1>10
    <3> QED BY <1>2, <1>3, <3>1, <3>2 DEF Settled
  <2>3. ASSUME NEW v \in Settled(t), v \notin Settled(s) PROVE v = u
    <3>1. v \in Vertex /\ t.distances[v] < Lmax /\ [d |-> t.distances[v], to |-> v] \notin t.frontier
      BY DEF Settled
    <3>2. v \notin nearer /\ t.distances[v] = s.distances[v]
      BY <1>9, <1>11, <3>1
    <3>3. [d |-> s.distances[v], to |-> v] \in s.frontier
      BY <2>3, <3>1, <3>2 DEF Settled
    <3>4. [d |-> s.distances[v], to |-> v] = top
      BY <1>1, <3>1, <3>2, <3>3
    <3>5. [d |-> s.distances[v], to |-> v].to = v
      OBVIOUS
    <3> QED BY <3>4, <3>5
  <2> QED BY <2>1, <2>2, <2>3
<1>13. t.distances \in [Vertex -> Distance] /\ t.distances[Source] = 0
  <2>1. \A v \in Vertex : t.distances[v] \in Distance
    BY <1>2, <1>9, GraphAssumption DEF Distance
  <2>2. t.distances[Source] <= s.distances[Source] /\ s.distances[Source] = 0
    BY <1>9, SourceAssumption DEF LoopInv
  <2>3. t.distances[Source] = 0
    BY <1>9, <2>2, SourceAssumption
  <2> QED BY <1>1, <2>1, <2>3
<1>14. Heaped(t)
  <2>1. IsFiniteSet(pushed)
    <3>1. IsFiniteSet(nearer)
      BY <1>5, GraphAssumption, FS_Subset
    <3>2. [v \in nearer |-> [d |-> best(v), to |-> v]] \in Surjection(nearer, pushed)
      BY DEF Surjection
    <3> QED BY <3>1, <3>2, FS_Surjection
  <2>2. IsFiniteSet(t.frontier)
    <3>1. IsFiniteSet(s.frontier \ {top})
      BY FS_RemoveElement DEF LoopInv, Heaped
    <3>2. t.frontier = (s.frontier \ {top}) \cup pushed
      BY <1>1
    <3> HIDE DEF pushed
    <3>3. IsFiniteSet((s.frontier \ {top}) \cup pushed)
      BY <2>1, <3>1, FS_Union
    <3> QED BY <3>2, <3>3
  <2>3. ASSUME NEW x \in t.frontier
        PROVE  x \in HeapEntry /\ t.distances[x.to] <= x.d /\ x.d < Lmax
    <3>1. CASE x \in s.frontier
      <4>1. x \in HeapEntry /\ s.distances[x.to] <= x.d /\ x.d < Lmax
        BY <3>1 DEF LoopInv, Heaped
      <4>2. x.to \in Vertex /\ x.d \in Nat
        BY <4>1 DEF HeapEntry
      <4> QED BY <1>2, <1>9, <4>1, <4>2
    <3>2. CASE x.to \in nearer /\ x.d = best(x.to) /\ x = [d |-> best(x.to), to |-> x.to]
      <4>1. x.to \in Vertex /\ best(x.to) \in Nat /\ best(x.to) < s.distances[x.to]
        BY <1>4, <1>5, <3>2
      <4>2. x \in HeapEntry
        BY <3>2, <4>1 DEF HeapEntry
      <4>3. t.distances[x.to] = x.d /\ s.distances[x.to] <= Lmax /\ Lmax \in Nat
        BY <1>2, <1>9, <3>2, <4>1, GraphAssumption
      <4> QED BY <1>2, <3>2, <4>1, <4>2, <4>3
    <3> QED BY <1>10, <3>1, <3>2
  <2> QED BY <2>2, <2>3 DEF Heaped
<1>15. ASSUME NEW g \in Potential, NEW v \in Vertex PROVE g[v] <= t.distances[v]
  <2>1. \A w \in Vertex : g[w] <= s.distances[w]
    BY DEF LoopInv
  <2>2. CASE v \in nearer
    <3>1. PICK e \in Out(u) : To[e] = v /\ best(v) = top.d + Weight[e]
      BY <1>4, <2>2
    <3>2. e \in Edge /\ From[e] = u /\ Weight[e] \in Nat
      BY <1>2 DEF Out
    <3>3. g[v] <= g[u] + Weight[e] /\ g[v] \in Nat /\ g[u] \in Nat
      BY <1>2, <3>1, <3>2, PotentialFacts
    <3>4. g[u] <= top.d
      BY <1>2, <1>3, <2>1
    <3> QED BY <1>2, <1>9, <2>2, <3>1, <3>2, <3>3, <3>4
  <2> QED BY <1>9, <2>1, <2>2
<1>16. ASSUME NEW e \in Edge, From[e] \in Settled(t)
       PROVE  t.distances[To[e]] <= t.distances[From[e]] + Weight[e]
  <2>1. CASE From[e] \in Settled(s)
    <3>1. s.distances[To[e]] <= s.distances[From[e]] + Weight[e]
      BY <2>1 DEF LoopInv
    <3>2. t.distances[From[e]] = s.distances[From[e]]
      BY <1>2, <1>8, <1>9, <2>1
    <3> QED BY <1>2, <1>9, <3>1, <3>2
  <2>2. CASE From[e] = u
    <3>1. t.distances[u] = top.d
      BY <1>2, <1>3, <1>7, <1>9
    <3>2. e \in Out(u) /\ To[e] \in Vertex /\ Weight[e] \in Nat
      BY <1>2, <2>2 DEF Out
    <3> DEFINE c == top.d + Weight[e]
    <3>3. CASE c < s.distances[To[e]]
      <4>1. c \in Candidates(s, top, To[e])
        BY <3>2, <3>3 DEF Candidates
      <4>2. To[e] \in nearer
        BY <3>2, <4>1 DEF nearer
      <4>3. best(To[e]) <= c
        BY <1>4, <4>1, <4>2
      <4> QED BY <1>9, <2>2, <3>1, <3>2, <4>2, <4>3
    <3>4. CASE ~(c < s.distances[To[e]])
      <4>1. c \in Nat /\ s.distances[To[e]] <= c
        BY <1>2, <3>2, <3>4
      <4>2. t.distances[To[e]] <= s.distances[To[e]]
        BY <1>9, <3>2
      <4> QED BY <1>2, <1>9, <2>2, <3>1, <3>2, <4>1, <4>2
    <3> QED BY <3>3, <3>4
  <2> QED BY <1>12, <1>16, <2>1, <2>2
<1>17. ASSUME NEW v \in Settled(t), NEW x \in t.frontier PROVE t.distances[v] <= x.d
  <2>1. v \in Vertex /\ t.distances[v] <= top.d
    <3>1. CASE v \in Settled(s)
      BY <1>8, <1>9, <3>1 DEF Settled
    <3>2. CASE v = u
      BY <1>2, <1>3, <1>7, <1>9, <3>2
    <3> QED BY <1>12, <3>1, <3>2
  <2>2. top.d <= x.d /\ x.d \in Nat
    <3>1. x \in HeapEntry
      BY <1>14 DEF Heaped
    <3>2. top.d <= x.d
      BY <1>6, <1>10
    <3> QED BY <3>1, <3>2 DEF HeapEntry
  <2> QED BY <1>2, <1>9, <2>1, <2>2
<1>18. LoopInv(t)
  BY <1>13, <1>14, <1>15, <1>16, <1>17 DEF LoopInv
<1>19. Unsettled(t) = Unsettled(s) \ Out(u) /\ Out(u) \subseteq Unsettled(s)
  BY <1>7, <1>12 DEF Unsettled, Out
<1>20. Cardinality(Unsettled(t)) = Cardinality(Unsettled(s)) - Cardinality(Out(u))
  <2>1. Unsettled(s) \cap Out(u) = Out(u)
    BY <1>19
  <2> QED BY <1>19, <2>1, LeftType, FS_Difference
<1>21. IsFiniteSet(Out(u)) /\ Cardinality(Out(u)) \in Nat
  BY <1>19, LeftType, FS_Subset, FS_CardinalityType
<1>22. Cardinality(pushed) <= Cardinality(Out(u)) /\ IsFiniteSet(pushed)
  <2> DEFINE Used == {e \in Out(u) : To[e] \in nearer}
             push == [e \in Used |-> [d |-> best(To[e]), to |-> To[e]]]
  <2>1. push \in [Used -> pushed]
    OBVIOUS
  <2>2. \A x \in pushed : \E e \in Used : push[e] = x
    <3> SUFFICES ASSUME NEW x \in pushed PROVE \E e \in Used : push[e] = x
      OBVIOUS
    <3>1. PICK v \in nearer : x = [d |-> best(v), to |-> v]
      OBVIOUS
    <3>2. PICK e \in Out(u) : To[e] = v
      BY <1>4
    <3>3. e \in Used /\ push[e] = x
      BY <3>1, <3>2
    <3> QED BY <3>3
  <2>3. push \in Surjection(Used, pushed)
    BY <2>1, <2>2 DEF Surjection
  <2>4. IsFiniteSet(Used) /\ Cardinality(Used) <= Cardinality(Out(u)) /\ Cardinality(Used) \in Nat
    BY <1>21, FS_Subset, FS_CardinalityType
  <2> HIDE DEF push, Used, pushed
  <2>5. IsFiniteSet(pushed) /\ Cardinality(pushed) <= Cardinality(Used)
    BY <2>3, <2>4, FS_Surjection
  <2>6. Cardinality(pushed) \in Nat
    BY <2>5, FS_CardinalityType
  <2> QED BY <1>21, <2>4, <2>5, <2>6
<1> HIDE DEF pushed
<1>23. Cardinality(t.frontier) <= Cardinality(s.frontier) - 1 + Cardinality(pushed)
  <2>1. /\ IsFiniteSet(s.frontier \ {top})
        /\ Cardinality(s.frontier \ {top}) = Cardinality(s.frontier) - 1
    BY LeftType, FS_RemoveElement
  <2> DEFINE rest == s.frontier \ {top}
  <2>2. /\ Cardinality(rest \cup pushed) = Cardinality(rest) + Cardinality(pushed)
                                            - Cardinality(rest \cap pushed)
        /\ IsFiniteSet(rest \cap pushed)
    BY <1>22, <2>1, FS_Union, FS_Subset
  <2>3. Cardinality(rest \cap pushed) \in Nat /\ Cardinality(rest) \in Nat /\ Cardinality(pushed) \in Nat
    BY <1>22, <2>1, <2>2, FS_CardinalityType
  <2>4. t.frontier = rest \cup pushed
    BY <1>1
  <2> QED BY <2>1, <2>2, <2>3, <2>4
<1>24. Left(t) < Left(s)
  <2>1. /\ Cardinality(pushed) \in Nat /\ Cardinality(t.frontier) \in Nat
        /\ Cardinality(s.frontier) \in Nat /\ Cardinality(Unsettled(s)) \in Nat
        /\ Cardinality(Unsettled(t)) \in Nat
    BY <1>18, <1>22, LeftType, FS_CardinalityType
  <2> QED BY <1>20, <1>21, <1>22, <1>23, <2>1 DEF Left
<1> QED BY <1>18, <1>24 DEF t

\* The loop runs out of entries within its bound, as every edge pushes once.
LEMMA LoopEnds ==
  ASSUME NEW n \in 0..LoopBound
  PROVE  LoopInv(Popped[n]) /\ (Popped[n].frontier = {} \/ Left(Popped[n]) + n <= LoopBound)
<1> DEFINE Good(k) == /\ LoopInv(Popped[k])
                      /\ Popped[k].frontier = {} \/ Left(Popped[k]) + k <= LoopBound
           Bad == {k \in 0..LoopBound : ~Good(k)}
<1>0. LoopBound \in Nat /\ 0..LoopBound \subseteq Nat
  BY GraphAssumption, FS_CardinalityType DEF LoopBound
<1>1. Good(0)
  <2>1. Left(FirstPush) \in Nat
    BY FirstPushFacts, LeftType
  <2> QED BY <1>0, <2>1, FirstPushFacts, PoppedDef
<1>2. ASSUME NEW k \in 1..LoopBound, Good(k - 1) PROVE Good(k)
  <2> DEFINE s == Popped[k - 1]
             t == Popped[k]
  <2>1. t = PopTop(s) /\ LoopInv(s)
    BY <1>2, PoppedDef
  <2> HIDE DEF s, t
  <2>2. CASE s.frontier = {}
    BY <2>1, <2>2 DEF PopTop, t
  <2>3. CASE s.frontier # {}
    <3> DEFINE top == Top(s.frontier)
    <3>1. top \in s.frontier /\ \A y \in s.frontier : top.d <= y.d
      BY <2>1, <2>3, TopFacts
    <3> HIDE DEF top
    <3>2. t = IF top.d > s.distances[top.to] THEN DropTop(s, top) ELSE RelaxTop(s, top)
      BY <2>1, <2>3 DEF PopTop, top
    <3>3. LoopInv(t) /\ Left(t) < Left(s)
      <4>1. CASE top.d > s.distances[top.to]
        BY <2>1, <3>1, <3>2, <4>1, DropStep
      <4>2. CASE ~(top.d > s.distances[top.to])
        BY <2>1, <3>1, <3>2, <4>2, RelaxStep
      <4> QED BY <4>1, <4>2
    <3>4. Left(s) + (k - 1) <= LoopBound
      BY <1>2, <2>3 DEF s
    <3>5. Left(s) \in Nat /\ Left(t) \in Nat
      BY <2>1, <3>3, LeftType
    <3>6. Left(t) + k <= LoopBound
      BY <1>0, <3>3, <3>4, <3>5
    <3> QED BY <3>3, <3>6 DEF t
  <2> QED BY <2>2, <2>3
<1> HIDE DEF Good
<1>3. Bad = {}
  <2> SUFFICES ASSUME Bad # {} PROVE FALSE
    OBVIOUS
  <2>0. Bad \in SUBSET Nat
    BY <1>0
  <2>1. PICK k \in Bad : \A m \in Bad : k <= m
    <3> HIDE DEF Bad
    <3> QED BY <2>0, LeastNatural
  <2>2. k \in 0..LoopBound /\ k # 0
    BY <1>1
  <2>3. k \in 1..LoopBound /\ k - 1 \in 0..LoopBound /\ ~(k <= k - 1)
    BY <1>0, <2>2
  <2>4. Good(k - 1)
    BY <2>1, <2>3
  <2> QED BY <1>2, <2>1, <2>3, <2>4
<1> QED BY <1>3 DEF Good

\* The ground truth of --verify is right on every graph: serial_dijkstra() runs
\* out of entries, and what it then has is the greatest potential, the
\* definition of the answer that the other proofs use.
THEOREM ReferenceIsShortest == Popped[LoopBound].frontier = {} /\ IsShortest(Reference)
<1> DEFINE s == Popped[LoopBound]
<1>0. LoopBound \in Nat
  BY GraphAssumption, FS_CardinalityType DEF LoopBound
<1>1. LoopInv(s) /\ (s.frontier = {} \/ Left(s) + LoopBound <= LoopBound)
  BY <1>0, LoopEnds
<1> HIDE DEF s
<1>2. s.frontier = {}
  <2> SUFFICES ASSUME Left(s) + LoopBound <= LoopBound PROVE s.frontier = {}
    BY <1>1
  <2>1. /\ Cardinality(s.frontier) \in Nat /\ Cardinality(Unsettled(s)) \in Nat
        /\ IsFiniteSet(s.frontier) /\ Left(s) \in Nat
    BY <1>1, LeftType
  <2>2. Cardinality(s.frontier) = 0
    BY <1>0, <2>1 DEF Left
  <2> QED BY <2>1, <2>2, FS_EmptySet
<1>3. /\ s.distances \in [Vertex -> Distance] /\ s.distances[Source] = 0
      /\ \A g \in Potential, v \in Vertex : g[v] <= s.distances[v]
  BY <1>1 DEF LoopInv
<1>4. ASSUME NEW e \in Edge PROVE s.distances[To[e]] <= s.distances[From[e]] + Weight[e]
  <2>1. From[e] \in Vertex /\ To[e] \in Vertex /\ Weight[e] \in Nat
    BY GraphAssumption
  <2>2. \A v \in Vertex : s.distances[v] \in Nat /\ s.distances[v] <= Lmax /\ Lmax \in Nat
    BY <1>3, GraphAssumption DEF Distance
  <2>3. CASE From[e] \in Settled(s)
    BY <1>1, <2>3 DEF LoopInv
  <2>4. CASE From[e] \notin Settled(s)
    <3>1. s.distances[From[e]] = Lmax
      BY <1>2, <2>1, <2>2, <2>4 DEF Settled
    <3> QED BY <2>1, <2>2, <3>1
  <2> QED BY <2>3, <2>4
<1>5. IsShortest(s.distances)
  BY <1>3, <1>4 DEF IsShortest, IsShortestFrom, Potential, PotentialFrom
<1> QED BY <1>2, <1>5 DEF Reference, s

\* --verify accepts every run that is announced finished: the distances are
\* then those of serial_dijkstra(), for every graph, partition and order of
\* the updates.
THEOREM ReferenceMatched == Spec => []MatchesReference
<1>1. AnswerCorrect => MatchesReference
  <2> SUFFICES ASSUME AnswerCorrect, done PROVE dist = Reference
    BY DEF MatchesReference
  <2>1. IsShortest(dist) /\ IsShortest(Reference)
    BY ReferenceIsShortest DEF AnswerCorrect
  <2>2. /\ dist \in [Vertex -> Distance] /\ Reference \in [Vertex -> Distance]
        /\ \A v \in Vertex : dist[v] <= Reference[v] /\ Reference[v] <= dist[v]
    BY <2>1 DEF IsShortest, IsShortestFrom, PotentialFrom
  <2>3. \A v \in Vertex : dist[v] = Reference[v]
    BY <2>2 DEF Distance
  <2> QED BY <2>2, <2>3
<1> QED
  BY <1>1, AnswerIsShortest, PTL

-----------------------------------------------------------------------------
(* Every step is a step of the caller's view, or a stutter *)

LEMMA ApplyAnswer ==
  ASSUME TypeOK, NEW p \in PE, NEW u \in Update, Apply(p, u), ~done,
         done' = done, \A g \in Potential : g[u.to] <= u.d
  PROVE  Answer!Lower \/ UNCHANGED <<dist, done>>
<1>1. CASE dist' = dist
  BY <1>1
<1>2. CASE u.d < dist[u.to]
  <2>1. u.to \in Vertex /\ u.d \in Distance
    <3>1. u.to \in Vertex /\ u.d \in Nat /\ dist[u.to] \in Distance
      BY DEF Update, TypeOK
    <3> QED BY <1>2, <3>1, GraphAssumption DEF Distance
  <2>2. dist' = [dist EXCEPT ![u.to] = u.d]
    BY <1>2 DEF Apply
  <2>3. u.d \in NotBelow[u.to]
    BY <2>1 DEF NotBelow
  <2> QED BY <1>2, <2>1, <2>2, <2>3 DEF Answer!Lower
<1> QED
  BY <1>1, <1>2 DEF Apply

LEMMA AnswerStep ==
  /\ TypeOK /\ Expansion /\ Relaxing /\ Bounded /\ Accounting /\ Snapshots
  /\ Bounded' /\ [Next]_vars
  => [Answer!Next]_(Answer!vars)
<1> SUFFICES ASSUME TypeOK, Expansion, Relaxing, Bounded, Accounting, Snapshots,
                    Bounded', [Next]_vars
             PROVE  Answer!Next \/ UNCHANGED <<dist, done>>
  BY DEF Answer!vars
<1>1. ASSUME NEW p \in PE, Start(p) PROVE Answer!Lower \/ UNCHANGED <<dist, done>>
  <2>1. Apply(p, SourceUpdate) /\ done' = done
    BY <1>1 DEF Start, mainvars
  <2>2. ~done
    <3>1. All(created) = {}
      BY <1>1 DEF Start, Expansion, Started
    <3> QED BY <3>1 DEF Snapshots, Idle
  <2>3. \A g \in Potential : g[SourceUpdate.to] <= SourceUpdate.d
    BY PotentialFacts DEF SourceUpdate
  <2> QED BY <2>1, <2>2, <2>3, ApplyAnswer, SourceUpdateType
<1>2. ASSUME NEW p \in PE, NEW u \in net, Receive(p, u)
      PROVE  Answer!Lower \/ UNCHANGED <<dist, done>>
  <2>1. /\ u \in Update /\ u \in All(created) /\ Apply(p, u) /\ done' = done
    BY <1>2 DEF Receive, mainvars, TypeOK, Expansion, Known
  <2>2. ~done
    BY DEF Snapshots, Idle
  <2>3. \A g \in Potential : g[u.to] <= u.d
    BY <2>1 DEF Bounded
  <2> QED BY <2>1, <2>2, <2>3, ApplyAnswer
<1>3. CASE Finish
  <2>1. IsShortest(dist)
    BY <1>3, DoubleSnapshot, IdleShortest DEF Finish
  <2>2. \A v \in Vertex : dist[v] \in NotBelow[v]
    BY <2>1 DEF NotBelow, IsShortest, IsShortestFrom, Potential, PotentialFrom
  <2>3. dist \in Potential
    BY <2>1 DEF IsShortest, IsShortestFrom, Potential
  <2> QED BY <1>3, <2>2, <2>3 DEF Finish, pevars, Answer!Announce, Answer!Next
<1>4. ASSUME NEW p \in PE, Contribute(p) PROVE UNCHANGED <<dist, done>>
  BY <1>4 DEF Contribute, pevars, mainvars
<1>5. ASSUME NEW p \in PE, NEW u \in net, Absorb(p, u)
      PROVE  UNCHANGED <<dist, done>>
  BY <1>5 DEF Absorb, mainvars
<1>6. ASSUME NEW p \in PE, NEW u \in queued, Expand(p, u)
      PROVE  UNCHANGED <<dist, done>>
  BY <1>6 DEF Expand, mainvars
<1>7. CASE NextRound
  BY <1>7 DEF NextRound, pevars
<1>8. CASE UNCHANGED vars
  BY <1>8 DEF vars, pevars, mainvars
<1> QED
  BY <1>1, <1>2, <1>3, <1>4, <1>5, <1>6, <1>7, <1>8 DEF Next, Answer!Next

LEMMA AnswerInit == Init => Answer!Init
  BY DEF Init, Answer!Init

\* The solver implements the abstract run: distances only fall, never below
\* the shortest ones, and the announcement comes when they are final.
THEOREM SolverImplementsAnswer == Spec => AnswerSpec
<1>1. Spec => []Accounting
  BY AccountingCorrect, PTL DEF Accounting
<1> QED
  BY <1>1, AnswerInit, AnswerStep, TypeCorrect, ExpansionCorrect,
     NothingForgotten, NeverBelow, SnapshotsCorrect, PTL
     DEF Spec, AnswerSpec, Answer!Spec

LEMMA FallStep ==
  /\ TypeOK /\ Expansion /\ Snapshots /\ [Next]_vars
  => /\ \A v \in Vertex : dist'[v] <= dist[v]
     /\ done => UNCHANGED pevars
<1> SUFFICES ASSUME TypeOK, Expansion, Snapshots, [Next]_vars
             PROVE  /\ \A v \in Vertex : dist'[v] <= dist[v]
                    /\ done => UNCHANGED pevars
  OBVIOUS
<1>1. \A v \in Vertex : dist[v] \in Nat
  BY Naturalness
<1>2. ASSUME NEW p \in PE, Start(p)
      PROVE  (\A v \in Vertex : dist'[v] <= dist[v]) /\ ~done
  <2>1. All(created) = {}
    BY <1>2 DEF Start, Expansion, Started
  <2>2. Apply(p, SourceUpdate)
    BY <1>2 DEF Start
  <2> QED BY <2>1, <2>2, ApplyFacts, SourceUpdateType DEF Snapshots, Idle
<1>3. ASSUME NEW p \in PE, NEW u \in net, Receive(p, u)
      PROVE  (\A v \in Vertex : dist'[v] <= dist[v]) /\ ~done
  <2>1. u \in Update /\ Apply(p, u)
    BY <1>3 DEF Receive, TypeOK
  <2> QED BY <2>1, ApplyFacts DEF Snapshots, Idle
<1>4. ASSUME NEW p \in PE, NEW u \in net, Absorb(p, u)
      PROVE  dist' = dist /\ ~done
  BY <1>4 DEF Absorb, Snapshots, Idle
<1>5. ASSUME NEW p \in PE, NEW u \in queued, Expand(p, u)
      PROVE  dist' = dist /\ ~done
  BY <1>5 DEF Expand, Snapshots, Idle
<1>6. ASSUME \/ \E p \in PE : Contribute(p)
             \/ Finish \/ NextRound \/ UNCHANGED vars
      PROVE  UNCHANGED pevars
  BY <1>6 DEF Contribute, Finish, NextRound, vars
<1> QED
  BY <1>1, <1>2, <1>3, <1>4, <1>5, <1>6 DEF Next, pevars

\* Distances never rise, and nothing at all moves after the announcement.
THEOREM DistancesOnlyFall == Spec => DistancesFall
  BY FallStep, TypeCorrect, ExpansionCorrect, SnapshotsCorrect, PTL
     DEF Spec, DistancesFall

=============================================================================
