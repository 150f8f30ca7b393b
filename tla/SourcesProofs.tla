--------------------------- MODULE SourcesProofs ---------------------------
(***************************************************************************)
(* The run life cycle for any graph, list of sources, number of PEs and    *)
(* setting of the flags, and the test graphs of any size.                  *)
(***************************************************************************)
EXTENDS Sources, LeafyGraph, SumProofs

-----------------------------------------------------------------------------
(* What --certify accepts is the shortest distances, and nothing else: the *)
(* argument in the comment of Main::certify_done(), for every graph.       *)

LEMMA EdgeTypes ==
  ASSUME NEW e \in Edge, NEW d \in [Vertex -> Distance]
  PROVE  /\ From[e] \in Vertex /\ To[e] \in Vertex /\ Weight[e] \in Nat /\ Lmax \in Nat
         /\ d[From[e]] \in 0..Lmax /\ d[To[e]] \in 0..Lmax
BY GraphAssumption DEF Distance

\* Accepted distances are a potential: no edge can improve its end, and an
\* edge of an unreached vertex cannot anyway.
LEMMA AcceptedIsPotential ==
  ASSUME NEW source \in Vertex, NEW d \in [Vertex -> Distance], Accepted(source, d)
  PROVE  d \in PotentialFrom(source)
<1>1. ASSUME NEW e \in Edge PROVE d[To[e]] <= d[From[e]] + Weight[e]
  <2>1. CASE d[From[e]] = Lmax
    BY <2>1, EdgeTypes
  <2>2. CASE d[From[e]] # Lmax
    <3>1. To[e] \in Vertex /\ d[From[e]] + Weight[e] \in Candidates(d, To[e])
      BY <2>2, EdgeTypes DEF Candidates
    <3>2. d[From[e]] + Weight[e] >= d[To[e]]
      BY <3>1 DEF Accepted, NoViolation
    <3> QED BY <3>2, EdgeTypes
  <2> QED BY <2>1, <2>2
<1> QED BY <1>1 DEF Accepted, PotentialFrom

\* The certificate is sound: what it accepts are the shortest distances.  Of
\* the vertices that some potential puts above their distance the nearest would
\* have a tight predecessor that is nearer still.
THEOREM CertificateSound ==
  ASSUME NEW source \in Vertex, NEW d \in [Vertex -> Distance], Accepted(source, d)
  PROVE  IsShortestFrom(source, d)
<1>1. d \in PotentialFrom(source)
  BY AcceptedIsPotential
<1>2. ASSUME NEW g \in PotentialFrom(source), NEW w \in Vertex, ~(g[w] <= d[w]) PROVE FALSE
  <2> DEFINE Above == {v \in Vertex : ~(g[v] <= d[v])}
             T == {d[v] : v \in Above}
  <2>1. g \in [Vertex -> Distance] /\ g[source] = 0 /\ Lmax \in Nat
    BY GraphAssumption DEF PotentialFrom
  <2>2. \A v \in Vertex : g[v] \in 0..Lmax /\ d[v] \in 0..Lmax
    BY <2>1 DEF Distance
  <2>3. T \in SUBSET Nat /\ T # {}
    BY <1>2, <2>2
  <2>4. PICK x \in T : \A y \in T : x <= y
    BY <2>3, LeastNatural
  <2>5. PICK v \in Above : d[v] = x
    OBVIOUS
  <2>6. v \in Vertex \ {source} /\ d[v] # Lmax
    BY <2>1, <2>2, <2>5
  <2>7. d[v] \in Candidates(d, v)
    BY <2>6 DEF Accepted, Tight
  <2>8. PICK e \in Edge : To[e] = v /\ d[v] = d[From[e]] + Weight[e]
    BY <2>7 DEF Candidates
  <2>9. Weight[e] > 0 /\ d[From[e]] < d[v] /\ From[e] \in Vertex
    BY <2>8, EdgeTypes DEF Accepted, Positive
  <2>10. g[From[e]] <= d[From[e]]
    <3>1. SUFFICES ASSUME From[e] \in Above PROVE FALSE
      BY <2>9
    <3>2. x <= d[From[e]]
      BY <2>4, <3>1
    <3> QED BY <2>2, <2>5, <2>9, <3>2
  <2>11. g[v] <= g[From[e]] + Weight[e]
    BY <2>8 DEF PotentialFrom
  <2>12. g[v] <= d[v]
    BY <2>2, <2>8, <2>9, <2>10, <2>11, EdgeTypes, <2>1
  <2> QED BY <2>12, <2>5
<1> QED BY <1>1, <1>2 DEF IsShortestFrom

\* The certificate is complete: with positive weights it accepts the shortest
\* distances.  A reached vertex without a tight predecessor could be farther.
THEOREM CertificateComplete ==
  ASSUME NEW source \in Vertex, NEW d \in [Vertex -> Distance],
         Positive, IsShortestFrom(source, d)
  PROVE  Accepted(source, d)
<1>1. d \in PotentialFrom(source) /\ d[source] = 0
  BY DEF IsShortestFrom, PotentialFrom
<1>2. ASSUME NEW e \in Edge PROVE d[To[e]] <= d[From[e]] + Weight[e]
  BY <1>1 DEF PotentialFrom
<1>3. NoViolation(d)
  <2> SUFFICES ASSUME NEW e \in Edge PROVE d[From[e]] + Weight[e] >= d[To[e]]
    BY DEF NoViolation, Candidates
  <2> QED BY <1>2, EdgeTypes
<1>4. Tight(source, d)
  <2> SUFFICES ASSUME NEW v \in Vertex \ {source}, d[v] # Lmax, d[v] \notin Candidates(d, v)
               PROVE  FALSE
    BY DEF Tight
  <2> DEFINE g == [d EXCEPT ![v] = d[v] + 1]
  <2>1. d[v] \in 0..Lmax /\ Lmax \in Nat /\ d[v] + 1 \in Distance
    BY GraphAssumption DEF Distance
  <2>2. g \in [Vertex -> Distance] /\ g[source] = 0
    BY <1>1, <2>1
  <2>3. ASSUME NEW e \in Edge PROVE g[To[e]] <= g[From[e]] + Weight[e]
    <3>1. d[From[e]] <= g[From[e]] /\ g[From[e]] \in Nat /\ d[From[e]] \in Nat
      BY EdgeTypes, <2>2, <2>1 DEF Distance
    <3>2. CASE To[e] = v
      <4>1. g[To[e]] = d[v] + 1
        BY <3>2
      <4>2. CASE d[From[e]] = Lmax
        BY <2>1, <3>1, <4>1, <4>2, EdgeTypes
      <4>3. CASE d[From[e]] # Lmax
        <5>1. d[From[e]] + Weight[e] # d[v]
          BY <3>2, <4>3 DEF Candidates
        <5> QED BY <1>2, <2>1, <3>1, <3>2, <4>1, <5>1, EdgeTypes
      <4> QED BY <4>2, <4>3
    <3>3. CASE To[e] # v
      <4>1. g[To[e]] = d[To[e]]
        BY <3>3, EdgeTypes
      <4> QED BY <1>2, <3>1, <4>1, EdgeTypes
    <3> QED BY <3>2, <3>3
  <2>4. g \in PotentialFrom(source)
    BY <2>2, <2>3 DEF PotentialFrom
  <2>5. g[v] <= d[v] /\ g[v] = d[v] + 1
    BY <2>4 DEF IsShortestFrom
  <2> QED BY <2>1, <2>5
<1> QED BY <1>1, <1>3, <1>4 DEF Accepted

-----------------------------------------------------------------------------
(* Types *)

Rounds == {"contribute", "thresholds"}
Closing == {"print", "print_partial", "certify_start", "step", "batch", "collect"}
Kinds == {"update", "hints", "reset"} \cup Rounds \cup Closing

Pair == Vertex \X Nat
Messages == [kind : Kinds, to : PE \cup Processes, epoch : Nat, body : SUBSET Pair]
Timers == [kind : {"start", "timeout"}, pe : {None}, epoch : Nat]
            \cup [kind : {"contribute"}, pe : PE, epoch : Nat]

MainType ==
  [epoch : DOMAIN SourceList, running : BOOLEAN, truncated : BOOLEAN, exit : {None, 0, 1},
   qd : {None, "certify", "advance"}, calm : BOOLEAN, bad : BOOLEAN, parts : {0, 1}]
CertType ==
  [epoch : Nat, cursor : Nat, below : SUBSET Vertex, nonpositive : BOOLEAN,
   tight : SUBSET Vertex, out : [PE -> SUBSET Pair], bad : BOOLEAN]
PeType == [epoch : Nat, pq : SUBSET Pair]

TypeOK ==
  /\ main \in MainType
  /\ main.qd = "advance" => main.epoch + 1 \in DOMAIN SourceList
  /\ timers \subseteq Timers
  /\ net \subseteq Messages
  /\ red \in [Reductions -> SUBSET PE]
  /\ pe \in [PE -> PeType]
  /\ dist \in [Vertex -> Distance]
  /\ outbox \in [Processes -> SUBSET Pair]
  /\ cert \in [PE -> CertType]

LEMMA SourceFacts ==
  /\ DOMAIN SourceList = 1..Len(SourceList) /\ Len(SourceList) \in Nat /\ 1 \in DOMAIN SourceList
  /\ PE # {} /\ \A i \in DOMAIN SourceList : SourceList[i] \in Vertex
  /\ Lmax \in Nat /\ Lmax > 0 /\ 0 \in Distance /\ Lmax \in Distance
  /\ \A d \in Distance : d \in Nat /\ \A c \in Nat : c < d => c \in Distance
  /\ \A e \in Edge : From[e] \in Vertex /\ To[e] \in Vertex /\ Weight[e] \in Nat
<1>1. /\ DOMAIN SourceList = 1..Len(SourceList) /\ Len(SourceList) \in Nat
      /\ \A i \in DOMAIN SourceList : SourceList[i] \in Vertex
  BY SourcesAssumption
<1>2. Len(SourceList) # 0
  BY SourcesAssumption
<1>3. 1 \in DOMAIN SourceList
  BY <1>1, <1>2
<1>4. PE # {}
  BY <1>1, <1>3, SourcesAssumption
<1>5. /\ Lmax \in Nat /\ Lmax > 0 /\ 0 \in Distance /\ Lmax \in Distance
      /\ \A d \in Distance : d \in Nat /\ \A c \in Nat : c < d => c \in Distance
      /\ \A e \in Edge : From[e] \in Vertex /\ To[e] \in Vertex /\ Weight[e] \in Nat
  BY GraphAssumption DEF Distance
<1> QED BY <1>1, <1>3, <1>4, <1>5

LEMMA MessageType ==
  ASSUME NEW kind \in Kinds, NEW to \in PE \cup Processes, NEW epoch \in Nat,
         NEW body \in SUBSET Pair
  PROVE  Message(kind, to, epoch, body) \in Messages
BY DEF Message, Messages

LEMMA MainEpoch ==
  ASSUME TypeOK
  PROVE  /\ main.epoch \in Nat \ {0} /\ main.epoch \in DOMAIN SourceList /\ Source \in Vertex
         /\ main.running \in BOOLEAN /\ main.truncated \in BOOLEAN /\ main.calm \in BOOLEAN
         /\ main.bad \in BOOLEAN
BY SourceFacts DEF TypeOK, MainType, Source

LEMMA BroadcastType ==
  ASSUME TypeOK, NEW kind \in Kinds
  PROVE  Broadcast(kind) \subseteq Messages
BY MainEpoch, MessageType DEF Broadcast

LEMMA TimerType ==
  ASSUME NEW epoch \in Nat
  PROVE  /\ Timer("start", None, epoch) \in Timers /\ Timer("timeout", None, epoch) \in Timers
         /\ \A p \in PE : Timer("contribute", p, epoch) \in Timers
BY DEF Timer, Timers

LEMMA FreshType ==
  ASSUME NEW epoch \in Nat
  PROVE  Fresh(epoch) \in CertType
BY DEF Fresh, CertType

LEMMA TypeInit == Init => TypeOK
<1> SUFFICES ASSUME Init PROVE TypeOK
  OBVIOUS
<1>1. main \in MainType
  BY SourceFacts DEF Init, MainType
<1>2. main.qd # "advance"
  BY SourcesAssumption DEF Init
<1>3. timers \subseteq Timers /\ net \subseteq Messages
  BY DEF Init
<1>4. red \in [Reductions -> SUBSET PE] /\ outbox \in [Processes -> SUBSET Pair]
  BY DEF Init
<1>5. pe \in [PE -> PeType]
  BY DEF Init, PeType
<1>6. dist \in [Vertex -> Distance]
  BY SourceFacts DEF Init
<1>7. cert \in [PE -> CertType]
  BY FreshType DEF Init
<1> QED BY <1>1, <1>2, <1>3, <1>4, <1>5, <1>6, <1>7 DEF TypeOK

LEMMA NotedType ==
  ASSUME NEW c \in CertType, NEW pairs \in SUBSET Pair
  PROVE  Noted(c, pairs) \in CertType
<1>1. \A i \in pairs : i[1] \in Vertex
  BY DEF Pair
<1> QED BY <1>1 DEF Noted, CertType

LEMMA PreparedType ==
  ASSUME TypeOK, NEW p \in PE, NEW epoch \in Nat
  PROVE  Prepared(p, epoch) \in CertType /\ Prepared(p, epoch).epoch = epoch
BY FreshType DEF Prepared, CertType, TypeOK, Fresh

LEMMA PairsType ==
  ASSUME TypeOK, NEW edges \in SUBSET Edge, NEW q
  PROVE  Pairs(edges, q) \in SUBSET Pair
<1>1. \A e \in edges : From[e] \in Vertex /\ To[e] \in Vertex /\ Weight[e] \in Nat
  BY SourceFacts
<1>2. \A e \in edges : dist[From[e]] \in Nat
  BY <1>1, SourceFacts DEF TypeOK
<1>3. \A e \in edges : dist[From[e]] + Weight[e] \in Nat
  BY <1>1, <1>2
<1> QED BY <1>1, <1>3 DEF Pairs, Pair

LEMMA SliceType ==
  ASSUME TypeOK, NEW p \in PE, NEW c \in CertType, NEW k \in Nat, NEW full \in SUBSET PE
  PROVE  /\ Slice(p, c, k, full).state \in CertType
         /\ Slice(p, c, k, full).state.epoch = c.epoch
         /\ \A m \in Slice(p, c, k, full).messages :
              /\ m \in Messages /\ m.kind \in {"batch", "step"} /\ m.epoch = c.epoch
              /\ m.kind = "step" => m.to = p
<1> DEFINE edges == NextEdges(p, c, k)
           out == [q \in PE |-> IF q = p THEN {} ELSE c.out[q] \cup Pairs(edges, q)]
           last == c.cursor + k = Len(LocalVertex[p])
           sending == IF last THEN PE ELSE full
           new == [q \in PE |-> IF q \in sending THEN {} ELSE out[q]]
           noted == Noted(c, Pairs(edges, p))
           cursor == noted.cursor + k
           nonpositive == noted.nonpositive \/ \E e \in edges : Weight[e] <= 0
<1>1. edges \in SUBSET Edge /\ c.out \in [PE -> SUBSET Pair] /\ c.epoch \in Nat
  BY DEF NextEdges, CertType
<1>2. \A q : Pairs(edges, q) \in SUBSET Pair
  BY <1>1, PairsType
<1>3. noted \in CertType /\ noted.epoch = c.epoch
  BY <1>2, NotedType DEF Noted, CertType
<1> HIDE DEF edges
<1>4. out \in [PE -> SUBSET Pair] /\ sending \subseteq PE
  BY <1>1, <1>2
<1> HIDE DEF out, last, sending, noted
<1>5. new \in [PE -> SUBSET Pair]
  BY <1>4
<1>6. /\ Slice(p, c, k, full).state =
           [noted EXCEPT !.cursor = cursor, !.nonpositive = nonpositive, !.out = new]
      /\ Slice(p, c, k, full).messages =
           {Message("batch", q, c.epoch, out[q]) : q \in {q \in sending : out[q] # {}}}
           \cup IF last THEN {} ELSE {Message("step", p, c.epoch, {})}
  BY DEF Slice, edges, out, last, sending, noted
<1>7. Slice(p, c, k, full).state \in CertType /\ Slice(p, c, k, full).state.epoch = c.epoch
  <2>1. cursor \in Nat /\ nonpositive \in BOOLEAN
    BY <1>3 DEF CertType
  <2> HIDE DEF new, cursor, nonpositive
  <2> QED BY <1>3, <1>5, <1>6, <2>1 DEF CertType
<1>8. \A q \in sending : Message("batch", q, c.epoch, out[q]) \in Messages
  BY <1>1, <1>4, MessageType DEF Kinds, Closing
<1>9. Message("step", p, c.epoch, {}) \in Messages
  BY <1>1, MessageType DEF Kinds, Closing
<1>10. \A m \in Slice(p, c, k, full).messages : m \in Messages
  BY <1>6, <1>8, <1>9
<1>11. \A m \in Slice(p, c, k, full).messages :
         m.kind \in {"batch", "step"} /\ m.epoch = c.epoch /\ (m.kind = "step" => m.to = p)
  BY <1>6 DEF Message
<1> QED BY <1>7, <1>10, <1>11

LEMMA HintsType ==
  ASSUME TypeOK, NEW p \in PE
  PROVE  /\ Queued(p) \in SUBSET Pair
         /\ \A m \in Flushed(p) : m \in Messages /\ m.kind = "hints" /\ m.epoch = pe[p].epoch
<1>1. \A v \in Fell(p) : <<v, dist[v]>> \in Pair
  BY SourcesAssumption, SourceFacts DEF Fell, Pair, TypeOK
<1>2. outbox[Process[p]] \in SUBSET Pair
  BY DEF TypeOK, Processes
<1>3. Queued(p) \in SUBSET Pair
  BY <1>1, <1>2 DEF Queued
<1>4. \A n \in Processes : Message("hints", n, pe[p].epoch, Queued(p)) \in Messages
  BY <1>3, MessageType DEF Kinds, TypeOK, PeType
<1>5. \A m \in Flushed(p) : m \in Messages
  BY <1>4 DEF Flushed
<1>6. \A m \in Flushed(p) : m.kind = "hints" /\ m.epoch = pe[p].epoch
  BY DEF Flushed, Message
<1> QED BY <1>3, <1>5, <1>6

LEMMA RelaxationsType ==
  ASSUME TypeOK, NEW p \in PE, NEW v, NEW d \in Nat
  PROVE  \A m \in Relaxations(p, v, d) :
           m \in Messages /\ m.kind = "update" /\ m.epoch = pe[p].epoch
<1>1. \A e \in Edge : Message("update", Owner[To[e]], pe[p].epoch, {<<To[e], d + Weight[e]>>})
                        \in Messages
  <2> TAKE e \in Edge
  <2>1. To[e] \in Vertex /\ d + Weight[e] \in Nat
    BY SourceFacts
  <2>2. Owner[To[e]] \in PE /\ pe[p].epoch \in Nat
    BY <2>1, SourcesAssumption DEF TypeOK, PeType
  <2>3. {<<To[e], d + Weight[e]>>} \in SUBSET Pair
    BY <2>1 DEF Pair
  <2> QED BY <2>2, <2>3, MessageType DEF Kinds
<1>2. \A m \in Relaxations(p, v, d) : m \in Messages
  BY <1>1 DEF Relaxations
<1>3. \A m \in Relaxations(p, v, d) : m.kind = "update" /\ m.epoch = pe[p].epoch
  BY DEF Relaxations, Message
<1> QED BY <1>2, <1>3

LEMMA DigestType ==
  ASSUME NEW m \in MainType
  PROVE  /\ CheckDigest(m) \in MainType
         /\ CheckDigest(m).epoch = m.epoch /\ CheckDigest(m).running = m.running
         /\ CheckDigest(m).truncated = m.truncated /\ CheckDigest(m).parts = m.parts
         /\ CheckDigest(m).qd # m.qd =>
              /\ CheckDigest(m).qd = "advance" /\ ~m.truncated
              /\ m.epoch + 1 \in DOMAIN SourceList
<1>1. m.epoch # Len(SourceList) => m.epoch + 1 \in DOMAIN SourceList
  BY SourceFacts DEF MainType
<1>2. \/ CheckDigest(m) \in {[m EXCEPT !.exit = 1], [m EXCEPT !.exit = 0]}
      \/ /\ CheckDigest(m) = [m EXCEPT !.qd = "advance"]
         /\ ~m.truncated /\ m.epoch # Len(SourceList)
  BY DEF CheckDigest, FinishSource
<1> QED BY <1>1, <1>2 DEF MainType

LEMMA TypeStep == TypeOK /\ [Next]_vars => TypeOK'
<1> SUFFICES ASSUME TypeOK, [Next]_vars PROVE TypeOK'
  OBVIOUS
<1> USE DEF solver
<1>1. CASE StartSource
  <2>1. /\ Timer("start", None, main.epoch) \in Timers
        /\ Timer("timeout", None, main.epoch) \in Timers
    BY TimerType, MainEpoch
  <2>2. \A t \in timers' : t \in Timers
    BY <1>1, <2>1 DEF StartSource, TypeOK
  <2>3. Owner[Source] \in PE /\ {<<Source, 0>>} \in SUBSET Pair
    BY MainEpoch, SourcesAssumption DEF Pair
  <2>4. Message("update", Owner[Source], main.epoch, {<<Source, 0>>}) \in Messages
    BY <2>3, MessageType, MainEpoch DEF Kinds
  <2>5. \A m \in net' : m \in Messages
    BY <1>1, <2>4 DEF StartSource, TypeOK
  <2>6. red' \in [Reductions -> SUBSET PE]
    BY <1>1 DEF StartSource, TypeOK
  <2>7. main' \in MainType /\ main'.qd = main.qd /\ main'.epoch = main.epoch
    BY <1>1 DEF StartSource, TypeOK, MainType
  <2> QED BY <1>1, <2>2, <2>5, <2>6, <2>7 DEF StartSource, TypeOK
<1>2. CASE StartReductions
  <2>1. Broadcast("contribute") \subseteq Messages
    BY BroadcastType DEF Kinds, Rounds
  <2> QED BY <1>2, <2>1 DEF StartReductions, TypeOK
<1>3. CASE FastExit
  <2>1. Broadcast("print_partial") \subseteq Messages
    BY BroadcastType DEF Kinds, Closing
  <2>2. main' \in MainType /\ main'.qd = main.qd /\ main'.epoch = main.epoch
    BY <1>3 DEF FastExit, TypeOK, MainType
  <2> QED BY <1>3, <2>1, <2>2 DEF FastExit, TypeOK
<1>4. ASSUME NEW p \in PE, ProcessUpdate(p) PROVE TypeOK'
  <2>1. PICK m \in net : \E u \in m.body :
          IF u[2] < dist[u[1]]
          THEN /\ dist' = [dist EXCEPT ![u[1]] = u[2]]
               /\ pe' = [pe EXCEPT ![p].pq = @ \cup {u}]
          ELSE UNCHANGED <<dist, pe>>
    BY <1>4 DEF ProcessUpdate
  <2>2. PICK u \in m.body :
          IF u[2] < dist[u[1]]
          THEN /\ dist' = [dist EXCEPT ![u[1]] = u[2]]
               /\ pe' = [pe EXCEPT ![p].pq = @ \cup {u}]
          ELSE UNCHANGED <<dist, pe>>
    BY <2>1
  <2>3. u \in Pair /\ u[1] \in Vertex /\ u[2] \in Nat
    BY <2>1, <2>2 DEF TypeOK, Messages, Pair
  <2>4. dist' \in [Vertex -> Distance]
    BY <2>2, <2>3, SourceFacts DEF TypeOK
  <2>5. pe' = pe \/ pe' = [pe EXCEPT ![p].pq = @ \cup {u}]
    BY <2>2
  <2>6. pe[p].pq \cup {u} \in SUBSET Pair
    BY <2>3 DEF TypeOK, PeType
  <2>7. pe' \in [PE -> PeType]
    BY <2>5, <2>6 DEF TypeOK, PeType
  <2> QED BY <1>4, <2>4, <2>7 DEF ProcessUpdate, TypeOK
<1>5. ASSUME NEW p \in PE, ProcessHeap(p) PROVE TypeOK'
  <2>1. PICK u \in pe[p].pq :
          /\ pe' = [pe EXCEPT ![p].pq = @ \ {u}]
          /\ net' = net \cup IF u[2] = dist[u[1]] THEN Relaxations(p, u[1], u[2]) ELSE {}
    BY <1>5 DEF ProcessHeap
  <2>2. u[2] \in Nat
    BY DEF TypeOK, PeType, Pair
  <2>3. \A m \in net' : m \in Messages
    BY <2>1, <2>2, RelaxationsType DEF TypeOK
  <2>4. pe' \in [PE -> PeType]
    BY <2>1 DEF TypeOK, PeType
  <2> QED BY <1>5, <2>3, <2>4 DEF ProcessHeap, TypeOK
<1>6. ASSUME NEW p \in PE, ContributeHistogram(p) PROVE TypeOK'
  BY <1>6 DEF ContributeHistogram, Handle, Nothing, Contributed, TypeOK
<1>7. ASSUME NEW p \in PE, CurrentThresholds(p) PROVE TypeOK'
  <2>1. net' \subseteq Messages
    BY <1>7, HintsType DEF CurrentThresholds, Handle, TypeOK
  <2>2. outbox' \in [Processes -> SUBSET Pair]
    BY <1>7, HintsType DEF CurrentThresholds, TypeOK
  <2>3. timers' \subseteq Timers
    <3>1. Timer("contribute", p, pe[p].epoch) \in Timers
      BY TimerType DEF TypeOK, PeType
    <3> QED BY <1>7, <3>1 DEF CurrentThresholds, TypeOK
  <2>4. red' \in [Reductions -> SUBSET PE]
    BY <1>7 DEF CurrentThresholds, Contributed, TypeOK
  <2> QED BY <1>7, <2>1, <2>2, <2>3, <2>4 DEF CurrentThresholds, TypeOK
<1>8. ASSUME NEW p \in PE, DelayedContribute(p) PROVE TypeOK'
  BY <1>8 DEF DelayedContribute, Contributed, TypeOK
<1>9. ASSUME NEW n \in Processes, ReceiveHints(n) PROVE TypeOK'
  BY <1>9 DEF ReceiveHints, TypeOK
<1>10. CASE Converge
  <2>1. Broadcast("print") \subseteq Messages
    BY BroadcastType DEF Kinds, Closing
  <2>2. dist' \in [Vertex -> Distance]
    BY <1>10 DEF Converge, TypeOK
  <2>3. main' \in MainType /\ main'.qd = main.qd /\ main'.epoch = main.epoch
    BY <1>10 DEF Converge, TypeOK, MainType
  <2> QED BY <1>10, <2>1, <2>2, <2>3 DEF Converge, TypeOK
<1>11. CASE NextRound
  <2> DEFINE calm == ~Live
  <2>1. Broadcast("thresholds") \subseteq Messages
    BY BroadcastType DEF Kinds, Rounds
  <2>2. calm \in BOOLEAN /\ main' = [main EXCEPT !.calm = calm]
    BY <1>11 DEF NextRound
  <2> HIDE DEF calm
  <2>3. main' \in MainType /\ main'.qd = main.qd /\ main'.epoch = main.epoch
    BY <2>2 DEF TypeOK, MainType
  <2> QED BY <1>11, <2>1, <2>3 DEF NextRound, TypeOK
<1>12. ASSUME NEW p \in PE, PrintDistances(p) PROVE TypeOK'
  BY <1>12 DEF PrintDistances, Handle, Nothing, Contributed, TypeOK, Reductions
<1>13. ASSUME NEW kind \in {"print", "print_partial"}, DoneVerify(kind) PROVE TypeOK'
  <2>1. net' \subseteq Messages
    BY <1>13, BroadcastType DEF Kinds, Closing, DoneVerify, TypeOK
  <2>2. main \in MainType
    BY DEF TypeOK
  <2>3. main' = [main EXCEPT !.qd = "certify"] \/ main' = CheckDigest(main)
    BY <1>13 DEF DoneVerify
  <2>4. main' \in MainType /\ (main'.qd = "advance" => main'.epoch + 1 \in DOMAIN SourceList)
    <3>1. CASE main' = [main EXCEPT !.qd = "certify"]
      BY <2>2, <3>1 DEF MainType
    <3>2. CASE main' = CheckDigest(main)
      BY <2>2, <3>2, DigestType DEF TypeOK
    <3> QED BY <2>3, <3>1, <3>2
  <2>5. red' \in [Reductions -> SUBSET PE]
    BY <1>13 DEF DoneVerify, TypeOK
  <2> QED BY <1>13, <2>1, <2>4, <2>5 DEF DoneVerify, TypeOK
<1>14. ASSUME NEW p \in PE, NEW kind, NEW c \in CertType, CertifySlice(p, kind, c) PROVE TypeOK'
  <2>1. PICK k \in 0..(Len(LocalVertex[p]) - c.cursor), full \in SUBSET (PE \ {p}) :
          /\ Handle(p, kind, LAMBDA m : Slice(p, c, k, full).messages)
          /\ cert' = [cert EXCEPT ![p] = Slice(p, c, k, full).state]
          /\ UNCHANGED <<main, timers, red, pe, solver, flawed>>
    BY <1>14 DEF CertifySlice
  <2>2. k \in Nat /\ full \in SUBSET PE
    BY DEF CertType
  <2>3. net' \subseteq Messages /\ cert' \in [PE -> CertType]
    BY <2>1, <2>2, SliceType DEF Handle, TypeOK
  <2> QED BY <2>1, <2>3 DEF TypeOK
<1>15. ASSUME NEW p \in PE, CertifyStart(p) \/ CertifyStep(p) PROVE TypeOK'
  <2>1. Prepared(p, main.epoch) \in CertType /\ cert[p] \in CertType
    BY PreparedType, MainEpoch DEF TypeOK
  <2> QED BY <1>14, <1>15, <2>1 DEF CertifyStart, CertifyStep
<1>16. ASSUME NEW p \in PE, CertifyBatch(p) PROVE TypeOK'
  <2>1. PICK m \in net : cert' = [cert EXCEPT ![p] = Noted(Prepared(p, m.epoch), m.body)]
    BY <1>16 DEF CertifyBatch
  <2>2. Noted(Prepared(p, m.epoch), m.body) \in CertType
    BY PreparedType, NotedType DEF TypeOK, Messages
  <2> QED BY <1>16, <2>1, <2>2 DEF CertifyBatch, TypeOK
<1>17. ASSUME NEW p \in PE, CertifyCollect(p) PROVE TypeOK'
  <2> DEFINE c == Prepared(p, main.epoch)
             bad == Bad(p, c)
  <2>1. c \in CertType /\ bad \in BOOLEAN
    BY PreparedType, MainEpoch DEF Bad
  <2>2. cert' = [cert EXCEPT ![p] = [c EXCEPT !.bad = bad, !.tight = {}, !.out = [q \in PE |-> {}]]]
    BY <1>17 DEF CertifyCollect
  <2> HIDE DEF c, bad
  <2>3. [c EXCEPT !.bad = bad, !.tight = {}, !.out = [q \in PE |-> {}]] \in CertType
    BY <2>1 DEF CertType
  <2>4. cert' \in [PE -> CertType]
    BY <2>2, <2>3 DEF TypeOK
  <2>5. red' \in [Reductions -> SUBSET PE] /\ net' \subseteq Messages
    BY <1>17 DEF CertifyCollect, Handle, Nothing, TypeOK, Reductions
  <2> QED BY <1>17, <2>4, <2>5 DEF CertifyCollect, TypeOK
<1>18. ASSUME NEW r \in {"sums", "max"}, CertifyPart(r) PROVE TypeOK'
  <2> DEFINE bad == IF r = "sums" THEN \E p \in PE : cert[p].bad ELSE main.bad
             m == [main EXCEPT !.bad = bad]
             n == [m EXCEPT !.parts = 0]
  <2>1. bad \in BOOLEAN
    BY MainEpoch
  <2>2. \/ main' = [m EXCEPT !.parts = @ + 1] /\ main.parts # 1
        \/ main' = [m EXCEPT !.parts = 0, !.exit = 1]
        \/ main' = CheckDigest(n)
    BY <1>18 DEF CertifyPart, Complete
  <2> HIDE DEF bad
  <2>3. m \in MainType /\ m.epoch = main.epoch /\ m.qd = main.qd /\ m.parts = main.parts
    BY <2>1 DEF TypeOK, MainType
  <2> HIDE DEF m
  <2>4. n \in MainType /\ n.epoch = main.epoch /\ n.qd = main.qd
    BY <2>3 DEF MainType
  <2> HIDE DEF n
  <2>5. main' \in MainType /\ (main'.qd = "advance" => main'.epoch + 1 \in DOMAIN SourceList)
    <3>1. CASE main' = [m EXCEPT !.parts = @ + 1] /\ main.parts # 1
      BY <2>3, <3>1 DEF MainType, TypeOK
    <3>2. CASE main' = [m EXCEPT !.parts = 0, !.exit = 1]
      BY <2>3, <3>2 DEF MainType, TypeOK
    <3>3. CASE main' = CheckDigest(n)
      BY <2>4, <3>3, DigestType DEF TypeOK
    <3> QED BY <2>2, <3>1, <3>2, <3>3
  <2>6. red' \in [Reductions -> SUBSET PE]
    BY <1>18 DEF CertifyPart, TypeOK
  <2> QED BY <1>18, <2>5, <2>6 DEF CertifyPart, TypeOK
<1>19. CASE CertifyQuiet
  <2>1. Broadcast("collect") \subseteq Messages
    BY BroadcastType DEF Kinds, Closing
  <2>2. main' \in MainType /\ main'.qd # "advance"
    BY <1>19, SourcesAssumption DEF CertifyQuiet, TypeOK, MainType
  <2> QED BY <1>19, <2>1, <2>2 DEF CertifyQuiet, TypeOK
<1>20. CASE AdvanceSource
  <2>1. Broadcast("reset") \subseteq Messages
    BY BroadcastType DEF Kinds
  <2>2. main' \in MainType /\ main'.qd # "advance"
    BY <1>20, SourcesAssumption DEF AdvanceSource, TypeOK, MainType
  <2> QED BY <1>20, <2>1, <2>2 DEF AdvanceSource, TypeOK
<1>21. ASSUME NEW p \in PE, ResetForSource(p) PROVE TypeOK'
  <2>1. dist' \in [Vertex -> Distance]
    BY <1>21, SourceFacts DEF ResetForSource, TypeOK
  <2>2. pe' \in [PE -> PeType]
    BY <1>21, MainEpoch DEF ResetForSource, TypeOK, PeType
  <2>3. outbox' \in [Processes -> SUBSET Pair]
    BY <1>21 DEF ResetForSource, Emptied, TypeOK
  <2>4. red' \in [Reductions -> SUBSET PE] /\ net' \subseteq Messages
    BY <1>21 DEF ResetForSource, Contributed, Handle, Nothing, TypeOK
  <2> QED BY <1>21, <2>1, <2>2, <2>3, <2>4 DEF ResetForSource, TypeOK
<1>22. CASE UNCHANGED vars
  BY <1>22 DEF vars, TypeOK
<1> QED
  BY <1>1, <1>2, <1>3, <1>4, <1>5, <1>6, <1>7, <1>8, <1>9, <1>10, <1>11, <1>12, <1>13, <1>15,
     <1>16, <1>17, <1>18, <1>19, <1>20, <1>21, <1>22 DEF Next, OnPE, OnMainPE
-----------------------------------------------------------------------------
(* Runs do not overlap *)

NoToken ==
  /\ \A m \in net : m.kind \notin Rounds
  /\ \A t \in timers : t.kind \notin {"start", "contribute"}

\* A PE has its contribution to make, or the message or timer that leads to it, once.
OneToken ==
  /\ \A m \in net : m.kind \in Rounds =>
       /\ m.to \in PE \ red["histogram"]
       /\ \A k \in net : k.kind \in Rounds /\ k.to = m.to => k = m
       /\ \A t \in timers : t.kind = "contribute" => t.pe # m.to
  /\ \A t \in timers : t.kind = "contribute" =>
       /\ t.pe \in PE \ red["histogram"] /\ t.epoch = main.epoch
       /\ \A s \in timers : s.kind = "contribute" /\ s.pe = t.pe => s = t
  /\ \A t \in timers : t.kind = "start" =>
       /\ t = Timer("start", None, main.epoch)
       /\ red["histogram"] = {}
       /\ \A m \in net : m.kind \notin Rounds
       /\ \A s \in timers : s.kind # "contribute"

\* Between the end of a run and the start of the next nothing of the solver moves.
Idle ==
  ~main.running /\ ~main.truncated => NoToken /\ ~Live /\ red["histogram"] = {}

\* What follows the end finds the run over, and goes on only if it was not cut short.
Ended ==
  /\ \A m \in net : m.kind \in Closing => ~main.running
  /\ \A r \in {"print", "print_partial", "sums", "max"} : red[r] # {} => ~main.running
  /\ main.qd # None => ~main.running /\ ~main.truncated

\* While the PEs are reset, nothing else happens.
Resetting == red["reset"] # {} \/ \E m \in net : m.kind = "reset"

ResetAlone ==
  Resetting =>
    /\ ~main.running /\ ~main.truncated /\ main.qd = None
    /\ \A r \in Reductions \ {"reset"} : red[r] = {}
    /\ \A m \in net : /\ m = Message("reset", m.to, main.epoch - 1, {})
                      /\ m.to \in PE \ red["reset"]
    /\ \A p \in PE : pe[p].pq = {}

\* Every message is of the run Main is in, and so is every PE not yet to be reset.
SameRun ==
  /\ \A m \in net : m.kind # "reset" => m.epoch = main.epoch
  /\ \A m \in net : m.kind = "step" => m.to \in PE /\ cert[m.to].epoch = main.epoch
  /\ \A p \in PE : pe[p].epoch # main.epoch => \E m \in net : m.kind = "reset" /\ m.to = p

\* A PE prints once, and in part only for a timeout.
PrintOnce ==
  ~main.truncated =>
    /\ \A m \in net : m.kind = "print" =>
         m = Message("print", m.to, main.epoch, {}) /\ m.to \in PE \ red["print"]
    /\ \A m \in net : m.kind # "print_partial"
    /\ red["print_partial"] = {}

\* Before the certificate of a source, nothing has been counted for it.
Uncounted ==
  \/ main.running \/ main.truncated \/ Resetting
  \/ red["print"] # {} \/ \E m \in net : m.kind = "print"

Started == {"certify_start", "step", "batch", "collect"}

NotStarted ==
  /\ \A p \in PE : cert[p].epoch <= main.epoch
  /\ Uncounted =>
       /\ main.qd = None
       /\ \A p \in PE : cert[p].epoch < main.epoch
       /\ \A m \in net : m.kind \notin Started
       /\ red["sums"] = {} /\ red["max"] = {}

LifeInv ==
  /\ TypeOK /\ OneToken /\ Idle /\ Ended /\ ResetAlone /\ SameRun
  /\ PrintOnce /\ NotStarted
LEMMA BroadcastIs ==
  ASSUME NEW kind
  PROVE  \A m \in Broadcast(kind) :
           /\ m.kind = kind /\ m.to \in PE /\ m.epoch = main.epoch
           /\ m = Message(kind, m.to, main.epoch, {})
BY DEF Broadcast, Message

\* What of Main the invariants speak of.
SameMain ==
  /\ main'.running = main.running /\ main'.truncated = main.truncated
  /\ main'.qd = main.qd /\ main'.epoch = main.epoch

LEMMA LifeStep ==
  LifeInv /\ Next =>
    (OneToken /\ Idle /\ Ended /\ ResetAlone /\ SameRun /\ PrintOnce /\ NotStarted)'
<1> DEFINE Life ==
      OneToken /\ Idle /\ Ended /\ ResetAlone /\ SameRun /\ PrintOnce /\ NotStarted
<1> SUFFICES ASSUME LifeInv, Next PROVE Life'
  OBVIOUS
<1> USE DEF solver
<1>1. /\ TypeOK /\ OneToken /\ Idle /\ Ended /\ ResetAlone /\ SameRun /\ PrintOnce /\ NotStarted
      /\ main \in MainType /\ pe \in [PE -> PeType] /\ cert \in [PE -> CertType]
      /\ red \in [Reductions -> SUBSET PE]
  BY DEF LifeInv, TypeOK
<1>2. Resetting => NoToken /\ ~Live
  BY <1>1 DEF ResetAlone, Idle
<1>3. ~Resetting => /\ \A m \in net : m.kind # "reset"
                    /\ red["reset"] = {}
                    /\ \A p \in PE : pe[p].epoch = main.epoch
  BY <1>1 DEF Resetting, SameRun
<1>4. CASE StartSource
  <2>1. Resetting /\ ~main.truncated /\ main.qd = None /\ NoToken /\ net = {}
    BY <1>4, <1>1, <1>2, SourceFacts DEF StartSource, Reduced, Resetting, ResetAlone
  <2>2. main'.running /\ ~main'.truncated /\ main'.qd = None /\ main'.epoch = main.epoch
    BY <1>4, <2>1 DEF StartSource, MainType
  <2>3. \A r \in Reductions : red'[r] = {}
    BY <1>4, <1>1, <2>1 DEF StartSource, ResetAlone
  <2>4. \A t \in timers' : t \in timers \/ t = Timer("start", None, main.epoch) \/ t.kind = "timeout"
    BY <1>4 DEF StartSource, Timer
  <2>5. \A m \in net' : m.kind = "update" /\ m.epoch = main.epoch
    BY <1>4, <2>1 DEF StartSource, Message
  <2>6. \A p \in PE : pe[p].epoch = main.epoch
    BY <1>1, <2>1 DEF SameRun
  <2>7. UNCHANGED <<pe, cert>>
    BY <1>4 DEF StartSource
  <2>8. OneToken'
    BY <2>1, <2>2, <2>3, <2>4, <2>5, <2>6, <2>7 DEF OneToken, NoToken, Rounds, Timer, Reductions
  <2>9. Idle'
    BY <2>1, <2>2, <2>3, <2>4, <2>5, <2>6, <2>7 DEF Idle, NoToken, Live, Rounds
  <2>10. Ended'
    BY <2>1, <2>2, <2>3, <2>4, <2>5, <2>6, <2>7 DEF Ended, Closing, Reductions
  <2>11. ResetAlone'
    BY <2>1, <2>2, <2>3, <2>4, <2>5, <2>6, <2>7 DEF ResetAlone, Resetting, Reductions
  <2>12. SameRun'
    BY <2>1, <2>2, <2>3, <2>4, <2>5, <2>6, <2>7 DEF SameRun
  <2>13. PrintOnce'
    BY <2>1, <2>2, <2>3, <2>4, <2>5, <2>6, <2>7 DEF PrintOnce, Ended, Closing, Reductions
  <2>14. NotStarted'
    BY <1>1, <2>1, <2>2, <2>3, <2>4, <2>5, <2>6, <2>7, MainEpoch DEF NotStarted, Uncounted, Started, Resetting, Ended, Closing, Idle, Reductions, CertType
  <2> QED BY <2>8, <2>9, <2>10, <2>11, <2>12, <2>13, <2>14
<1>5. CASE StartReductions
  <2>1. PICK t \in timers : t.kind = "start" /\ timers' = timers \ {t}
    BY <1>5 DEF StartReductions
  <2>2. ~Resetting /\ (main.running \/ main.truncated)
    BY <1>1, <1>2, <2>1 DEF NoToken, Idle
  <2>3. \A s \in timers' : s \in timers /\ s.kind \notin {"start", "contribute"}
    BY <1>1, <2>1 DEF OneToken
  <2>4. \A m \in net' : m \in net \/ (m.kind = "contribute" /\ m.to \in PE /\ m = Message("contribute", m.to, main.epoch, {}))
    BY <1>5, BroadcastIs DEF StartReductions
  <2>5. \A m \in net : m.kind \notin Rounds
    BY <1>1, <2>1 DEF OneToken
  <2>6. red["histogram"] = {}
    BY <1>1, <2>1 DEF OneToken
  <2>7. \A m \in net' : m \notin net => m.epoch = main.epoch
    BY <2>4 DEF Message
  <2>8. UNCHANGED <<main, red, pe, cert>>
    BY <1>5 DEF StartReductions
  <2>9. OneToken'
    BY <2>1, <2>2, <2>3, <2>4, <2>5, <2>6, <2>7, <2>8 DEF OneToken, Rounds
  <2>10. Idle'
    BY <2>1, <2>2, <2>3, <2>4, <2>5, <2>6, <2>7, <2>8 DEF Idle, NoToken, Live, Rounds
  <2>11. Ended'
    BY <1>1, <2>1, <2>2, <2>3, <2>4, <2>5, <2>6, <2>7, <2>8 DEF Ended, Closing
  <2>12. ResetAlone'
    BY <2>1, <2>2, <2>3, <2>4, <2>5, <2>6, <2>7, <2>8 DEF ResetAlone, Resetting
  <2>13. SameRun'
    BY <1>1, <1>3, <2>1, <2>2, <2>3, <2>4, <2>5, <2>6, <2>7, <2>8 DEF SameRun
  <2>14. PrintOnce'
    BY <1>1, <2>1, <2>2, <2>3, <2>4, <2>5, <2>6, <2>7, <2>8 DEF PrintOnce, Ended, Closing, Reductions
  <2>15. NotStarted'
    BY <1>1, <2>1, <2>2, <2>3, <2>4, <2>5, <2>6, <2>7, <2>8, MainEpoch DEF NotStarted, Uncounted, Started, Resetting, Ended, Closing, Idle, Reductions, CertType
  <2> QED BY <2>9, <2>10, <2>11, <2>12, <2>13, <2>14, <2>15
<1>6. CASE FastExit
  <2>1. timers' \subseteq timers /\ UNCHANGED <<red, pe, cert>>
    BY <1>6 DEF FastExit
  <2>2. \/ SameMain /\ net' = net
        \/ /\ main.running /\ ~main'.running /\ main'.truncated
           /\ main'.qd = main.qd /\ main'.epoch = main.epoch
           /\ net' = net \cup Broadcast("print_partial")
    BY <1>6, <1>1 DEF FastExit, SameMain, MainType
  <2>3. \A m \in net' : m \in net \/ (m.kind = "print_partial" /\ m.epoch = main.epoch /\ main.running)
    BY <2>2, BroadcastIs
  <2>4. OneToken'
    BY <1>1, <2>1, <2>2, <2>3 DEF OneToken, Rounds, SameMain
  <2>5. Idle'
    BY <1>1, <2>1, <2>2, <2>3 DEF Idle, NoToken, Live, Rounds, SameMain
  <2>6. Ended'
    BY <1>1, <2>1, <2>2, <2>3 DEF Ended, Closing, SameMain
  <2>7. ResetAlone'
    BY <1>1, <2>1, <2>2, <2>3 DEF ResetAlone, Resetting, SameMain
  <2>8. SameRun'
    BY <1>1, <2>1, <2>2, <2>3 DEF SameRun, SameMain
  <2>9. PrintOnce'
    BY <1>1, <2>1, <2>2, <2>3 DEF PrintOnce, Ended, Closing, Reductions, SameMain
  <2>10. NotStarted'
    BY <1>1, <2>1, <2>2, <2>3, MainEpoch DEF NotStarted, Uncounted, Started, Resetting, Ended, Closing, Idle, Reductions, CertType, SameMain
  <2> QED BY <2>4, <2>5, <2>6, <2>7, <2>8, <2>9, <2>10
<1>7. ASSUME NEW p \in PE, ProcessUpdate(p) PROVE Life'
  <2>1. UNCHANGED <<main, timers, red, cert>> /\ net' \subseteq net
    BY <1>7 DEF ProcessUpdate
  <2>2. \E m \in net : m.kind = "update"
    BY <1>7 DEF ProcessUpdate
  <2>3. ~Resetting /\ (main.running \/ main.truncated)
    BY <1>1, <1>2, <2>2 DEF Live, Idle
  <2>4. \A q \in PE : pe'[q].epoch = pe[q].epoch
    BY <1>7, <1>1 DEF ProcessUpdate, PeType
  <2>5. OneToken'
    BY <1>1, <2>1, <2>2, <2>3, <2>4 DEF OneToken, Rounds
  <2>6. Idle'
    BY <2>1, <2>2, <2>3, <2>4 DEF Idle, NoToken, Live, Rounds
  <2>7. Ended'
    BY <1>1, <2>1, <2>2, <2>3, <2>4 DEF Ended, Closing
  <2>8. ResetAlone'
    BY <2>1, <2>2, <2>3, <2>4 DEF ResetAlone, Resetting
  <2>9. SameRun'
    BY <1>1, <1>3, <2>1, <2>2, <2>3, <2>4 DEF SameRun
  <2>10. PrintOnce'
    BY <1>1, <2>1, <2>2, <2>3, <2>4 DEF PrintOnce, Ended, Closing, Reductions
  <2>11. NotStarted'
    BY <1>1, <2>1, <2>2, <2>3, <2>4, MainEpoch DEF NotStarted, Uncounted, Started, Resetting, Ended, Closing, Idle, Reductions, CertType
  <2> QED BY <2>5, <2>6, <2>7, <2>8, <2>9, <2>10, <2>11
<1>8. ASSUME NEW p \in PE, ProcessHeap(p) PROVE Life'
  <2>1. UNCHANGED <<main, timers, red, cert>>
    BY <1>8 DEF ProcessHeap
  <2>2. pe[p].pq # {}
    BY <1>8 DEF ProcessHeap
  <2>3. ~Resetting /\ (main.running \/ main.truncated)
    BY <1>1, <1>2, <2>2 DEF Live, Idle
  <2>4. \A q \in PE : pe'[q].epoch = pe[q].epoch
    BY <1>8 DEF ProcessHeap, PeType
  <2>5. \A m \in net' : m \in net \/ (m.kind = "update" /\ m.epoch = pe[p].epoch)
    BY <1>8 DEF ProcessHeap, Relaxations, Message
  <2>6. OneToken'
    BY <1>1, <2>1, <2>2, <2>3, <2>4, <2>5 DEF OneToken, Rounds
  <2>7. Idle'
    BY <2>1, <2>2, <2>3, <2>4, <2>5 DEF Idle, NoToken, Live, Rounds
  <2>8. Ended'
    BY <1>1, <2>1, <2>2, <2>3, <2>4, <2>5 DEF Ended, Closing
  <2>9. ResetAlone'
    BY <2>1, <2>2, <2>3, <2>4, <2>5 DEF ResetAlone, Resetting
  <2>10. SameRun'
    BY <1>1, <1>3, <2>1, <2>2, <2>3, <2>4, <2>5 DEF SameRun
  <2>11. PrintOnce'
    BY <1>1, <2>1, <2>2, <2>3, <2>4, <2>5 DEF PrintOnce, Ended, Closing, Reductions
  <2>12. NotStarted'
    BY <1>1, <2>1, <2>2, <2>3, <2>4, <2>5, MainEpoch DEF NotStarted, Uncounted, Started, Resetting, Ended, Closing, Idle, Reductions, CertType
  <2> QED BY <2>6, <2>7, <2>8, <2>9, <2>10, <2>11, <2>12
<1>9. ASSUME NEW p \in PE, ContributeHistogram(p) PROVE Life'
  <2>1. PICK m \in net : m.kind \in Rounds /\ m.to = p /\ net' = net \ {m}
    BY <1>9 DEF ContributeHistogram, Handle, Nothing, Rounds
  <2>2. UNCHANGED <<main, timers, pe, cert>>
    BY <1>9 DEF ContributeHistogram
  <2>3. ~Resetting /\ (main.running \/ main.truncated)
    BY <1>1, <1>2, <2>1 DEF NoToken, Idle
  <2>4. /\ red'["histogram"] = red["histogram"] \cup {p}
        /\ \A r \in Reductions : r # "histogram" => red'[r] = red[r]
    BY <1>9, <1>1 DEF ContributeHistogram, Contributed, Reductions
  <2>5. OneToken'
    BY <1>1, <2>1, <2>2, <2>3, <2>4 DEF OneToken, Rounds
  <2>6. Idle'
    BY <2>1, <2>2, <2>3, <2>4 DEF Idle, NoToken, Live, Rounds
  <2>7. Ended'
    BY <1>1, <2>1, <2>2, <2>3, <2>4 DEF Ended, Closing, Reductions
  <2>8. ResetAlone'
    BY <2>1, <2>2, <2>3, <2>4 DEF ResetAlone, Resetting, Reductions
  <2>9. SameRun'
    BY <1>1, <1>3, <2>1, <2>2, <2>3, <2>4 DEF SameRun
  <2>10. PrintOnce'
    BY <1>1, <2>1, <2>2, <2>3, <2>4 DEF PrintOnce, Ended, Closing, Reductions
  <2>11. NotStarted'
    BY <1>1, <2>1, <2>2, <2>3, <2>4, MainEpoch DEF NotStarted, Uncounted, Started, Resetting, Ended, Closing, Idle, Reductions, CertType
  <2> QED BY <2>5, <2>6, <2>7, <2>8, <2>9, <2>10, <2>11
<1>10. ASSUME NEW p \in PE, CurrentThresholds(p) PROVE Life'
  <2>1. PICK m \in net : m.kind = "thresholds" /\ m.to = p /\ net' = (net \ {m}) \cup Flushed(p)
    BY <1>10 DEF CurrentThresholds, Handle
  <2>2. UNCHANGED <<main, pe, cert>>
    BY <1>10 DEF CurrentThresholds
  <2>3. ~Resetting /\ (main.running \/ main.truncated)
    BY <1>1, <1>2, <2>1 DEF NoToken, Idle, Rounds
  <2>4. \A k \in net' : (k \in net /\ k # m) \/ (k.kind = "hints" /\ k.epoch = pe[p].epoch)
    BY <1>1, <2>1, HintsType
  <2>5. \/ /\ red' = red
           /\ timers' = timers \cup {Timer("contribute", p, pe[p].epoch)}
        \/ /\ timers' = timers
           /\ red'["histogram"] = red["histogram"] \cup {p}
           /\ \A r \in Reductions : r # "histogram" => red'[r] = red[r]
    BY <1>10, <1>1 DEF CurrentThresholds, Contributed, Reductions
  <2>6. OneToken'
    BY <1>1, <1>3, <2>1, <2>2, <2>3, <2>4, <2>5 DEF OneToken, Rounds, Timer
  <2>7. Idle'
    BY <2>1, <2>2, <2>3, <2>4, <2>5 DEF Idle, NoToken, Live, Rounds
  <2>8. Ended'
    BY <1>1, <2>1, <2>2, <2>3, <2>4, <2>5 DEF Ended, Closing, Reductions
  <2>9. ResetAlone'
    BY <2>1, <2>2, <2>3, <2>4, <2>5 DEF ResetAlone, Resetting, Reductions
  <2>10. SameRun'
    BY <1>1, <1>3, <2>1, <2>2, <2>3, <2>4, <2>5 DEF SameRun
  <2>11. PrintOnce'
    BY <1>1, <2>1, <2>2, <2>3, <2>4, <2>5 DEF PrintOnce, Ended, Closing, Reductions
  <2>12. NotStarted'
    BY <1>1, <2>1, <2>2, <2>3, <2>4, <2>5, MainEpoch DEF NotStarted, Uncounted, Started, Resetting, Ended, Closing, Idle, Reductions, CertType
  <2> QED BY <2>6, <2>7, <2>8, <2>9, <2>10, <2>11, <2>12
<1>11. ASSUME NEW p \in PE, DelayedContribute(p) PROVE Life'
  <2>1. PICK t \in timers : t.kind = "contribute" /\ t.pe = p /\ timers' = timers \ {t}
    BY <1>11 DEF DelayedContribute
  <2>2. UNCHANGED <<main, net, pe, cert>>
    BY <1>11 DEF DelayedContribute
  <2>3. ~Resetting /\ (main.running \/ main.truncated)
    BY <1>1, <1>2, <2>1 DEF NoToken, Idle
  <2>4. /\ red'["histogram"] = red["histogram"] \cup {p}
        /\ \A r \in Reductions : r # "histogram" => red'[r] = red[r]
    BY <1>11, <1>1 DEF DelayedContribute, Contributed, Reductions
  <2>5. OneToken'
    BY <1>1, <2>1, <2>2, <2>3, <2>4 DEF OneToken, Rounds
  <2>6. Idle'
    BY <2>1, <2>2, <2>3, <2>4 DEF Idle, NoToken, Live, Rounds
  <2>7. Ended'
    BY <1>1, <2>1, <2>2, <2>3, <2>4 DEF Ended, Closing, Reductions
  <2>8. ResetAlone'
    BY <2>1, <2>2, <2>3, <2>4 DEF ResetAlone, Resetting, Reductions
  <2>9. SameRun'
    BY <1>1, <2>1, <2>2, <2>3, <2>4 DEF SameRun
  <2>10. PrintOnce'
    BY <1>1, <2>1, <2>2, <2>3, <2>4 DEF PrintOnce, Ended, Closing, Reductions
  <2>11. NotStarted'
    BY <1>1, <2>1, <2>2, <2>3, <2>4, MainEpoch DEF NotStarted, Uncounted, Started, Resetting, Ended, Closing, Idle, Reductions, CertType
  <2> QED BY <2>5, <2>6, <2>7, <2>8, <2>9, <2>10, <2>11
<1>12. ASSUME NEW n \in Processes, ReceiveHints(n) PROVE Life'
  <2>1. UNCHANGED <<main, timers, red, pe, cert>> /\ net' \subseteq net
    BY <1>12 DEF ReceiveHints
  <2>2. \E m \in net : m.kind = "hints"
    BY <1>12 DEF ReceiveHints
  <2>3. ~Resetting
    BY <1>1, <2>2 DEF ResetAlone, Message
  <2>4. OneToken'
    BY <1>1, <2>1, <2>2, <2>3 DEF OneToken, Rounds
  <2>5. Idle'
    BY <1>1, <2>1, <2>2, <2>3 DEF Idle, NoToken, Live, Rounds
  <2>6. Ended'
    BY <1>1, <2>1, <2>2, <2>3 DEF Ended, Closing
  <2>7. ResetAlone'
    BY <2>1, <2>2, <2>3 DEF ResetAlone, Resetting
  <2>8. SameRun'
    BY <1>1, <1>3, <2>1, <2>2, <2>3 DEF SameRun
  <2>9. PrintOnce'
    BY <1>1, <2>1, <2>2, <2>3 DEF PrintOnce, Ended, Closing, Reductions
  <2>10. NotStarted'
    BY <1>1, <2>1, <2>2, <2>3, MainEpoch DEF NotStarted, Uncounted, Started, Resetting, Ended, Closing, Idle, Reductions, CertType
  <2> QED BY <2>4, <2>5, <2>6, <2>7, <2>8, <2>9, <2>10
<1>13. CASE Converge
  <2>1. red["histogram"] = PE /\ red["histogram"] # {} /\ ~Live
    BY <1>13, SourceFacts DEF Converge, Reduced
  <2>2. NoToken
    BY <1>1, <2>1 DEF OneToken, NoToken
  <2>3. ~Resetting
    BY <1>1, <2>1 DEF ResetAlone, Reductions
  <2>4. main.running \/ main.truncated
    BY <1>1, <2>1 DEF Idle
  <2>5. ~main'.running /\ main'.truncated = main.truncated /\ main'.qd = main.qd /\ main'.epoch = main.epoch
    BY <1>13 DEF Converge, MainType
  <2>6. red'["histogram"] = {} /\ \A r \in Reductions : r # "histogram" => red'[r] = red[r]
    BY <1>13, <1>1 DEF Converge, Reductions
  <2>7. \A m \in net' : m \in net \/ 
                       (/\ m.kind = "print" /\ m.to \in PE /\ m.epoch = main.epoch
                        /\ m = Message("print", m.to, main.epoch, {}))
    BY <1>13, BroadcastIs DEF Converge
  <2>8. UNCHANGED <<timers, pe, cert>>
    BY <1>13 DEF Converge
  <2>9. OneToken'
    BY <2>1, <2>2, <2>3, <2>4, <2>5, <2>6, <2>7, <2>8 DEF OneToken, NoToken, Rounds
  <2>10. Idle'
    BY <2>1, <2>2, <2>3, <2>4, <2>5, <2>6, <2>7, <2>8 DEF Idle, NoToken, Live, Rounds
  <2>11. Ended'
    BY <1>1, <2>1, <2>2, <2>3, <2>4, <2>5, <2>6, <2>7, <2>8 DEF Ended, Closing, Reductions
  <2>12. ResetAlone'
    BY <2>1, <2>2, <2>3, <2>4, <2>5, <2>6, <2>7, <2>8 DEF ResetAlone, Resetting, Reductions
  <2>13. SameRun'
    BY <1>1, <1>3, <2>1, <2>2, <2>3, <2>4, <2>5, <2>6, <2>7, <2>8 DEF SameRun
  <2>14. PrintOnce'
    BY <1>1, <2>1, <2>2, <2>3, <2>4, <2>5, <2>6, <2>7, <2>8 DEF PrintOnce, Ended, Closing, Reductions
  <2>15. NotStarted'
    BY <1>1, <2>1, <2>2, <2>3, <2>4, <2>5, <2>6, <2>7, <2>8, MainEpoch DEF NotStarted, Uncounted, Started, Resetting, Ended, Closing, Idle, Reductions, CertType
  <2> QED BY <2>9, <2>10, <2>11, <2>12, <2>13, <2>14, <2>15
<1>14. CASE NextRound
  <2>1. red["histogram"] = PE /\ red["histogram"] # {}
    BY <1>14, SourceFacts DEF NextRound, Reduced
  <2>2. NoToken
    BY <1>1, <2>1 DEF OneToken, NoToken
  <2>3. ~Resetting
    BY <1>1, <2>1 DEF ResetAlone, Reductions
  <2>4. main.running \/ main.truncated
    BY <1>1, <2>1 DEF Idle
  <2>5. SameMain
    BY <1>14 DEF NextRound, MainType, SameMain
  <2>6. red'["histogram"] = {} /\ \A r \in Reductions : r # "histogram" => red'[r] = red[r]
    BY <1>14, <1>1 DEF NextRound, Reductions
  <2>7. \A m \in net' : m \in net \/ (m.kind = "thresholds" /\ m.to \in PE /\ m = Message("thresholds", m.to, main.epoch, {}))
    BY <1>14, BroadcastIs DEF NextRound
  <2>8. \A m \in net' : m \notin net => m.epoch = main.epoch
    BY <2>7 DEF Message
  <2>9. UNCHANGED <<timers, pe, cert>>
    BY <1>14 DEF NextRound
  <2>10. OneToken'
    BY <2>1, <2>2, <2>3, <2>4, <2>5, <2>6, <2>7, <2>8, <2>9 DEF OneToken, NoToken, Rounds, SameMain
  <2>11. Idle'
    BY <2>1, <2>2, <2>3, <2>4, <2>5, <2>6, <2>7, <2>8, <2>9 DEF Idle, SameMain
  <2>12. Ended'
    BY <1>1, <2>1, <2>2, <2>3, <2>4, <2>5, <2>6, <2>7, <2>8, <2>9 DEF Ended, Closing, Reductions, SameMain
  <2>13. ResetAlone'
    BY <2>1, <2>2, <2>3, <2>4, <2>5, <2>6, <2>7, <2>8, <2>9 DEF ResetAlone, Resetting, Reductions
  <2>14. SameRun'
    BY <1>1, <1>3, <2>1, <2>2, <2>3, <2>4, <2>5, <2>6, <2>7, <2>8, <2>9 DEF SameRun, SameMain
  <2>15. PrintOnce'
    BY <1>1, <2>1, <2>2, <2>3, <2>4, <2>5, <2>6, <2>7, <2>8, <2>9 DEF PrintOnce, Ended, Closing, Reductions, SameMain
  <2>16. NotStarted'
    BY <1>1, <2>1, <2>2, <2>3, <2>4, <2>5, <2>6, <2>7, <2>8, <2>9, MainEpoch DEF NotStarted, Uncounted, Started, Resetting, Ended, Closing, Idle, Reductions, CertType, SameMain
  <2> QED BY <2>10, <2>11, <2>12, <2>13, <2>14, <2>15, <2>16
<1>15. ASSUME NEW p \in PE, PrintDistances(p) PROVE Life'
  <2>1. PICK m \in net : m.kind \in {"print", "print_partial"} /\ m.to = p /\ net' = net \ {m}
          /\ red' = [red EXCEPT ![m.kind] = @ \cup {p}]
    BY <1>15 DEF PrintDistances, Handle, Nothing, Contributed
  <2>2. UNCHANGED <<main, timers, pe, cert>>
    BY <1>15 DEF PrintDistances
  <2>3. ~main.running
    BY <1>1, <2>1 DEF Ended, Closing, Reductions
  <2>4. ~Resetting
    BY <1>1, <2>1 DEF ResetAlone, Message
  <2>5. /\ red'[m.kind] = red[m.kind] \cup {p}
        /\ \A r \in Reductions : r # m.kind => red'[r] = red[r]
    BY <1>1, <2>1 DEF Reductions
  <2>6. OneToken'
    BY <1>1, <2>1, <2>2, <2>3, <2>4, <2>5 DEF OneToken, Rounds, Reductions
  <2>7. Idle'
    BY <1>1, <2>1, <2>2, <2>3, <2>4, <2>5 DEF Idle, NoToken, Live, Rounds, Reductions
  <2>8. Ended'
    BY <1>1, <2>1, <2>2, <2>3, <2>4, <2>5 DEF Ended, Closing, Reductions
  <2>9. ResetAlone'
    BY <2>1, <2>2, <2>3, <2>4, <2>5 DEF ResetAlone, Resetting, Reductions
  <2>10. SameRun'
    BY <1>1, <2>1, <2>2, <2>3, <2>4, <2>5 DEF SameRun
  <2>11. PrintOnce'
    BY <1>1, <2>1, <2>2, <2>3, <2>4, <2>5 DEF PrintOnce, Ended, Closing, Reductions
  <2>12. NotStarted'
    BY <1>1, <2>1, <2>2, <2>3, <2>4, <2>5, MainEpoch DEF NotStarted, Uncounted, Started, Resetting, Ended, Closing, Idle, Reductions, CertType
  <2> QED BY <2>6, <2>7, <2>8, <2>9, <2>10, <2>11, <2>12
<1>16. ASSUME NEW kind \in {"print", "print_partial"}, DoneVerify(kind) PROVE Life'
  <2>1. red[kind] # {} /\ red' = [red EXCEPT ![kind] = {}]
    BY <1>16, SourceFacts DEF DoneVerify, Reduced
  <2>2. ~main.running /\ ~Resetting
    BY <1>1, <2>1 DEF Ended, ResetAlone, Reductions
  <2>3. /\ main'.running = main.running /\ main'.truncated = main.truncated /\ main'.epoch = main.epoch
        /\ main'.qd # main.qd => ~main.truncated
    <3>1. CASE main' = [main EXCEPT !.qd = "certify"] /\ ~main.truncated
      BY <1>1, <3>1 DEF MainType
    <3>2. CASE main' = CheckDigest(main)
      BY <1>1, <3>2, DigestType
    <3> QED BY <1>16, <3>1, <3>2 DEF DoneVerify
  <2>4. \A m \in net' : m \in net \/ (m.kind = "certify_start" /\ m.epoch = main.epoch)
    BY <1>16, BroadcastIs DEF DoneVerify
  <2>5. net \subseteq net' /\ UNCHANGED <<timers, pe, cert>>
    BY <1>16 DEF DoneVerify
  <2>6. ~main.truncated => kind = "print" /\ \A m \in net : m.kind # "print"
    BY <1>16, <1>1, <2>1 DEF PrintOnce, DoneVerify, Reduced
  <2>7. main.truncated => net' = net /\ main'.qd = main.qd
    BY <1>16, <2>3 DEF DoneVerify
  <2>8. ~main.truncated => ~Uncounted'
    BY <1>1, <2>1, <2>2, <2>3, <2>4, <2>6 DEF Uncounted, Resetting, Reductions
  <2>9. \A r \in Reductions : red'[r] \subseteq red[r] /\ (r \in {"histogram", "reset"} => red'[r] = red[r])
    BY <1>1, <2>1 DEF Reductions
  <2>10. OneToken'
    BY <1>1, <2>1, <2>2, <2>3, <2>4, <2>5, <2>9 DEF OneToken, Rounds, Reductions
  <2>11. Idle'
    BY <1>1, <2>1, <2>2, <2>3, <2>4, <2>5, <2>9 DEF Idle, NoToken, Live, Rounds, Reductions
  <2>12. Ended'
    BY <1>1, <2>1, <2>2, <2>3, <2>4, <2>5, <2>9 DEF Ended, Closing, Reductions
  <2>13. ResetAlone'
    BY <2>1, <2>2, <2>3, <2>4, <2>5, <2>9 DEF ResetAlone, Resetting, Reductions
  <2>14. SameRun'
    BY <1>1, <2>1, <2>2, <2>3, <2>4, <2>5, <2>9 DEF SameRun
  <2>15. PrintOnce'
    BY <1>1, <2>1, <2>2, <2>3, <2>4, <2>5, <2>9 DEF PrintOnce, Ended, Closing, Reductions
  <2>16. NotStarted'
    BY <1>1, <2>1, <2>2, <2>3, <2>4, <2>5, <2>9, <2>7, <2>8, MainEpoch DEF NotStarted, Uncounted, Started, Resetting, Ended, Closing, Idle, Reductions, CertType
  <2> QED BY <2>10, <2>11, <2>12, <2>13, <2>14, <2>15, <2>16
<1>17. ASSUME NEW p \in PE, CertifyStart(p) \/ CertifyStep(p) PROVE Life'
  <2>1. /\ \E m \in net : m.kind \in {"certify_start", "step"}
        /\ \A k \in net' : \/ k \in net
                            \/ /\ k.kind \in {"batch", "step"} /\ k.epoch = main.epoch
                               /\ k.kind = "step" => k.to = p
        /\ cert'[p].epoch = main.epoch /\ \A q \in PE : q # p => cert'[q] = cert[q]
        /\ UNCHANGED <<main, timers, red, pe>>
    <3>1. ASSUME NEW kind \in {"certify_start", "step"}, NEW c \in CertType, CertifySlice(p, kind, c),
                 c.epoch = main.epoch
          PROVE  /\ \E m \in net : m.kind \in {"certify_start", "step"}
                 /\ \A k \in net' : \/ k \in net
                                     \/ /\ k.kind \in {"batch", "step"} /\ k.epoch = main.epoch
                                        /\ k.kind = "step" => k.to = p
                 /\ cert'[p].epoch = main.epoch /\ \A q \in PE : q # p => cert'[q] = cert[q]
                 /\ UNCHANGED <<main, timers, red, pe>>
      <4>1. PICK k \in 0..(Len(LocalVertex[p]) - c.cursor), full \in SUBSET (PE \ {p}) :
              /\ Handle(p, kind, LAMBDA m : Slice(p, c, k, full).messages)
              /\ cert' = [cert EXCEPT ![p] = Slice(p, c, k, full).state]
              /\ UNCHANGED <<main, timers, red, pe>>
        BY <3>1 DEF CertifySlice
      <4>2. k \in Nat /\ full \in SUBSET PE
        BY DEF CertType
      <4> QED BY <1>1, <3>1, <4>1, <4>2, SliceType DEF Handle
    <3>2. CASE CertifyStart(p)
      BY <1>1, <3>1, <3>2, MainEpoch, PreparedType DEF CertifyStart
    <3>3. CASE CertifyStep(p)
      <4>1. cert[p] \in CertType /\ cert[p].epoch = main.epoch
        BY <1>1, <3>3 DEF CertifyStep, CertifySlice, Handle, SameRun
      <4> QED BY <3>1, <3>3, <4>1 DEF CertifyStep
    <3> QED BY <1>17, <3>2, <3>3
  <2>2. ~main.running
    BY <1>1, <2>1 DEF Ended, Closing
  <2>3. ~Resetting
    BY <1>1, <2>1 DEF ResetAlone, Message
  <2>4. OneToken'
    BY <1>1, <2>1, <2>2, <2>3 DEF OneToken, Rounds
  <2>5. Idle'
    BY <1>1, <2>1, <2>2, <2>3 DEF Idle, NoToken, Live, Rounds
  <2>6. Ended'
    BY <1>1, <2>1, <2>2, <2>3 DEF Ended, Closing
  <2>7. ResetAlone'
    BY <2>1, <2>2, <2>3 DEF ResetAlone, Resetting
  <2>8. SameRun'
    BY <1>1, <1>3, <2>1, <2>2, <2>3 DEF SameRun
  <2>9. PrintOnce'
    BY <1>1, <2>1, <2>2, <2>3 DEF PrintOnce, Ended, Closing, Reductions
  <2>10. NotStarted'
    <3>1. ~Uncounted
      BY <1>1, <2>1 DEF NotStarted, Started
    <3>2. ~Uncounted'
      BY <2>1, <3>1 DEF Uncounted, Resetting
    <3>3. \A q \in PE : cert'[q].epoch <= main.epoch
      BY <1>1, <2>1, MainEpoch DEF NotStarted
    <3> QED BY <2>1, <3>2, <3>3 DEF NotStarted
  <2> QED BY <2>4, <2>5, <2>6, <2>7, <2>8, <2>9, <2>10
<1>18. ASSUME NEW p \in PE, CertifyBatch(p) PROVE Life'
  <2>1. PICK m \in net : /\ m.kind = "batch" /\ net' = net \ {m}
                     /\ cert' = [cert EXCEPT ![p] = Noted(Prepared(p, m.epoch), m.body)]
    BY <1>18 DEF CertifyBatch
  <2>2. m.epoch = main.epoch
    BY <1>1, <2>1 DEF SameRun
  <2>3. cert'[p].epoch = main.epoch /\ \A q \in PE : q # p => cert'[q] = cert[q]
    BY <1>1, <2>1, <2>2, MainEpoch, PreparedType DEF Noted, CertType
  <2>4. UNCHANGED <<main, timers, red, pe>>
    BY <1>18 DEF CertifyBatch
  <2>5. ~Resetting
    BY <1>1, <2>1 DEF ResetAlone, Message
  <2>6. OneToken'
    BY <1>1, <2>1, <2>2, <2>3, <2>4, <2>5 DEF OneToken, Rounds
  <2>7. Idle'
    BY <1>1, <2>1, <2>2, <2>3, <2>4, <2>5 DEF Idle, NoToken, Live, Rounds
  <2>8. Ended'
    BY <1>1, <2>1, <2>2, <2>3, <2>4, <2>5 DEF Ended, Closing
  <2>9. ResetAlone'
    BY <2>1, <2>2, <2>3, <2>4, <2>5 DEF ResetAlone, Resetting
  <2>10. SameRun'
    BY <1>1, <2>1, <2>2, <2>3, <2>4, <2>5 DEF SameRun
  <2>11. PrintOnce'
    BY <1>1, <2>1, <2>2, <2>3, <2>4, <2>5 DEF PrintOnce, Ended, Closing, Reductions
  <2>12. NotStarted'
    BY <1>1, <2>1, <2>2, <2>3, <2>4, <2>5, MainEpoch DEF NotStarted, Uncounted, Started, Resetting, Ended, Closing, Idle, Reductions, CertType
  <2> QED BY <2>6, <2>7, <2>8, <2>9, <2>10, <2>11, <2>12
<1>19. ASSUME NEW p \in PE, CertifyCollect(p) PROVE Life'
  <2>1. PICK m \in net : m.kind = "collect" /\ net' = net \ {m}
    BY <1>19 DEF CertifyCollect, Handle, Nothing
  <2>2. ~main.running /\ ~Resetting
    BY <1>1, <2>1 DEF Ended, Closing, ResetAlone, Message
  <2>3. cert'[p].epoch = main.epoch /\ \A q \in PE : q # p => cert'[q] = cert[q]
    BY <1>19, <1>1, MainEpoch, PreparedType DEF CertifyCollect, CertType
  <2>4. UNCHANGED <<main, timers, pe>>
    BY <1>19 DEF CertifyCollect
  <2>5. \A r \in Reductions : r \notin {"sums", "max"} => red'[r] = red[r]
    BY <1>19, <1>1 DEF CertifyCollect, Reductions
  <2>6. OneToken'
    BY <1>1, <2>1, <2>2, <2>3, <2>4, <2>5 DEF OneToken, Rounds, Reductions
  <2>7. Idle'
    BY <1>1, <2>1, <2>2, <2>3, <2>4, <2>5 DEF Idle, NoToken, Live, Rounds, Reductions
  <2>8. Ended'
    BY <1>1, <2>1, <2>2, <2>3, <2>4, <2>5 DEF Ended, Closing, Reductions
  <2>9. ResetAlone'
    BY <2>1, <2>2, <2>3, <2>4, <2>5 DEF ResetAlone, Resetting, Reductions
  <2>10. SameRun'
    BY <1>1, <2>1, <2>2, <2>3, <2>4, <2>5 DEF SameRun
  <2>11. PrintOnce'
    BY <1>1, <2>1, <2>2, <2>3, <2>4, <2>5 DEF PrintOnce, Ended, Closing, Reductions
  <2>12. NotStarted'
    <3>1. ~Uncounted
      BY <1>1, <2>1 DEF NotStarted, Started
    <3>2. ~Uncounted'
      BY <2>1, <2>4, <2>5, <3>1 DEF Uncounted, Resetting, Reductions
    <3>3. \A q \in PE : cert'[q].epoch <= main.epoch
      BY <1>1, <2>3, MainEpoch DEF NotStarted
    <3> QED BY <2>4, <3>2, <3>3 DEF NotStarted
  <2> QED BY <2>6, <2>7, <2>8, <2>9, <2>10, <2>11, <2>12
<1>20. ASSUME NEW r \in {"sums", "max"}, CertifyPart(r) PROVE Life'
  <2>1. red[r] # {} /\ red' = [red EXCEPT ![r] = {}]
    BY <1>20, SourceFacts DEF CertifyPart, Reduced
  <2>2. ~main.running /\ ~Resetting
    BY <1>1, <2>1 DEF Ended, ResetAlone, Reductions
  <2>3. /\ main'.running = main.running /\ main'.truncated = main.truncated /\ main'.epoch = main.epoch
        /\ main'.qd # main.qd => ~main.truncated
    <3> DEFINE bad == IF r = "sums" THEN \E p \in PE : cert[p].bad ELSE main.bad
               m == [main EXCEPT !.bad = bad]
               n == [m EXCEPT !.parts = 0]
    <3>1. bad \in BOOLEAN
      BY <1>1, MainEpoch
    <3>2. \/ main' = [m EXCEPT !.parts = @ + 1] \/ main' = [m EXCEPT !.parts = 0, !.exit = 1]
          \/ main' = CheckDigest(n)
      BY <1>20 DEF CertifyPart
    <3> HIDE DEF bad
    <3>3. n \in MainType
      BY <1>1, <3>1 DEF MainType
    <3>4. CASE main' = CheckDigest(n)
      BY <3>3, <3>4, DigestType DEF MainType
    <3> QED BY <1>1, <3>2, <3>4 DEF MainType
  <2>4. UNCHANGED <<net, timers, pe, cert>>
    BY <1>20 DEF CertifyPart
  <2>5. \A s \in Reductions : red'[s] \subseteq red[s] /\ (s \in {"histogram", "reset"} => red'[s] = red[s])
    BY <1>1, <2>1 DEF Reductions
  <2>6. OneToken'
    BY <1>1, <2>1, <2>2, <2>3, <2>4, <2>5 DEF OneToken, Rounds, Reductions
  <2>7. Idle'
    BY <1>1, <2>1, <2>2, <2>3, <2>4, <2>5 DEF Idle, NoToken, Live, Rounds, Reductions
  <2>8. Ended'
    BY <1>1, <2>1, <2>2, <2>3, <2>4, <2>5 DEF Ended, Closing, Reductions
  <2>9. ResetAlone'
    BY <2>1, <2>2, <2>3, <2>4, <2>5 DEF ResetAlone, Resetting, Reductions
  <2>10. SameRun'
    BY <1>1, <2>1, <2>2, <2>3, <2>4, <2>5 DEF SameRun
  <2>11. PrintOnce'
    BY <1>1, <2>1, <2>2, <2>3, <2>4, <2>5 DEF PrintOnce, Ended, Closing, Reductions
  <2>12. NotStarted'
    BY <1>1, <2>1, <2>2, <2>3, <2>4, <2>5, MainEpoch DEF NotStarted, Uncounted, Started, Resetting, Ended, Closing, Idle, Reductions, CertType
  <2> QED BY <2>6, <2>7, <2>8, <2>9, <2>10, <2>11, <2>12
<1>21. CASE CertifyQuiet
  <2>1. net = {} /\ main.qd # None /\ ~main.running /\ ~main.truncated
    BY <1>21, <1>1, SourcesAssumption DEF CertifyQuiet, Quiet, Ended
  <2>2. ~Resetting
    BY <1>1, <2>1 DEF ResetAlone
  <2>3. ~main'.running /\ ~main'.truncated /\ main'.qd = None /\ main'.epoch = main.epoch
    BY <1>21, <2>1 DEF CertifyQuiet, MainType
  <2>4. \A m \in net' : m.kind = "collect" /\ m.epoch = main.epoch
    BY <1>21, <2>1, BroadcastIs DEF CertifyQuiet
  <2>5. UNCHANGED <<timers, red, pe, cert>>
    BY <1>21 DEF CertifyQuiet
  <2>6. OneToken'
    BY <1>1, <2>1, <2>2, <2>3, <2>4, <2>5 DEF OneToken, Rounds
  <2>7. Idle'
    BY <1>1, <2>1, <2>2, <2>3, <2>4, <2>5 DEF Idle, NoToken, Live, Rounds
  <2>8. Ended'
    BY <2>1, <2>2, <2>3, <2>4, <2>5 DEF Ended, Closing
  <2>9. ResetAlone'
    BY <2>1, <2>2, <2>3, <2>4, <2>5 DEF ResetAlone, Resetting
  <2>10. SameRun'
    BY <1>3, <2>1, <2>2, <2>3, <2>4, <2>5 DEF SameRun
  <2>11. PrintOnce'
    BY <1>1, <2>1, <2>2, <2>3, <2>4, <2>5 DEF PrintOnce, Ended, Closing, Reductions
  <2>12. NotStarted'
    BY <1>1, <2>1, <2>2, <2>3, <2>4, <2>5, MainEpoch DEF NotStarted, Uncounted, Started, Resetting, Ended, Closing, Idle, Reductions, CertType
  <2> QED BY <2>6, <2>7, <2>8, <2>9, <2>10, <2>11, <2>12
<1>22. CASE AdvanceSource
  <2>1. /\ net = {} /\ \A q \in PE : pe[q].pq = {}
        /\ \A s \in Reductions : red[s] = {}
    BY <1>22, <1>1 DEF AdvanceSource, Quiet
  <2>2. main.qd # None /\ ~main.running /\ ~main.truncated
    BY <1>22, <1>1, SourcesAssumption DEF AdvanceSource, Ended
  <2>3. NoToken /\ ~Resetting
    BY <1>1, <2>2 DEF Idle, ResetAlone
  <2>4. ~main'.running /\ ~main'.truncated /\ main'.qd = None /\ main'.epoch = main.epoch + 1
    BY <1>22, <2>2 DEF AdvanceSource, MainType
  <2>5. /\ \A m \in net' : m.kind = "reset" /\ m.to \in PE /\ m = Message("reset", m.to, main'.epoch - 1, {})
        /\ \A p \in PE : Message("reset", p, main.epoch, {}) \in net'
    BY <1>22, <1>1, <2>1, <2>4, BroadcastIs, MainEpoch DEF AdvanceSource, Broadcast
  <2>6. UNCHANGED <<timers, red, pe, cert>>
    BY <1>22 DEF AdvanceSource
  <2>7. OneToken'
    BY <2>1, <2>2, <2>3, <2>4, <2>5, <2>6 DEF OneToken, NoToken, Rounds
  <2>8. Idle'
    BY <2>1, <2>2, <2>3, <2>4, <2>5, <2>6 DEF Idle, NoToken, Live, Rounds, Reductions
  <2>9. Ended'
    BY <2>1, <2>2, <2>3, <2>4, <2>5, <2>6 DEF Ended, Closing, Reductions
  <2>10. ResetAlone'
    BY <2>1, <2>2, <2>3, <2>4, <2>5, <2>6 DEF ResetAlone, Resetting
  <2>11. SameRun'
    BY <2>1, <2>2, <2>3, <2>4, <2>5, <2>6 DEF SameRun, Message
  <2>12. PrintOnce'
    BY <2>1, <2>2, <2>3, <2>4, <2>5, <2>6 DEF PrintOnce, Ended, Closing, Reductions
  <2>13. NotStarted'
    BY <1>1, <2>1, <2>2, <2>3, <2>4, <2>5, <2>6, MainEpoch DEF NotStarted, Uncounted, Started, Resetting, Ended, Closing, Idle, Reductions, CertType
  <2> QED BY <2>7, <2>8, <2>9, <2>10, <2>11, <2>12, <2>13
<1>23. ASSUME NEW p \in PE, ResetForSource(p) PROVE Life'
  <2>1. PICK m \in net : m.kind = "reset" /\ m.to = p /\ net' = net \ {m}
    BY <1>23 DEF ResetForSource, Handle, Nothing
  <2>2. Resetting /\ ~main.running /\ ~main.truncated /\ main.qd = None
    BY <1>1, <2>1 DEF Resetting, ResetAlone
  <2>3. UNCHANGED <<main, timers, cert>>
    BY <1>23 DEF ResetForSource
  <2>4. /\ red'["reset"] = red["reset"] \cup {p}
        /\ \A s \in Reductions : s # "reset" => red'[s] = red[s]
    BY <1>23, <1>1 DEF ResetForSource, Contributed, Reductions
  <2>5. /\ pe'[p].epoch = main.epoch
        /\ \A q \in PE : pe'[q].pq = pe[q].pq /\ (q # p => pe'[q] = pe[q])
    BY <1>23, <1>1 DEF ResetForSource, PeType
  <2>6. \A k \in net : k.kind = "reset" /\ (k.to = p => k = m)
    <3>1. \A k \in net : k = Message("reset", k.to, main.epoch - 1, {})
      BY <1>1, <2>2 DEF ResetAlone
    <3>2. m = Message("reset", p, main.epoch - 1, {})
      BY <2>1, <3>1
    <3>3. \A k \in net : k.kind = "reset"
      BY <3>1 DEF Message
    <3> QED BY <3>1, <3>2, <3>3
  <2>7. OneToken'
    BY <1>1, <2>1, <2>2, <2>3, <2>4, <2>5, <2>6 DEF OneToken, Rounds, Reductions
  <2>8. Idle'
    BY <1>1, <2>1, <2>2, <2>3, <2>4, <2>5, <2>6 DEF Idle, NoToken, Live, Reductions
  <2>9. Ended'
    BY <2>1, <2>2, <2>3, <2>4, <2>5, <2>6 DEF Ended, Closing, Reductions
  <2>10. ResetAlone'
    BY <1>1, <2>1, <2>2, <2>3, <2>4, <2>5, <2>6 DEF ResetAlone, Resetting, Reductions
  <2>11. SameRun'
    BY <1>1, <2>1, <2>2, <2>3, <2>4, <2>5, <2>6 DEF SameRun
  <2>12. PrintOnce'
    BY <1>1, <2>1, <2>2, <2>3, <2>4, <2>5, <2>6 DEF PrintOnce, Ended, Closing, Reductions
  <2>13. NotStarted'
    BY <1>1, <2>1, <2>2, <2>3, <2>4, <2>5, <2>6, MainEpoch DEF NotStarted, Uncounted, Started, Resetting, Ended, Closing, Idle, Reductions, CertType
  <2> QED BY <2>7, <2>8, <2>9, <2>10, <2>11, <2>12, <2>13
<1> QED
  BY <1>4, <1>5, <1>6, <1>7, <1>8, <1>9, <1>10, <1>11, <1>12, <1>13, <1>14, <1>15, <1>16, <1>17, <1>18, <1>19, <1>20, <1>21, <1>22, <1>23 DEF Next, OnPE, OnMainPE

-----------------------------------------------------------------------------
(* The certificate, counted by messages *)

\* What is known of a source when p has just looked at it.
View(p) == Prepared(p, main.epoch)

\* The edges p has scanned; the candidate of each is noted, or on its way.
Scanned(p) == {e \in Edge : \E i \in 1..View(p).cursor : From[e] = LocalVertex[p][i]}
PairOf(e) == <<To[e], dist[From[e]] + Weight[e]>>

IsNoted(i) ==
  /\ i[2] < dist[i[1]] => i[1] \in View(Owner[i[1]]).below
  /\ i[2] = dist[i[1]] => i[1] \in View(Owner[i[1]]).tight

Buffered(p, i) == i \in View(p).out[Owner[i[1]]]
InBatch(i) == \E m \in net : m.kind = "batch" /\ m.to = Owner[i[1]] /\ i \in m.body

NoneLost ==
  \A p \in PE : \A e \in Scanned(p) : dist[From[e]] # Lmax =>
    IsNoted(PairOf(e)) \/ Buffered(p, PairOf(e)) \/ InBatch(PairOf(e))

Justified(q, pairs) == \A i \in pairs : Owner[i[1]] = q /\ i[2] \in Candidates(dist, i[1])

NoneInvented ==
  /\ \A p \in PE :
       /\ \A v \in View(p).below : Owner[v] = p /\ \E c \in Candidates(dist, v) : c < dist[v]
       /\ \A v \in View(p).tight : dist[v] \in Candidates(dist, v)
       /\ \A q \in PE : Justified(q, View(p).out[q])
       /\ View(p).nonpositive <=> \E e \in Scanned(p) : Weight[e] <= 0
  /\ \A m \in net : m.kind = "batch" => Justified(m.to, m.body)

\* A PE is started once, and scans until no vertex is left.
Scanning ==
  /\ \A m \in net : m.kind \in {"certify_start", "step"} => m = Message(m.kind, m.to, main.epoch, {})
  /\ \A m \in net : m.kind = "certify_start" => \A k \in net : ~(k.kind = "step" /\ k.to = m.to)
  /\ \A p \in PE : View(p).cursor <= Len(LocalVertex[p]) /\ View(p).out[p] = {}
  /\ \A p \in PE : (\A m \in net : ~(m.kind \in {"certify_start", "step"} /\ m.to = p)) =>
       /\ cert[p].epoch = main.epoch /\ View(p).cursor = Len(LocalVertex[p])
       /\ \A q \in PE : View(p).out[q] = {}

Counts == NoneLost /\ NoneInvented /\ Scanning /\ \A m \in net : m.kind # "collect"
Counting == main.qd = "certify" => Counts

\* What a PE must find when all has been noted.
BadPE(p) ==
  \/ \E v \in Own(p) : \E c \in Candidates(dist, v) : c < dist[v]
  \/ \E e \in Edge : Owner[From[e]] = p /\ Weight[e] <= 0
  \/ \E v \in Own(p) : IF v = Source THEN dist[v] # 0
                       ELSE dist[v] # Lmax /\ dist[v] \notin Candidates(dist, v)

\* Every PE has collected, or will; the two reductions end one by one.
Judging == (\E m \in net : m.kind = "collect") \/ red["sums"] # {} \/ red["max"] # {}

Judges ==
  /\ ~main.truncated /\ main.qd = None
  /\ \A m \in net : m.kind = "collect" /\ m = Message("collect", m.to, main.epoch, {})
  /\ \A m \in net : m.to \in PE /\ m.to \notin red["sums"] \cup red["max"]
  /\ \A p \in PE : IF \E m \in net : m.to = p
                   THEN cert[p].epoch = main.epoch /\ (Bad(p, cert[p]) <=> BadPE(p))
                   ELSE cert[p].bad <=> BadPE(p)
  /\ IF main.parts = 0
     THEN red["sums"] = red["max"] /\ \A p \in PE : p \in red["sums"] \/ \E m \in net : m.to = p
     ELSE /\ net = {}
          /\ \/ red["sums"] = PE /\ red["max"] = {}
             \/ red["max"] = PE /\ red["sums"] = {} /\ (main.bad <=> \E p \in PE : cert[p].bad)

Verdicts == (Judging => Judges) /\ (~Judging => main.parts = 0)

\* What goes on has been accepted.
Accepts ==
  main.qd = "advance" \/ main.exit = 0 =>
    /\ ~main.truncated /\ ~main.running
    /\ Certify => Accepted(Source, dist)
    /\ Verify => IsShortestFrom(Source, dist)

CertInv == LifeInv /\ Counting /\ Verdicts /\ Accepts

LEMMA SliceFields ==
  ASSUME TypeOK, NEW p \in PE, NEW c \in CertType, NEW k \in Nat, NEW full \in SUBSET PE
  PROVE  LET edges == NextEdges(p, c, k)
             s == Slice(p, c, k, full)
         IN  /\ s.state.epoch = c.epoch /\ s.state.cursor = c.cursor + k
             /\ s.state.below = Noted(c, Pairs(edges, p)).below
             /\ s.state.tight = Noted(c, Pairs(edges, p)).tight
             /\ s.state.nonpositive <=> c.nonpositive \/ \E e \in edges : Weight[e] <= 0
             /\ s.state.out[p] = {}
             /\ \A q \in PE : s.state.out[q] \subseteq c.out[q] \cup Pairs(edges, q)
             /\ \A q \in PE \ {p} : \A i \in c.out[q] \cup Pairs(edges, q) :
                  \/ i \in s.state.out[q]
                  \/ \E m \in s.messages : m.kind = "batch" /\ m.to = q /\ i \in m.body
             /\ \A m \in s.messages :
                  \/ m = Message("step", p, c.epoch, {})
                  \/ /\ m.kind = "batch" /\ m.to \in PE
                     /\ m.body \subseteq c.out[m.to] \cup Pairs(edges, m.to)
             /\ IF c.cursor + k = Len(LocalVertex[p]) THEN \A q \in PE : s.state.out[q] = {}
                ELSE Message("step", p, c.epoch, {}) \in s.messages
<1> DEFINE edges == NextEdges(p, c, k)
           s == Slice(p, c, k, full)
           pairs == Pairs(edges, p)
           out == [q \in PE |-> IF q = p THEN {} ELSE c.out[q] \cup Pairs(edges, q)]
           last == c.cursor + k = Len(LocalVertex[p])
           sending == IF last THEN PE ELSE full
           new == [q \in PE |-> IF q \in sending THEN {} ELSE out[q]]
           noted == Noted(c, pairs)
           cursor == noted.cursor + k
           nonpositive == noted.nonpositive \/ \E e \in edges : Weight[e] <= 0
           batches == {Message("batch", q, c.epoch, out[q]) : q \in {q \in sending : out[q] # {}}}
           steps == IF last THEN {} ELSE {Message("step", p, c.epoch, {})}
<1>1. edges \in SUBSET Edge /\ c.out \in [PE -> SUBSET Pair]
  BY DEF NextEdges, CertType
<1>2. noted \in CertType /\ noted.epoch = c.epoch /\ noted.cursor = c.cursor
      /\ noted.nonpositive = c.nonpositive
  BY <1>1, PairsType, NotedType DEF Noted, CertType
<1>3. s.messages = batches \cup steps
      /\ s.state = [noted EXCEPT !.cursor = cursor, !.nonpositive = nonpositive, !.out = new]
  BY DEF Slice
<1>4. sending \subseteq PE
  OBVIOUS
<1>5. \A m \in batches : /\ m.kind = "batch" /\ m.to \in PE /\ m.to # p
                         /\ m.body = c.out[m.to] \cup Pairs(edges, m.to)
  <2>1. \A q \in PE : out[q] # {} => q # p /\ out[q] = c.out[q] \cup Pairs(edges, q)
    OBVIOUS
  <2> HIDE DEF out, sending
  <2>2. \A q \in sending : out[q] # {} =>
          LET m == Message("batch", q, c.epoch, out[q])
          IN  /\ m.kind = "batch" /\ m.to \in PE /\ m.to # p
              /\ m.body = c.out[m.to] \cup Pairs(edges, m.to)
    BY <1>4, <2>1 DEF Message
  <2> QED BY <2>2
<1>6. \A q \in PE \ {p} : \A i \in c.out[q] \cup Pairs(edges, q) :
        i \in new[q] \/ \E m \in batches : m.kind = "batch" /\ m.to = q /\ i \in m.body
  <2> TAKE q \in PE \ {p}
  <2> TAKE i \in c.out[q] \cup Pairs(edges, q)
  <2>1. i \in out[q] /\ out[q] # {}
    OBVIOUS
  <2>2. CASE q \in sending
    <3>1. Message("batch", q, c.epoch, out[q]) \in batches
      BY <2>1, <2>2
    <3>2. LET m == Message("batch", q, c.epoch, out[q])
          IN  m.kind = "batch" /\ m.to = q /\ m.body = out[q]
      BY DEF Message
    <3> HIDE DEF out, batches
    <3> QED BY <2>1, <3>1, <3>2
  <2>3. CASE q \notin sending
    BY <2>1, <2>3
  <2> QED BY <2>2, <2>3
<1>7. nonpositive \in BOOLEAN
  BY <1>2 DEF CertType
<1>8. /\ s.state.epoch = noted.epoch /\ s.state.cursor = cursor /\ s.state.below = noted.below
      /\ s.state.tight = noted.tight /\ s.state.nonpositive = nonpositive /\ s.state.out = new
  <2> HIDE DEF noted, cursor, nonpositive, new, s
  <2> QED BY <1>2, <1>3 DEF CertType
<1>9. \A q \in PE : new[q] \subseteq c.out[q] \cup Pairs(edges, q)
  OBVIOUS
<1>10. new[p] = {} /\ (last => \A q \in PE : new[q] = {})
  OBVIOUS
<1>11. ~last => Message("step", p, c.epoch, {}) \in s.messages
  BY <1>3
<1> HIDE DEF edges, s, pairs, out, sending, new, noted, cursor, batches, nonpositive
<1>12. \A m \in s.messages : m = Message("step", p, c.epoch, {}) \/ m \in batches
  BY <1>3
<1>13. cursor = c.cursor + k /\ (nonpositive <=> c.nonpositive \/ \E e \in edges : Weight[e] <= 0)
  BY <1>2 DEF cursor, nonpositive
<1>14. /\ s.state.epoch = c.epoch /\ s.state.cursor = c.cursor + k
       /\ s.state.below = noted.below /\ s.state.tight = noted.tight
       /\ s.state.nonpositive <=> c.nonpositive \/ \E e \in edges : Weight[e] <= 0
       /\ s.state.out[p] = {}
       /\ \A q \in PE : s.state.out[q] \subseteq c.out[q] \cup Pairs(edges, q)
  BY <1>2, <1>8, <1>9, <1>10, <1>13
<1>15. \A q \in PE \ {p} : \A i \in c.out[q] \cup Pairs(edges, q) :
         \/ i \in s.state.out[q]
         \/ \E m \in s.messages : m.kind = "batch" /\ m.to = q /\ i \in m.body
  BY <1>3, <1>6, <1>8
<1>16. \A m \in s.messages :
         \/ m = Message("step", p, c.epoch, {})
         \/ /\ m.kind = "batch" /\ m.to \in PE
            /\ m.body \subseteq c.out[m.to] \cup Pairs(edges, m.to)
  BY <1>5, <1>12
<1>17. IF c.cursor + k = Len(LocalVertex[p]) THEN \A q \in PE : s.state.out[q] = {}
       ELSE Message("step", p, c.epoch, {}) \in s.messages
  BY <1>8, <1>10, <1>11
<1> QED BY <1>14, <1>15, <1>16, <1>17 DEF edges, s, noted, pairs

LEMMA ViewType ==
  ASSUME TypeOK, NEW p \in PE
  PROVE  /\ View(p) \in CertType /\ View(p).epoch = main.epoch
         /\ cert[p].epoch = main.epoch => View(p) = cert[p]
BY PreparedType, MainEpoch DEF View, Prepared

LEMMA LocalFacts ==
  ASSUME NEW p \in PE
  PROVE  /\ Len(LocalVertex[p]) \in Nat
         /\ \A i \in 1..Len(LocalVertex[p]) : LocalVertex[p][i] \in Vertex /\ Owner[LocalVertex[p][i]] = p
         /\ \A v \in Own(p) : \E i \in 1..Len(LocalVertex[p]) : v = LocalVertex[p][i]
<1>1. LocalVertex[p] \in Seq(Vertex) /\ Own(p) = {LocalVertex[p][i] : i \in DOMAIN LocalVertex[p]}
  BY SourcesAssumption
<1>2. DOMAIN LocalVertex[p] = 1..Len(LocalVertex[p]) /\ Len(LocalVertex[p]) \in Nat
  BY <1>1
<1>3. \A i \in 1..Len(LocalVertex[p]) : LocalVertex[p][i] \in Own(p)
  BY <1>1, <1>2
<1>4. \A v \in Own(p) : v \in Vertex /\ Owner[v] = p
  BY DEF Own
<1> QED BY <1>1, <1>2, <1>3, <1>4

\* A slice notes, buffers or sends the candidates of the edges it scans.
LEMMA CountSlice ==
  ASSUME TypeOK, Counts, NEW p \in PE, NEW m \in net, m.kind \in {"certify_start", "step"}, m.to = p,
         NEW k \in 0..(Len(LocalVertex[p]) - View(p).cursor), NEW full \in SUBSET PE,
         net' = (net \ {m}) \cup Slice(p, View(p), k, full).messages,
         cert' = [cert EXCEPT ![p] = Slice(p, View(p), k, full).state],
         main' = main, dist' = dist
  PROVE  Counts'
<1> DEFINE c == View(p)
           s == Slice(p, c, k, full).state
           new == Slice(p, c, k, full).messages
           edges == NextEdges(p, c, k)
<1>1. c \in CertType /\ c.epoch = main.epoch /\ k \in Nat /\ c.cursor \in Nat
  BY ViewType DEF CertType
<1>2. cert \in [PE -> CertType]
  BY DEF TypeOK
<1>3. net' = (net \ {m}) \cup new /\ cert' = [cert EXCEPT ![p] = s]
  OBVIOUS
<1>4. c = View(p)
  OBVIOUS
<1> HIDE DEF c
<1>5. /\ s.epoch = c.epoch /\ s.cursor = c.cursor + k
      /\ s.below = Noted(c, Pairs(edges, p)).below
      /\ s.tight = Noted(c, Pairs(edges, p)).tight
      /\ s.nonpositive <=> c.nonpositive \/ \E e \in edges : Weight[e] <= 0
      /\ s.out[p] = {}
      /\ \A q \in PE : s.out[q] \subseteq c.out[q] \cup Pairs(edges, q)
      /\ \A q \in PE \ {p} : \A i \in c.out[q] \cup Pairs(edges, q) :
           \/ i \in s.out[q]
           \/ \E n \in new : n.kind = "batch" /\ n.to = q /\ i \in n.body
      /\ \A n \in new :
           \/ n = Message("step", p, c.epoch, {})
           \/ /\ n.kind = "batch" /\ n.to \in PE
              /\ n.body \subseteq c.out[n.to] \cup Pairs(edges, n.to)
      /\ IF c.cursor + k = Len(LocalVertex[p]) THEN \A q \in PE : s.out[q] = {}
         ELSE Message("step", p, c.epoch, {}) \in new
  BY <1>1, SliceFields
<1>6. edges \subseteq Edge /\ \A e \in Edge : e \in edges <=> \E i \in 1..k : From[e] = LocalVertex[p][c.cursor + i]
  BY DEF NextEdges
<1> HIDE DEF s, new, edges
<1>7. View(p)' = s /\ \A q \in PE : q # p => View(q)' = View(q)
  BY <1>1, <1>2, <1>5, <1>3, <1>4 DEF View, Prepared
<1>8. /\ c.below \subseteq s.below /\ c.tight \subseteq s.tight
      /\ \A i \in Pairs(edges, p) : /\ i[2] < dist[i[1]] => i[1] \in s.below
                                    /\ i[2] = dist[i[1]] => i[1] \in s.tight
      /\ \A v \in s.below : v \in c.below \/ \E i \in Pairs(edges, p) : i[1] = v /\ i[2] < dist[v]
      /\ \A v \in s.tight : v \in c.tight \/ \E i \in Pairs(edges, p) : i[1] = v /\ i[2] = dist[v]
  BY <1>1, <1>5 DEF Noted, CertType
<1>9. \A e \in Edge : e \in Scanned(p)' <=> e \in Scanned(p) \/ e \in edges
  <2> TAKE e \in Edge
  <2>1. e \in Scanned(p)' <=> \E i \in 1..(c.cursor + k) : From[e] = LocalVertex[p][i]
    BY <1>5, <1>7 DEF Scanned
  <2>2. e \in Scanned(p) <=> \E i \in 1..c.cursor : From[e] = LocalVertex[p][i]
    BY <1>4 DEF Scanned
  <2>3. \A i \in 1..(c.cursor + k) : 
        i \in 1..c.cursor \/ (i - c.cursor \in 1..k /\ i = c.cursor + (i - c.cursor))
    BY <1>1
  <2>4. \A i \in 1..k : c.cursor + i \in 1..(c.cursor + k)
    BY <1>1
  <2>5. \A i \in 1..c.cursor : i \in 1..(c.cursor + k)
    BY <1>1
  <2> QED BY <1>6, <2>1, <2>2, <2>3, <2>4, <2>5
<1>10. \A q \in PE : q # p => Scanned(q)' = Scanned(q)
  BY <1>7 DEF Scanned
<1>11. \A e \in edges : dist[From[e]] # Lmax => PairOf(e) \in Pairs(edges, Owner[To[e]])
  BY DEF PairOf, Pairs
<1>12. \A q \in PE : Justified(q, Pairs(edges, q))
  <2> SUFFICES ASSUME NEW q \in PE, NEW e \in edges, dist[From[e]] # Lmax, Owner[To[e]] = q
               PROVE  dist[From[e]] + Weight[e] \in Candidates(dist, To[e])
    BY DEF Justified, Pairs
  <2> QED BY <1>6 DEF Candidates
<1>13. \A e \in Edge : Owner[To[e]] \in PE /\ PairOf(e)[1] = To[e] /\ PairOf(e)' = PairOf(e)
  BY SourceFacts, SourcesAssumption DEF PairOf
<1>14. \A i : Owner[i[1]] \in PE /\ IsNoted(i) => IsNoted(i)'
  BY <1>7, <1>4, <1>8 DEF IsNoted
<1>15. \A i : InBatch(i) => InBatch(i)'
  BY <1>3 DEF InBatch
<1>16. \A i : Owner[i[1]] \in PE \ {p} /\ i \in c.out[Owner[i[1]]] \cup Pairs(edges, Owner[i[1]]) =>
         Buffered(p, i)' \/ InBatch(i)'
  BY <1>5, <1>3, <1>7 DEF Buffered, InBatch
<1>17. c.out[p] = {}
  BY <1>4 DEF Counts, Scanning
<1>18. NoneLost'
  <2> SUFFICES ASSUME NEW q \in PE, NEW e \in Scanned(q)', dist[From[e]] # Lmax
               PROVE  IsNoted(PairOf(e))' \/ Buffered(q, PairOf(e))' \/ InBatch(PairOf(e))'
    BY DEF NoneLost
  <2>1. e \in Edge
    BY DEF Scanned
  <2>2. CASE e \in Scanned(q)
    <3>1. IsNoted(PairOf(e)) \/ Buffered(q, PairOf(e)) \/ InBatch(PairOf(e))
      BY <2>2 DEF Counts, NoneLost
    <3>2. CASE Buffered(q, PairOf(e)) /\ q # p
      BY <1>7, <1>13, <2>1, <3>2 DEF Buffered
    <3>3. CASE Buffered(q, PairOf(e)) /\ q = p
      BY <1>4, <1>13, <1>16, <1>17, <2>1, <3>3 DEF Buffered
    <3> QED BY <1>13, <1>14, <1>15, <2>1, <3>1, <3>2, <3>3
  <2>3. CASE e \notin Scanned(q)
    <3>1. q = p /\ e \in edges
      BY <1>9, <1>10, <2>1, <2>3
    <3>2. PairOf(e) \in Pairs(edges, Owner[To[e]])
      BY <1>11, <3>1
    <3>3. CASE Owner[To[e]] = p
      BY <1>7, <1>8, <1>13, <2>1, <3>2, <3>3 DEF IsNoted
    <3>4. CASE Owner[To[e]] # p
      BY <1>13, <1>16, <2>1, <3>1, <3>2, <3>4
    <3> QED BY <3>3, <3>4
  <2> QED BY <2>2, <2>3
<1>19. NoneInvented'
  <2>1. ASSUME NEW q \in PE, NEW v \in View(q)'.below
        PROVE  Owner[v] = q /\ \E d \in Candidates(dist, v) : d < dist[v]
    BY <1>7, <1>4, <1>8, <1>12, <2>1 DEF Counts, NoneInvented, Justified
  <2>2. ASSUME NEW q \in PE, NEW v \in View(q)'.tight PROVE dist[v] \in Candidates(dist, v)
    BY <1>7, <1>4, <1>8, <1>12, <2>2 DEF Counts, NoneInvented, Justified
  <2>3. \A q, r \in PE : Justified(r, View(q)'.out[r])
    BY <1>5, <1>7, <1>4, <1>12 DEF Counts, NoneInvented, Justified
  <2>4. ASSUME NEW q \in PE PROVE View(q)'.nonpositive <=> \E e \in Scanned(q)' : Weight[e] <= 0
    <3>1. CASE q # p
      BY <1>7, <1>10, <3>1 DEF Counts, NoneInvented
    <3>2. CASE q = p
      <4>1. c.nonpositive <=> \E e \in Scanned(p) : Weight[e] <= 0
        BY <1>4 DEF Counts, NoneInvented
      <4>2. Scanned(p)' = Scanned(p) \cup edges
        BY <1>6, <1>9 DEF Scanned
      <4> QED BY <1>5, <1>7, <3>2, <4>1, <4>2
    <3> QED BY <3>1, <3>2
  <2>5. \A n \in net' : n.kind = "batch" => Justified(n.to, n.body)
    <3>1. \A n \in new : n.kind = "batch" => n.to \in PE /\ n.body \subseteq c.out[n.to] \cup Pairs(edges, n.to)
      BY <1>5 DEF Message
    <3>2. \A q \in PE : Justified(q, c.out[q])
      BY <1>4 DEF Counts, NoneInvented
    <3>3. \A n \in net : n.kind = "batch" => Justified(n.to, n.body)
      BY DEF Counts, NoneInvented
    <3> QED BY <1>3, <1>12, <3>1, <3>2, <3>3 DEF Justified
  <2> QED BY <2>1, <2>2, <2>3, <2>4, <2>5 DEF NoneInvented, Justified
<1>20. Scanning'
  <2>1. m = Message(m.kind, p, main.epoch, {})
    BY DEF Counts, Scanning
  <2>2. \A n \in net : n.kind \in {"certify_start", "step"} /\ n.to = p => n = m
    BY <2>1 DEF Counts, Scanning
  <2>3. \A n \in new : n.kind \in {"certify_start", "step"} => n = Message("step", p, main.epoch, {})
    BY <1>1, <1>5
  <2>4. LET n == Message("step", p, main.epoch, {}) IN n.kind = "step" /\ n.to = p
    BY DEF Message
  <2>5. \A n \in net' : n.kind \in {"certify_start", "step"} => n = Message(n.kind, n.to, main.epoch, {})
    BY <1>3, <2>3, <2>4 DEF Counts, Scanning
  <2>6. \A n \in net' : n.kind = "certify_start" => n \in net /\ n.to # p
    BY <1>3, <2>2, <2>3, <2>4
  <2>7. \A n \in net' : n.kind = "certify_start" => \A l \in net' : ~(l.kind = "step" /\ l.to = n.to)
    BY <1>3, <2>3, <2>4, <2>6 DEF Counts, Scanning
  <2>8. \A q \in PE : View(q)'.cursor <= Len(LocalVertex[q]) /\ View(q)'.out[q] = {}
    BY <1>1, <1>5, <1>7, <1>4, LocalFacts DEF Counts, Scanning
  <2>9. ASSUME NEW q \in PE, \A n \in net' : ~(n.kind \in {"certify_start", "step"} /\ n.to = q)
        PROVE  /\ cert'[q].epoch = main.epoch /\ View(q)'.cursor = Len(LocalVertex[q])
               /\ \A r \in PE : View(q)'.out[r] = {}
    <3>1. CASE q = p
      BY <1>1, <1>2, <1>5, <1>3, <1>7, <2>4, <2>9, <3>1
    <3>2. CASE q # p
      BY <1>2, <1>3, <1>7, <2>9, <3>2 DEF Counts, Scanning
    <3> QED BY <3>1, <3>2
  <2> QED BY <2>5, <2>7, <2>8, <2>9 DEF Scanning
<1>21. \A n \in net' : n.kind # "collect"
  BY <1>5, <1>3 DEF Counts, Message
<1> QED BY <1>18, <1>19, <1>20, <1>21 DEF Counts

LEMMA CountBatch ==
  ASSUME TypeOK, Counts, NEW p \in PE, NEW m \in net, m.kind = "batch", m.to = p,
         net' = net \ {m}, cert' = [cert EXCEPT ![p] = Noted(View(p), m.body)],
         main' = main, dist' = dist
  PROVE  Counts'
<1> DEFINE c == View(p)
           s == Noted(c, m.body)
<1>1. c \in CertType /\ c.epoch = main.epoch /\ cert \in [PE -> CertType]
  BY ViewType DEF TypeOK
<1>2. /\ s.epoch = c.epoch /\ s.cursor = c.cursor /\ s.nonpositive = c.nonpositive /\ s.out = c.out
      /\ c.below \subseteq s.below /\ c.tight \subseteq s.tight
      /\ \A i \in m.body : /\ i[2] < dist[i[1]] => i[1] \in s.below
                           /\ i[2] = dist[i[1]] => i[1] \in s.tight
      /\ \A v \in s.below : v \in c.below \/ \E i \in m.body : i[1] = v /\ i[2] < dist[v]
      /\ \A v \in s.tight : v \in c.tight \/ \E i \in m.body : i[1] = v /\ i[2] = dist[v]
  BY <1>1 DEF Noted, CertType
<1>3. cert' = [cert EXCEPT ![p] = s] /\ c = View(p)
  OBVIOUS
<1> HIDE DEF c, s
<1>4. View(p)' = s /\ \A q \in PE : q # p => View(q)' = View(q)
  BY <1>1, <1>2, <1>3 DEF View, Prepared
<1>5. \A q \in PE : /\ View(q)'.cursor = View(q).cursor /\ View(q)'.out = View(q).out
                    /\ View(q)'.nonpositive = View(q).nonpositive /\ Scanned(q)' = Scanned(q)
  BY <1>2, <1>3, <1>4 DEF Scanned
<1>6. Justified(p, m.body)
  BY DEF Counts, NoneInvented
<1>7. \A e \in Edge : Owner[To[e]] \in PE /\ PairOf(e)[1] = To[e] /\ PairOf(e)' = PairOf(e)
  BY SourceFacts, SourcesAssumption DEF PairOf
<1>8. \A i : Owner[i[1]] \in PE /\ IsNoted(i) => IsNoted(i)'
  BY <1>2, <1>3, <1>4 DEF IsNoted
<1>9. \A i : InBatch(i) => InBatch(i)' \/ IsNoted(i)'
  BY <1>2, <1>4 DEF InBatch, IsNoted
<1>10. NoneLost'
  <2> SUFFICES ASSUME NEW q \in PE, NEW e \in Scanned(q), dist[From[e]] # Lmax
               PROVE  IsNoted(PairOf(e))' \/ Buffered(q, PairOf(e))' \/ InBatch(PairOf(e))'
    BY <1>5 DEF NoneLost
  <2>1. e \in Edge
    BY DEF Scanned
  <2>2. IsNoted(PairOf(e)) \/ Buffered(q, PairOf(e)) \/ InBatch(PairOf(e))
    BY DEF Counts, NoneLost
  <2>3. Buffered(q, PairOf(e)) => Buffered(q, PairOf(e))'
    BY <1>5, <1>7, <2>1 DEF Buffered
  <2> QED BY <1>7, <1>8, <1>9, <2>1, <2>2, <2>3
<1>11. NoneInvented'
  <2>1. ASSUME NEW q \in PE, NEW v \in View(q)'.below
        PROVE  Owner[v] = q /\ \E d \in Candidates(dist, v) : d < dist[v]
    BY <1>2, <1>3, <1>4, <1>6, <2>1 DEF Counts, NoneInvented, Justified
  <2>2. ASSUME NEW q \in PE, NEW v \in View(q)'.tight PROVE dist[v] \in Candidates(dist, v)
    BY <1>2, <1>3, <1>4, <1>6, <2>2 DEF Counts, NoneInvented, Justified
  <2> QED BY <1>5, <2>1, <2>2 DEF Counts, NoneInvented, Justified
<1>12. Scanning'
  <2>1. \A q \in PE : cert[q].epoch = main.epoch => cert'[q].epoch = main.epoch
    BY <1>1, <1>2, <1>3
  <2>2. \A n \in net : n.kind \in {"certify_start", "step"} => n \in net'
    OBVIOUS
  <2> QED BY <1>5, <2>1, <2>2 DEF Counts, Scanning
<1> QED BY <1>10, <1>11, <1>12 DEF Counts

\* When nothing is on its way, what a PE has counted is what there is.
LEMMA CountComplete ==
  ASSUME TypeOK, Counts, net = {}, NEW p \in PE
  PROVE  cert[p].epoch = main.epoch /\ (Bad(p, cert[p]) <=> BadPE(p))
<1>1. \A q \in PE : /\ cert[q].epoch = main.epoch /\ View(q) = cert[q]
                    /\ View(q).cursor = Len(LocalVertex[q]) /\ \A r \in PE : View(q).out[r] = {}
  BY ViewType DEF Counts, Scanning
<1>2. \A q \in PE : \A e \in Edge : e \in Scanned(q) <=> Owner[From[e]] = q
  <2> TAKE q \in PE
  <2> TAKE e \in Edge
  <2>1. e \in Scanned(q) <=> \E i \in 1..Len(LocalVertex[q]) : From[e] = LocalVertex[q][i]
    BY <1>1 DEF Scanned
  <2>2. From[e] \in Vertex
    BY SourceFacts
  <2> QED BY <2>1, <2>2, LocalFacts DEF Own
<1>3. \A e \in Edge : dist[From[e]] # Lmax => IsNoted(PairOf(e))
  <2> SUFFICES ASSUME NEW e \in Edge, dist[From[e]] # Lmax PROVE IsNoted(PairOf(e))
    OBVIOUS
  <2>1. Owner[From[e]] \in PE /\ e \in Scanned(Owner[From[e]]) /\ Owner[To[e]] \in PE
    BY <1>2, SourceFacts, SourcesAssumption
  <2>2. ~Buffered(Owner[From[e]], PairOf(e)) /\ ~InBatch(PairOf(e))
    BY <1>1, <2>1 DEF Buffered, InBatch, PairOf
  <2> QED BY <2>1, <2>2 DEF Counts, NoneLost
<1>4. \A v \in Own(p) : \A c \in Candidates(dist, v) :
        (c < dist[v] => v \in cert[p].below) /\ (c = dist[v] => v \in cert[p].tight)
  <2> SUFFICES ASSUME NEW v \in Own(p), NEW e \in Edge, To[e] = v, dist[From[e]] # Lmax
               PROVE  LET c == dist[From[e]] + Weight[e]
                      IN  (c < dist[v] => v \in cert[p].below) /\ (c = dist[v] => v \in cert[p].tight)
    BY DEF Candidates
  <2>1. Owner[v] = p
    BY DEF Own
  <2> QED BY <1>1, <1>3, <2>1 DEF IsNoted, PairOf
<1>5. \A v \in cert[p].below : v \in Own(p) /\ \E c \in Candidates(dist, v) : c < dist[v]
  BY <1>1, ViewType DEF Counts, NoneInvented, Own, CertType
<1>6. \A v \in cert[p].tight : dist[v] \in Candidates(dist, v)
  BY <1>1 DEF Counts, NoneInvented
<1>7. cert[p].nonpositive <=> \E e \in Edge : Owner[From[e]] = p /\ Weight[e] <= 0
  <2>1. cert[p].nonpositive <=> \E e \in Scanned(p) : Weight[e] <= 0
    BY <1>1 DEF Counts, NoneInvented
  <2>2. Scanned(p) \subseteq Edge
    BY DEF Scanned
  <2> QED BY <1>2, <2>1, <2>2
<1>8. cert[p].below # {} <=> \E v \in Own(p) : \E c \in Candidates(dist, v) : c < dist[v]
  BY <1>4, <1>5
<1>9. \A v \in Own(p) : v \in cert[p].tight <=> dist[v] \in Candidates(dist, v)
  BY <1>4, <1>6
<1> QED BY <1>1, <1>7, <1>8, <1>9 DEF Bad, BadPE

\* No PE is bad if and only if the answer as a whole is accepted.
LEMMA AcceptedByAll ==
  ASSUME TypeOK
  PROVE  (\E p \in PE : BadPE(p)) <=> ~Accepted(Source, dist)
<1>1. Source \in Vertex
  BY MainEpoch
<1>2. \A v \in Vertex : Owner[v] \in PE /\ v \in Own(Owner[v])
  BY SourcesAssumption DEF Own
<1>3. \A p \in PE : Own(p) \subseteq Vertex
  BY DEF Own
<1>4. \A e \in Edge : Owner[From[e]] \in PE /\ Weight[e] \in Nat
  BY SourceFacts, SourcesAssumption
<1>5. \A v \in Vertex : dist[v] \in Nat /\ \A c \in Candidates(dist, v) : c \in Nat
  <2>1. \A v \in Vertex : dist[v] \in Nat
    BY SourceFacts DEF TypeOK
  <2> QED BY <2>1, SourceFacts DEF Candidates
<1>6. (\E p \in PE : \E v \in Own(p) : \E c \in Candidates(dist, v) : c < dist[v]) <=> ~NoViolation(dist)
  BY <1>2, <1>3, <1>5 DEF NoViolation
<1>7. (\E p \in PE : \E e \in Edge : Owner[From[e]] = p /\ Weight[e] <= 0) <=> ~Positive
  BY <1>4 DEF Positive
<1>8. (\E p \in PE : \E v \in Own(p) : IF v = Source THEN dist[v] # 0
                                       ELSE dist[v] # Lmax /\ dist[v] \notin Candidates(dist, v))
      <=> ~(Tight(Source, dist) /\ dist[Source] = 0)
  BY <1>1, <1>2, <1>3 DEF Tight
<1> QED BY <1>6, <1>7, <1>8 DEF BadPE, Accepted

\* Until the certificate, no step touches what it counts.
LEMMA BeforeSteps ==
  ASSUME LifeInv, Next, Uncounted
  PROVE  \/ \E kind \in {"print", "print_partial"} : DoneVerify(kind)
         \/ /\ main'.qd = None /\ main'.exit = None /\ main'.parts = main.parts
            /\ \A m \in net' : m.kind # "collect"
            /\ red'["sums"] = {} /\ red'["max"] = {}
<1> DEFINE Goal ==
      /\ main'.qd = None /\ main'.exit = None /\ main'.parts = main.parts
      /\ \A m \in net' : m.kind # "collect"
      /\ red'["sums"] = {} /\ red'["max"] = {}
<1> USE DEF solver
<1>1. /\ main.qd = None /\ \A m \in net : m.kind \notin Started
      /\ red["sums"] = {} /\ red["max"] = {} /\ red \in [Reductions -> SUBSET PE]
      /\ main \in MainType /\ TypeOK
  BY DEF LifeInv, NotStarted, TypeOK
<1>2. None # "certify" /\ None # "advance"
  BY SourcesAssumption
<1>3. CASE StartSource
  BY <1>1, <1>3 DEF StartSource, Running, Message, MainType, Reductions, Started
<1>4. CASE StartReductions
  BY <1>1, <1>4, BroadcastIs DEF StartReductions, Running, Started
<1>5. CASE FastExit
  <2>1. main'.qd = main.qd /\ main'.exit = None /\ main'.parts = main.parts
    BY <1>1, <1>5 DEF FastExit, Running, MainType
  <2> QED BY <1>1, <1>5, <2>1, BroadcastIs DEF FastExit, Started
<1>6. ASSUME NEW p \in PE, ProcessUpdate(p) \/ DelayedContribute(p) PROVE Goal
  BY <1>1, <1>6 DEF ProcessUpdate, DelayedContribute, Contributed, Running, Started, Reductions
<1>7. ASSUME NEW p \in PE, ProcessHeap(p) PROVE Goal
  BY <1>1, <1>7 DEF ProcessHeap, Relaxations, Message, Running, Started
<1>8. ASSUME NEW p \in PE, CurrentThresholds(p) PROVE Goal
  <2>1. \A m \in Flushed(p) : m.kind = "hints"
    BY <1>1, HintsType
  <2> QED BY <1>1, <1>8, <2>1 DEF CurrentThresholds, Handle, Contributed, Running, Started, Reductions
<1>9. ASSUME NEW p \in PE, ContributeHistogram(p) \/ PrintDistances(p) \/ ResetForSource(p) PROVE Goal
  BY <1>1, <1>9 DEF ContributeHistogram, PrintDistances, ResetForSource, Handle, Nothing, Contributed,
                    Running, Started, Reductions
<1>10. ASSUME NEW n \in Processes, ReceiveHints(n) PROVE Goal
  BY <1>1, <1>10 DEF ReceiveHints, Running, Started
<1>11. CASE Converge \/ NextRound
  <2>1. main'.qd = main.qd /\ main'.exit = None /\ main'.parts = main.parts
    BY <1>1, <1>11 DEF Converge, NextRound, Running, MainType
  <2>2. red'["sums"] = red["sums"] /\ red'["max"] = red["max"]
    BY <1>1, <1>11 DEF Converge, NextRound, Reductions
  <2>3. \A m \in net' : m.kind # "collect"
    BY <1>1, <1>11, BroadcastIs DEF Converge, NextRound, Started
  <2> QED BY <1>1, <2>1, <2>2, <2>3
<1>12. ASSUME NEW p \in PE, CertifyStart(p) \/ CertifyStep(p) \/ CertifyBatch(p) \/ CertifyCollect(p)
       PROVE  FALSE
  BY <1>1, <1>12 DEF CertifyStart, CertifyStep, CertifySlice, CertifyBatch, CertifyCollect, Handle, Started
<1>13. ASSUME NEW r \in {"sums", "max"}, CertifyPart(r) PROVE FALSE
  BY <1>1, <1>13, SourceFacts DEF CertifyPart, Reduced
<1>14. ~CertifyQuiet /\ ~AdvanceSource
  BY <1>1, <1>2 DEF CertifyQuiet, AdvanceSource
<1> QED BY <1>3, <1>4, <1>5, <1>6, <1>7, <1>8, <1>9, <1>10, <1>11, <1>12, <1>13, <1>14
        DEF Next, OnPE, OnMainPE

\* From then on, only the certificate moves, and old hints and timers.
Still ==
  /\ UNCHANGED <<main, red, cert, dist>> /\ net' \subseteq net
  /\ \A m \in net : m.kind # "hints" => m \in net'

LEMMA AfterSteps ==
  ASSUME LifeInv, Next, ~Uncounted
  PROVE  \/ \E p \in PE : CertifyStart(p) \/ CertifyStep(p) \/ CertifyBatch(p) \/ CertifyCollect(p)
         \/ \E r \in {"sums", "max"} : CertifyPart(r)
         \/ CertifyQuiet \/ AdvanceSource \/ Still
<1> USE DEF solver
<1>1. /\ ~main.running /\ ~main.truncated /\ ~Resetting
      /\ red["print"] = {} /\ \A m \in net : m.kind \notin {"print", "print_partial"}
      /\ red["print_partial"] = {} /\ TypeOK
  BY DEF Uncounted, LifeInv, PrintOnce
<1>2. NoToken /\ ~Live /\ red["histogram"] = {}
  BY <1>1 DEF LifeInv, Idle
<1>3. ~StartSource
  BY <1>1, SourceFacts DEF StartSource, Reduced, Resetting
<1>4. ~StartReductions
  BY <1>2 DEF StartReductions, NoToken
<1>5. FastExit => Still
  BY <1>1 DEF FastExit, Still
<1>6. \A p \in PE : ~ProcessUpdate(p) /\ ~ProcessHeap(p)
  BY <1>2 DEF ProcessUpdate, ProcessHeap, Live
<1>7. \A p \in PE : ~ContributeHistogram(p) /\ ~CurrentThresholds(p) /\ ~DelayedContribute(p)
  BY <1>2 DEF ContributeHistogram, CurrentThresholds, DelayedContribute, Handle, NoToken, Rounds
<1>8. \A p \in PE : ~PrintDistances(p) /\ ~ResetForSource(p)
  BY <1>1 DEF PrintDistances, ResetForSource, Handle, Resetting
<1>9. \A n \in Processes : ReceiveHints(n) => Still
  BY DEF ReceiveHints, Still
<1>10. ~Converge /\ ~NextRound
  BY <1>2, SourceFacts DEF Converge, NextRound, Reduced
<1>11. \A kind \in {"print", "print_partial"} : ~DoneVerify(kind)
  BY <1>1, SourceFacts DEF DoneVerify, Reduced
<1> QED BY <1>3, <1>4, <1>5, <1>6, <1>7, <1>8, <1>9, <1>10, <1>11 DEF Next, OnPE, OnMainPE

LEMMA BroadcastAll ==
  ASSUME NEW kind, NEW p \in PE
  PROVE  \E m \in Broadcast(kind) : m.kind = kind /\ m.to = p
<1>1. Message(kind, p, main.epoch, {}) \in Broadcast(kind)
  BY DEF Broadcast
<1>2. Message(kind, p, main.epoch, {}).kind = kind /\ Message(kind, p, main.epoch, {}).to = p
  BY DEF Message
<1> QED BY <1>1, <1>2

\* The certificate begins from nothing.
LEMMA CountStart ==
  ASSUME TypeOK, TypeOK', Uncounted, NotStarted,
         net' = net \cup Broadcast("certify_start"), cert' = cert,
         main'.epoch = main.epoch, main'.qd = "certify"
  PROVE  Counts'
<1>1. \A p \in PE : cert[p].epoch < main.epoch /\ cert[p].epoch \in Nat /\ main.epoch \in Nat
  BY MainEpoch DEF NotStarted, TypeOK, CertType
<1>2. \A p \in PE : View(p)' = Fresh(main.epoch)
  BY <1>1 DEF View, Prepared
<1>3. \A p \in PE : /\ View(p)'.cursor = 0 /\ View(p)'.below = {} /\ View(p)'.tight = {}
                    /\ ~View(p)'.nonpositive /\ \A q \in PE : View(p)'.out[q] = {}
  BY <1>2 DEF Fresh
<1>4. \A p \in PE : Scanned(p)' = {}
  BY <1>3 DEF Scanned
<1>5. \A m \in net : m.kind \notin Started
  BY DEF NotStarted
<1>6. \A m \in net' : m.kind \in Started =>
        /\ m.kind = "certify_start" /\ m = Message("certify_start", m.to, main.epoch, {})
  BY <1>5, BroadcastIs
<1>7. \A p \in PE : \E m \in net' : m.kind = "certify_start" /\ m.to = p
  BY BroadcastAll
<1>8. NoneLost'
  BY <1>4 DEF NoneLost
<1>9. NoneInvented'
  BY <1>3, <1>4, <1>6 DEF NoneInvented, Justified, Started
<1>10. Scanning'
  BY <1>3, <1>6, <1>7, LocalFacts DEF Scanning, Started
<1> QED BY <1>6, <1>8, <1>9, <1>10 DEF Counts, Started

LEMMA StillStep ==
  ASSUME CertInv, Still
  PROVE  (Counting /\ Verdicts /\ Accepts)'
<1>1. /\ main' = main /\ red' = red /\ cert' = cert /\ dist' = dist /\ Source' = Source
      /\ net' \subseteq net /\ \A m \in net : m.kind # "hints" => m \in net'
  BY DEF Still, Source
<1>2. /\ \A p \in PE : View(p)' = View(p) /\ Scanned(p)' = Scanned(p)
      /\ \A e : PairOf(e)' = PairOf(e)
      /\ \A i : (IsNoted(i)' <=> IsNoted(i)) /\ (InBatch(i) => InBatch(i)')
      /\ \A p \in PE : \A i : Buffered(p, i)' <=> Buffered(p, i)
  BY <1>1 DEF View, Prepared, Scanned, PairOf, IsNoted, InBatch, Buffered
<1>3. Counting'
  <2> SUFFICES ASSUME Counts PROVE Counts'
    BY <1>1 DEF Counting, CertInv
  <2>1. NoneLost'
    BY <1>1, <1>2 DEF Counts, NoneLost
  <2>2. NoneInvented'
    BY <1>1, <1>2 DEF Counts, NoneInvented, Justified
  <2>3. Scanning'
    BY <1>1, <1>2 DEF Counts, Scanning
  <2> QED BY <1>1, <2>1, <2>2, <2>3 DEF Counts
<1>4. Judging' <=> Judging
  BY <1>1 DEF Judging
<1>5. \A p \in PE : BadPE(p)' = BadPE(p) /\ Bad(p, cert[p])' = Bad(p, cert[p])
  BY <1>1 DEF BadPE, Bad, Own
<1>6. Verdicts'
  BY <1>1, <1>4, <1>5 DEF CertInv, Verdicts, Judges
<1>7. Accepts'
  BY <1>1 DEF CertInv, Accepts
<1> QED BY <1>3, <1>6, <1>7

LEMMA CertStep == CertInv /\ LifeInv' /\ Next => (Counting /\ Verdicts /\ Accepts)'
<1> SUFFICES ASSUME CertInv, LifeInv', Next PROVE (Counting /\ Verdicts /\ Accepts)'
  OBVIOUS
<1> USE DEF solver
<1>1. /\ LifeInv /\ Counting /\ Verdicts /\ Accepts /\ TypeOK /\ TypeOK' /\ NotStarted
      /\ main \in MainType /\ cert \in [PE -> CertType] /\ red \in [Reductions -> SUBSET PE]
  BY DEF CertInv, LifeInv, TypeOK
<1>2. /\ None # "certify" /\ None # "advance" /\ None # 0 /\ None # 1
  BY SourcesAssumption
<1>3. CASE Uncounted
  <2>1. main.qd = None /\ ~Judging /\ main.parts = 0
    BY <1>1, <1>3 DEF NotStarted, Started, Judging, Verdicts
  <2>2. CASE /\ main'.qd = None /\ main'.exit = None /\ main'.parts = main.parts
             /\ \A m \in net' : m.kind # "collect"
             /\ red'["sums"] = {} /\ red'["max"] = {}
    BY <1>2, <2>1, <2>2 DEF Counting, Verdicts, Judging, Accepts
  <2>3. ASSUME NEW kind \in {"print", "print_partial"}, DoneVerify(kind)
        PROVE  (Counting /\ Verdicts /\ Accepts)'
    <3>1. main.exit = None /\ ~main.running /\ red["sums"] = {} /\ red["max"] = {}
      BY <1>1, <1>3, <2>3, SourceFacts
         DEF DoneVerify, Running, Reduced, LifeInv, Ended, NotStarted
    <3>2. /\ red' = [red EXCEPT ![kind] = {}] /\ UNCHANGED <<dist, cert>>
          /\ \A m \in net' : m.kind # "collect"
      BY <1>1, <1>3, <2>3, BroadcastIs DEF DoneVerify, NotStarted, Started
    <3>3. ~Judging'
      BY <1>1, <3>1, <3>2 DEF Judging, Reductions
    <3>4. CASE Certify /\ ~main.truncated
      <4>1. /\ main'.qd = "certify" /\ main'.epoch = main.epoch /\ main'.exit = None
            /\ main'.parts = main.parts /\ net' = net \cup Broadcast("certify_start")
        BY <1>1, <2>3, <3>1, <3>4 DEF DoneVerify, MainType
      <4>2. Counts'
        BY <1>1, <1>3, <3>2, <4>1, CountStart
      <4> QED BY <1>2, <2>1, <3>3, <4>1, <4>2 DEF Counting, Verdicts, Accepts
    <3>5. CASE ~(Certify /\ ~main.truncated)
      <4>1. main' = CheckDigest(main)
        BY <2>3, <3>5 DEF DoneVerify
      <4>2. main'.parts = main.parts /\ main'.epoch = main.epoch /\ main'.running = main.running
            /\ main'.truncated = main.truncated /\ main'.qd # "certify"
        BY <1>1, <1>2, <2>1, <4>1, DigestType
      <4>3. main'.qd = "advance" \/ main'.exit = 0 =>
              ~main.truncated /\ (Verify => IsShortestFrom(Source, dist))
        BY <1>1, <1>2, <2>1, <3>1, <4>1 DEF CheckDigest, FinishSource, MainType
      <4>4. Source' = Source
        BY <4>2 DEF Source
      <4> QED BY <2>1, <3>1, <3>2, <3>3, <3>5, <4>2, <4>3, <4>4 DEF Counting, Verdicts, Accepts
    <3> QED BY <3>4, <3>5
  <2> QED BY <1>1, <1>3, <2>2, <2>3, BeforeSteps
<1>4. CASE ~Uncounted
  <2>1. ~main.running /\ ~main.truncated
    BY <1>4 DEF Uncounted
  <2>2. CASE Still
    BY <2>2, StillStep
  <2>3. ASSUME NEW p \in PE, CertifyStart(p) \/ CertifyStep(p) \/ CertifyBatch(p)
        PROVE  (Counting /\ Verdicts /\ Accepts)'
    <3>1. UNCHANGED <<main, red, dist>> /\ main.exit = None
      BY <2>3 DEF CertifyStart, CertifyStep, CertifySlice, CertifyBatch, Running
    <3>2. \E m \in net : m.kind \in {"certify_start", "step", "batch"}
      BY <2>3 DEF CertifyStart, CertifyStep, CertifySlice, CertifyBatch, Handle
    <3>3. ~Judging
      BY <1>1, <3>2 DEF Verdicts, Judges
    <3>4. \A m \in net' : m.kind = "collect" => m \in net
      <4>1. ASSUME NEW kind, NEW c \in CertType, CertifySlice(p, kind, c)
            PROVE  \A m \in net' : m.kind = "collect" => m \in net
        <5>1. PICK k \in 0..(Len(LocalVertex[p]) - c.cursor), full \in SUBSET (PE \ {p}) :
                Handle(p, kind, LAMBDA m : Slice(p, c, k, full).messages)
          BY <4>1 DEF CertifySlice
        <5>2. k \in Nat /\ full \in SUBSET PE
          BY DEF CertType
        <5> QED BY <1>1, <5>1, <5>2, SliceType DEF Handle
      <4>2. cert[p] \in CertType /\ Prepared(p, main.epoch) \in CertType
        BY <1>1, MainEpoch, PreparedType
      <4> QED BY <2>3, <4>1, <4>2 DEF CertifyStart, CertifyStep, CertifyBatch
    <3>5. ~Judging'
      BY <3>1, <3>3, <3>4 DEF Judging
    <3>6. Counting'
      <4> SUFFICES ASSUME Counts PROVE Counts'
        BY <1>1, <3>1 DEF Counting
      <4>1. ASSUME NEW kind \in {"certify_start", "step"}, CertifySlice(p, kind, View(p))
            PROVE  Counts'
        <5>1. PICK k \in 0..(Len(LocalVertex[p]) - View(p).cursor), full \in SUBSET (PE \ {p}) :
                /\ Handle(p, kind, LAMBDA m : Slice(p, View(p), k, full).messages)
                /\ cert' = [cert EXCEPT ![p] = Slice(p, View(p), k, full).state]
          BY <4>1 DEF CertifySlice
        <5>2. PICK m \in net : m.kind = kind /\ m.to = p
                /\ net' = (net \ {m}) \cup Slice(p, View(p), k, full).messages
          BY <5>1 DEF Handle
        <5>3. full \in SUBSET PE
          OBVIOUS
        <5> QED BY <1>1, <3>1, <5>1, <5>2, <5>3, CountSlice
      <4>2. CASE CertifyStart(p)
        BY <4>1, <4>2 DEF CertifyStart, View
      <4>3. CASE CertifyStep(p)
        <5>1. cert[p].epoch = main.epoch
          BY <1>1, <4>3 DEF CertifyStep, CertifySlice, Handle, LifeInv, SameRun
        <5>2. cert[p] = View(p)
          BY <1>1, <5>1, ViewType
        <5> QED BY <4>1, <4>3, <5>2 DEF CertifyStep
      <4>4. CASE CertifyBatch(p)
        <5>1. PICK m \in net : /\ m.kind = "batch" /\ m.to = p /\ net' = net \ {m}
                               /\ cert' = [cert EXCEPT ![p] = Noted(Prepared(p, m.epoch), m.body)]
          BY <4>4 DEF CertifyBatch
        <5>2. m.epoch = main.epoch
          BY <1>1, <5>1 DEF LifeInv, SameRun
        <5>3. cert' = [cert EXCEPT ![p] = Noted(View(p), m.body)]
          BY <5>1, <5>2 DEF View
        <5> QED BY <1>1, <3>1, <5>1, <5>3, CountBatch
      <4> QED BY <2>3, <4>2, <4>3, <4>4
    <3>7. Accepts'
      BY <1>1, <3>1 DEF Accepts, Source
    <3> QED BY <1>1, <3>1, <3>3, <3>5, <3>6, <3>7 DEF Verdicts
  <2>4. CASE CertifyQuiet
    <3>1. /\ main.exit = None /\ main.qd = "certify" /\ net = {} /\ red["sums"] = {} /\ red["max"] = {}
          /\ net' = Broadcast("collect") /\ UNCHANGED <<red, dist, cert>>
      BY <1>1, <2>4 DEF CertifyQuiet, Quiet, Running, Reductions
    <3>2. /\ main'.exit = None /\ main'.qd = None /\ main'.parts = main.parts /\ main'.epoch = main.epoch
          /\ ~main'.truncated
      BY <1>1, <2>1, <2>4, <3>1 DEF CertifyQuiet, MainType
    <3>3. main.parts = 0
      BY <1>1, <3>1 DEF Judging, Verdicts
    <3>4. \A p \in PE : cert[p].epoch = main.epoch /\ (Bad(p, cert[p]) <=> BadPE(p))
      BY <1>1, <3>1, CountComplete DEF Counting
    <3>5. \A p \in PE : BadPE(p)' = BadPE(p) /\ Bad(p, cert[p])' = Bad(p, cert[p])
      BY <3>1, <3>2 DEF BadPE, Bad, Own, Source
    <3>6. \A m \in net' : /\ m.kind = "collect" /\ m.to \in PE
                          /\ m = Message("collect", m.to, main'.epoch, {})
      BY <3>1, <3>2, BroadcastIs
    <3>7. \A p \in PE : \E m \in net' : m.to = p
      BY <3>1, BroadcastAll
    <3>8. Judges'
      BY <3>1, <3>2, <3>3, <3>4, <3>5, <3>6, <3>7 DEF Judges
    <3>9. Judging'
      BY <3>6, <3>7, SourceFacts DEF Judging
    <3> QED BY <1>2, <3>2, <3>8, <3>9 DEF Counting, Verdicts, Accepts
  <2>5. CASE AdvanceSource
    <3>1. /\ main.exit = None /\ main.qd = "advance" /\ net = {} /\ red["sums"] = {} /\ red["max"] = {}
          /\ net' = Broadcast("reset") /\ red' = red
      BY <1>1, <2>5 DEF AdvanceSource, Quiet, Running, Reductions
    <3>2. main'.exit = None /\ main'.qd = None /\ main'.parts = main.parts
      BY <1>1, <2>5, <3>1 DEF AdvanceSource, MainType
    <3>3. ~Judging /\ ~Judging'
      BY <3>1, BroadcastIs DEF Judging
    <3> QED BY <1>1, <1>2, <3>2, <3>3 DEF Counting, Verdicts, Accepts
  <2>6. ASSUME NEW p \in PE, CertifyCollect(p) PROVE (Counting /\ Verdicts /\ Accepts)'
    <3>1. PICK m \in net : m.kind = "collect" /\ m.to = p /\ net' = net \ {m}
      BY <2>6 DEF CertifyCollect, Handle, Nothing
    <3>2. Judging /\ Judges
      BY <1>1, <3>1 DEF Judging, Verdicts
    <3>3. main' = main /\ dist' = dist /\ main.exit = None
      BY <2>6 DEF CertifyCollect, Running
    <3>4. /\ red'["sums"] = red["sums"] \cup {p} /\ red'["max"] = red["max"] \cup {p}
      BY <1>1, <2>6 DEF CertifyCollect, Reductions
    <3>5. cert[p].epoch = main.epoch /\ (Bad(p, cert[p]) <=> BadPE(p)) /\ cert[p] \in CertType
      BY <1>1, <3>1, <3>2 DEF Judges
    <3>6. Prepared(p, main.epoch) = cert[p]
      BY <3>5 DEF Prepared
    <3>7. (cert'[p].bad <=> BadPE(p)) /\ \A q \in PE : q # p => cert'[q] = cert[q]
      <4> DEFINE c == cert[p]
                 bad == Bad(p, c)
                 new == [c EXCEPT !.bad = bad, !.tight = {}, !.out = [q \in PE |-> {}]]
      <4>1. cert' = [cert EXCEPT ![p] = new]
        BY <2>6, <3>6 DEF CertifyCollect
      <4>2. bad <=> BadPE(p)
        BY <3>5
      <4>3. bad \in BOOLEAN
        BY DEF Bad
      <4> HIDE DEF bad
      <4>4. new.bad = bad
        BY <3>5 DEF CertType
      <4> HIDE DEF new
      <4> QED BY <1>1, <4>1, <4>2, <4>4
    <3>8. \A q \in PE : BadPE(q)' = BadPE(q)
      BY <3>3 DEF BadPE, Own, Source
    <3>9. \A q \in PE : q # p => Bad(q, cert[q])' = Bad(q, cert[q])
      BY <3>3, <3>7 DEF Bad, Own, Source
    <3>10. main.parts = 0 /\ red["sums"] = red["max"]
           /\ \A q \in PE : q \in red["sums"] \/ \E n \in net : n.to = q
      BY <3>1, <3>2 DEF Judges
    <3>11. \A n \in net : n.to = p => n = m
      BY <3>1, <3>2 DEF Judges
    <3>12. /\ \A n \in net' : n \in net /\ n.to # p
           /\ \A q \in PE : q # p => ((\E n \in net' : n.to = q) <=> \E n \in net : n.to = q)
      BY <3>1, <3>11
    <3>13. Judges'
      <4>1. \A n \in net' : n.kind = "collect" /\ n = Message("collect", n.to, main.epoch, {})
        BY <3>2, <3>12 DEF Judges
      <4>2. \A n \in net' : n.to \in PE /\ n.to \notin red'["sums"] \cup red'["max"]
        BY <3>2, <3>4, <3>12 DEF Judges
      <4>3. \A q \in PE : IF \E n \in net' : n.to = q
                          THEN cert'[q].epoch = main.epoch /\ (Bad(q, cert[q])' <=> BadPE(q))
                          ELSE cert'[q].bad <=> BadPE(q)
        BY <3>2, <3>7, <3>9, <3>12 DEF Judges
      <4>4. red'["sums"] = red'["max"] /\ \A q \in PE : q \in red'["sums"] \/ \E n \in net' : n.to = q
        BY <3>4, <3>10, <3>12
      <4> QED BY <3>2, <3>3, <3>8, <3>10, <4>1, <4>2, <4>3, <4>4 DEF Judges
    <3>14. Judging'
      BY <3>4 DEF Judging
    <3>15. Counting' /\ Accepts'
      BY <1>1, <1>2, <3>2, <3>3 DEF Counting, Accepts, Judges
    <3> QED BY <3>13, <3>14, <3>15 DEF Verdicts
  <2>7. ASSUME NEW r \in {"sums", "max"}, CertifyPart(r) PROVE (Counting /\ Verdicts /\ Accepts)'
    <3> DEFINE bad == IF r = "sums" THEN \E p \in PE : cert[p].bad ELSE main.bad
               m == [main EXCEPT !.bad = bad]
               n == [m EXCEPT !.parts = 0]
    <3>1. red[r] = PE /\ red' = [red EXCEPT ![r] = {}] /\ main.exit = None
          /\ UNCHANGED <<net, dist, cert>> /\ bad \in BOOLEAN
      BY <1>1, <2>7, MainEpoch DEF CertifyPart, Reduced, Running
    <3>2. Judging /\ Judges
      BY <1>1, <3>1, SourceFacts DEF Judging, Verdicts
    <3>3. net = {} /\ \A p \in PE : cert[p].bad <=> BadPE(p)
      BY <3>1, <3>2 DEF Judges
    <3>4. main' = IF main.parts # 1 THEN [m EXCEPT !.parts = @ + 1]
                  ELSE IF bad THEN [m EXCEPT !.parts = 0, !.exit = 1] ELSE CheckDigest(n)
      <4>1. m.bad = bad
        BY <1>1 DEF MainType
      <4> QED BY <2>7, <4>1 DEF CertifyPart, Complete
    <3> HIDE DEF bad
    <3>5. m \in MainType /\ n \in MainType
      BY <1>1, <3>1 DEF MainType
    <3>6. /\ m.qd = None /\ m.exit = None /\ m.epoch = main.epoch /\ m.parts = main.parts /\ m.bad = bad
          /\ m.running = main.running /\ m.truncated = main.truncated
          /\ n.qd = None /\ n.exit = None /\ n.epoch = main.epoch /\ n.parts = 0
          /\ n.running = main.running /\ n.truncated = main.truncated
      BY <1>1, <3>1, <3>2 DEF MainType, Judges
    <3> HIDE DEF m, n
    <3>7. CASE main.parts # 1
      <4>1. main.parts = 0
        BY <1>1, <3>7 DEF MainType
      <4>2. /\ main'.qd = None /\ main'.exit = None /\ main'.epoch = main.epoch /\ main'.parts = 1
            /\ main'.bad = bad /\ main'.truncated = main.truncated
        BY <3>4, <3>5, <3>6, <3>7, <4>1 DEF MainType
      <4>3. red["sums"] = PE /\ red["max"] = PE
        BY <3>1, <3>2, <4>1 DEF Judges
      <4>4. /\ red'[r] = {} /\ \A s \in {"sums", "max"} : s # r => red'[s] = PE
        BY <1>1, <3>1, <4>3 DEF Reductions
      <4>5. \A p \in PE : BadPE(p)' = BadPE(p)
        BY <3>1, <4>2 DEF BadPE, Own, Source
      <4>6. Judges'
        BY <2>1, <3>1, <3>3, <4>2, <4>4, <4>5 DEF Judges, bad
      <4>7. Judging'
        BY <4>4, SourceFacts DEF Judging
      <4> QED BY <1>2, <4>2, <4>6, <4>7 DEF Counting, Verdicts, Accepts
    <3>8. CASE main.parts = 1
      <4>1. \/ r = "sums" /\ red["max"] = {}
            \/ r = "max" /\ red["sums"] = {} /\ (main.bad <=> \E p \in PE : cert[p].bad)
        BY <3>1, <3>2, <3>8, SourceFacts DEF Judges
      <4>2. bad <=> \E p \in PE : cert[p].bad
        BY <4>1 DEF bad
      <4>3. bad <=> ~Accepted(Source, dist)
        BY <1>1, <3>3, <4>2, AcceptedByAll
      <4>4. ~Judging'
        BY <1>1, <3>1, <3>3, <4>1 DEF Judging, Reductions
      <4>5. CASE bad
        <5>1. main'.exit = 1 /\ main'.qd = None /\ main'.parts = 0
          BY <3>4, <3>5, <3>6, <3>8, <4>5 DEF MainType
        <5> QED BY <1>2, <4>4, <5>1 DEF Counting, Verdicts, Accepts
      <4>6. CASE ~bad
        <5>1. main' = CheckDigest(n)
          BY <3>4, <3>8, <4>6
        <5>2. main'.parts = 0 /\ main'.epoch = main.epoch /\ main'.running = main.running
              /\ main'.truncated = main.truncated /\ main'.qd # "certify"
          BY <1>2, <3>5, <3>6, <5>1, DigestType
        <5>3. main'.qd = "advance" \/ main'.exit = 0 => (Verify => IsShortestFrom(Source, dist))
          BY <1>2, <3>5, <3>6, <5>1 DEF CheckDigest, FinishSource, MainType
        <5>4. Source' = Source
          BY <5>2 DEF Source
        <5> QED BY <2>1, <3>1, <4>3, <4>4, <4>6, <5>2, <5>3, <5>4 DEF Counting, Verdicts, Accepts
      <4> QED BY <4>5, <4>6
    <3> QED BY <3>7, <3>8
  <2> QED BY <1>1, <1>4, <2>2, <2>3, <2>4, <2>5, <2>6, <2>7, AfterSteps
<1> QED BY <1>3, <1>4

-----------------------------------------------------------------------------
(* Results *)

LEMMA LifeInit == Init => LifeInv
<1> SUFFICES ASSUME Init PROVE LifeInv
  OBVIOUS
<1>1. TypeOK
  BY TypeInit
<1>2. /\ net = {} /\ timers = {} /\ main.epoch = 1 /\ main.qd = None
      /\ ~main.running /\ ~main.truncated
      /\ \A r \in Reductions \ {"reset"} : red[r] = {}
      /\ \A p \in PE : pe[p].epoch = 1 /\ pe[p].pq = {} /\ cert[p].epoch = 0
  BY DEF Init, Reductions, Fresh
<1>3. OneToken /\ Idle /\ Ended
  BY <1>2 DEF OneToken, Idle, NoToken, Live, Ended, Reductions
<1>4. ResetAlone /\ SameRun /\ PrintOnce /\ NotStarted
  BY <1>2 DEF ResetAlone, SameRun, PrintOnce, NotStarted, Reductions
<1> QED BY <1>1, <1>3, <1>4 DEF LifeInv

LEMMA LifeStutter == LifeInv /\ UNCHANGED vars => LifeInv'
BY DEF LifeInv, TypeOK, OneToken, Idle, NoToken, Live, Ended, Resetting, ResetAlone, SameRun,
       PrintOnce, Uncounted, NotStarted, vars

\* The runs follow one another: the types, one way to a contribution per PE, and
\* a reset with nothing else under way.
THEOREM LifeCycle == Spec => []LifeInv
<1>1. Init => LifeInv
  BY LifeInit
<1>2. LifeInv /\ [Next]_vars => LifeInv'
  BY LifeStep, LifeStutter, TypeStep DEF LifeInv
<1> QED BY <1>1, <1>2, PTL DEF Spec

\* reset_for_source() finds its PE with nothing queued, and no message or delayed
\* contribution of one run reaches a PE that is in another.
THEOREM RunsApart == Spec => []CleanStart
<1>1. LifeInv => CleanStart
  <2> SUFFICES ASSUME LifeInv PROVE CleanStart
    OBVIOUS
  <2>1. ASSUME NEW m \in net, m.kind # "reset", NEW p \in PE PROVE pe[p].epoch = m.epoch
    <3>1. ~Resetting
      BY <2>1 DEF LifeInv, ResetAlone, Message
    <3> QED BY <2>1, <3>1 DEF LifeInv, SameRun, Resetting
  <2>2. ASSUME NEW t \in timers, t.kind = "contribute" PROVE t.epoch = pe[t.pe].epoch
    <3>1. ~Resetting
      BY <2>2 DEF LifeInv, ResetAlone, Idle, NoToken
    <3>2. t.epoch = main.epoch /\ t.pe \in PE
      BY <2>2 DEF LifeInv, OneToken
    <3> QED BY <3>1, <3>2 DEF LifeInv, SameRun, Resetting
  <2>3. \A m \in net : m.kind = "reset" => pe[m.to].pq = {}
    BY DEF LifeInv, ResetAlone, Resetting
  <2> QED BY <2>1, <2>2, <2>3 DEF CleanStart
<1> QED BY <1>1, LifeCycle, PTL

LEMMA OnlyFastExit ==
  ASSUME TypeOK, Next, main.truncated', ~main.truncated
  PROVE  FastExit
<1> SUFFICES ASSUME ~FastExit PROVE main'.truncated = main.truncated
  OBVIOUS
<1> USE DEF solver
<1>1. main \in MainType
  BY DEF TypeOK
<1>2. StartSource \/ Converge \/ NextRound \/ CertifyQuiet \/ AdvanceSource => main'.truncated = main.truncated
  BY <1>1 DEF StartSource, Converge, NextRound, CertifyQuiet, AdvanceSource, MainType
<1>3. StartReductions => main' = main
  BY DEF StartReductions
<1>4. \A n \in Processes : ReceiveHints(n) => main' = main
  BY DEF ReceiveHints
<1>5. ASSUME NEW p \in PE, OnPE(p) PROVE main' = main
  BY <1>5 DEF OnPE, ProcessUpdate, ProcessHeap, ContributeHistogram, CurrentThresholds, DelayedContribute,
              PrintDistances, CertifyStart, CertifyStep, CertifySlice, CertifyBatch, CertifyCollect,
              ResetForSource
<1>6. ASSUME NEW kind \in {"print", "print_partial"}, DoneVerify(kind) PROVE main'.truncated = main.truncated
  <2>1. main' = [main EXCEPT !.qd = "certify"] \/ main' = CheckDigest(main)
    BY <1>6 DEF DoneVerify
  <2> QED BY <1>1, <2>1, DigestType DEF MainType
<1>7. ASSUME NEW r \in {"sums", "max"}, CertifyPart(r) PROVE main'.truncated = main.truncated
  <2> DEFINE bad == IF r = "sums" THEN \E p \in PE : cert[p].bad ELSE main.bad
             m == [main EXCEPT !.bad = bad]
             n == [m EXCEPT !.parts = 0]
  <2>1. bad \in BOOLEAN
    BY MainEpoch
  <2>2. \/ main' = [m EXCEPT !.parts = @ + 1] \/ main' = [m EXCEPT !.parts = 0, !.exit = 1]
        \/ main' = CheckDigest(n)
    BY <1>7 DEF CertifyPart
  <2> HIDE DEF bad
  <2>3. m \in MainType /\ m.truncated = main.truncated
    BY <1>1, <2>1 DEF MainType
  <2> HIDE DEF m
  <2>4. n \in MainType /\ n.truncated = main.truncated
    BY <2>3 DEF MainType
  <2> HIDE DEF n
  <2>5. main' = CheckDigest(n) => main'.truncated = main.truncated
    BY <2>4, DigestType
  <2>6. main' = [m EXCEPT !.parts = @ + 1] \/ main' = [m EXCEPT !.parts = 0, !.exit = 1]
          => main'.truncated = main.truncated
    BY <2>3 DEF MainType
  <2> QED BY <2>2, <2>5, <2>6
<1> QED BY <1>2, <1>3, <1>4, <1>5, <1>6, <1>7 DEF Next, OnMainPE

\* fast_exit() cuts a run short only for its own timer and before its end.
THEOREM TimeoutOfItsOwn == Spec => OnlyOwnTimeout
<1> DEFINE OwnTimeout ==
      main.truncated' /\ ~main.truncated =>
        /\ Timer("timeout", None, main.epoch) \in timers \ timers'
        /\ main.running
<1>1. LifeInv /\ [Next]_vars => [OwnTimeout]_vars
  <2> SUFFICES ASSUME LifeInv, Next, main.truncated', ~main.truncated
               PROVE  /\ Timer("timeout", None, main.epoch) \in timers \ timers'
                      /\ main.running
    OBVIOUS
  <2>1. FastExit
    BY OnlyFastExit DEF LifeInv
  <2>2. PICK t \in timers : t.kind = "timeout" /\ timers' = timers \ {t} /\ t.epoch = main.epoch
                            /\ main.running
    BY <2>1 DEF FastExit, Mine
  <2>3. t = Timer("timeout", None, main.epoch)
    BY <2>2 DEF LifeInv, TypeOK, Timers, Timer
  <2> QED BY <2>2, <2>3
<1> QED BY <1>1, LifeCycle, PTL DEF Spec, OnlyOwnTimeout

LEMMA CertInit == Init => CertInv
<1> SUFFICES ASSUME Init PROVE CertInv
  OBVIOUS
<1>1. LifeInv
  BY LifeInit
<1>2. /\ net = {} /\ main.qd = None /\ main.exit = None /\ main.parts = 0
      /\ red["sums"] = {} /\ red["max"] = {}
  BY DEF Init, Reductions
<1> QED BY <1>1, <1>2, SourcesAssumption DEF CertInv, Counting, Verdicts, Judging, Accepts

LEMMA CertCycle == Spec => []CertInv
<1>1. Init => CertInv
  BY CertInit
<1>2. CertInv /\ [Next]_vars => CertInv'
  <2> SUFFICES ASSUME CertInv, [Next]_vars PROVE CertInv'
    OBVIOUS
  <2>1. LifeInv'
    BY LifeStep, LifeStutter, TypeStep DEF CertInv, LifeInv
  <2>2. UNCHANGED vars => Still
    BY DEF Still, vars
  <2> QED BY <2>1, <2>2, CertStep, StillStep DEF CertInv
<1> QED BY <1>1, <1>2, PTL DEF Spec

\* However its slices, batches and starts are ordered, the certificate counted by
\* messages is the one of the whole.
THEOREM VerdictIsExact == Spec => []VerdictExact
<1>1. CertInv => VerdictExact
  <2> SUFFICES ASSUME CertInv, red["sums"] = PE
               PROVE  (\E p \in PE : cert[p].bad) <=> ~Accepted(Source, dist)
    BY DEF VerdictExact
  <2>1. Judges
    BY SourceFacts DEF CertInv, Verdicts, Judging
  <2>2. net = {}
    BY <2>1 DEF Judges
  <2>3. \A p \in PE : cert[p].bad <=> BadPE(p)
    BY <2>1, <2>2 DEF Judges
  <2> QED BY <2>3, AcceptedByAll DEF CertInv, LifeInv
<1> QED BY <1>1, CertCycle, PTL

\* With --certify or --verify the process goes on to the next source, or exits with
\* 0, only with shortest distances, whatever answer the solver announced.
THEOREM AcceptedAreShortest ==
  ASSUME Certify \/ Verify
  PROVE  Spec => []AcceptedIsShortest
<1>1. CertInv => AcceptedIsShortest
  <2> SUFFICES ASSUME CertInv, main.qd = "advance" \/ main.exit = 0
               PROVE  IsShortestFrom(Source, dist) /\ ~main.truncated
    BY DEF AcceptedIsShortest
  <2>1. /\ ~main.truncated
        /\ Certify => Accepted(Source, dist)
        /\ Verify => IsShortestFrom(Source, dist)
    BY DEF CertInv, Accepts
  <2>2. Source \in Vertex /\ dist \in [Vertex -> Distance]
    BY MainEpoch DEF CertInv, LifeInv, TypeOK
  <2> QED BY <2>1, <2>2, CertificateSound
<1> QED BY <1>1, CertCycle, PTL

-----------------------------------------------------------------------------
(* No false alarm *)

\* A PE that has been reset has nothing of the last run; the first of a process
\* has emptied its hints.
Cleared ==
  Resetting => \A p \in PE : pe[p].epoch = main.epoch =>
    /\ \A v \in Own(p) : dist[v] = Lmax
    /\ p \in First => /\ table[Process[p]] = [v \in Hub |-> Lmax]
                      /\ outbox[Process[p]] = {}

\* Nothing is sent or held that is nearer than the shortest distance.
NotBelow(v, d) == \A g \in PotentialFrom(Source) : g[v] <= d

Sound ==
  /\ \A v \in Vertex : NotBelow(v, dist[v])
  /\ \A m \in net : m.kind = "update" =>
       \E v \in Vertex : \E d \in Nat : m.body = {<<v, d>>} /\ NotBelow(v, d)

\* A hint is a distance its vertex has had in this run.
HintsOfRun ==
  /\ \A n \in Processes : \A v \in Hub : dist[v] <= table[n][v]
  /\ \A n \in Processes : \A i \in outbox[n] : dist[i[1]] <= i[2]
  /\ \A m \in net : m.kind = "hints" => \A i \in m.body : dist[i[1]] <= i[2]

\* The relaxation of an edge is done, or will be, or is on its way.
Sending(v, d) == \E m \in net : m.kind = "update" /\ m.body = {<<v, d>>}

Settling ==
  /\ dist[Source] = 0 \/ Sending(Source, 0)
  /\ \A e \in Edge : dist[From[e]] # Lmax =>
       \/ dist[To[e]] <= dist[From[e]] + Weight[e]
       \/ \E p \in PE : <<From[e], dist[From[e]]>> \in pe[p].pq
       \/ Sending(To[e], dist[From[e]] + Weight[e])

TableType == table \in [Processes -> [Hub -> Nat]]

Solving == ~Resetting /\ ~flawed => Sound /\ HintsOfRun /\ Settling


\* The steps that leave the solver and its messages alone.
Quietly ==
  /\ UNCHANGED <<dist, pe, table, outbox, flawed>> /\ main'.epoch = main.epoch
  /\ red'["reset"] = red["reset"]
  /\ \A m \in net \cup net' : m.kind \in {"update", "hints", "reset"} => (m \in net <=> m \in net')

LEMMA QuietStep ==
  ASSUME TableType, Cleared, Solving, Quietly
  PROVE  (TableType /\ Cleared /\ Solving)'
<1>1. Source' = Source /\ (Resetting' <=> Resetting)
  BY DEF Quietly, Source, Resetting
<1>2. \A v, d : (NotBelow(v, d)' <=> NotBelow(v, d)) /\ (Sending(v, d)' <=> Sending(v, d))
  BY <1>1 DEF Quietly, NotBelow, Sending
<1>3. TableType' /\ Cleared'
  BY <1>1 DEF Quietly, TableType, Cleared
<1>4. Sound => Sound'
  BY <1>2 DEF Quietly, Sound
<1>5. HintsOfRun => HintsOfRun'
  BY DEF Quietly, HintsOfRun
<1>6. Settling => Settling'
  BY <1>1, <1>2 DEF Quietly, Settling
<1> QED BY <1>1, <1>3, <1>4, <1>5, <1>6 DEF Solving, Quietly

\* Every step but these is one of them.
LEMMA QuietSteps ==
  ASSUME LifeInv, Next
  PROVE  \/ StartSource \/ (Converge /\ flawed') \/ AdvanceSource \/ Quietly
         \/ \E p \in PE : \/ ProcessUpdate(p) \/ ProcessHeap(p) \/ CurrentThresholds(p)
                          \/ ResetForSource(p)
         \/ \E n \in Processes : ReceiveHints(n)
<1> USE DEF solver
<1>1. main \in MainType /\ red \in [Reductions -> SUBSET PE]
  BY DEF LifeInv, TypeOK
<1>2. StartReductions => Quietly
  BY BroadcastIs DEF StartReductions, Quietly
<1>3. FastExit => Quietly
  BY <1>1, BroadcastIs DEF FastExit, Quietly, MainType
<1>4. \A p \in PE : ContributeHistogram(p) => Quietly
  BY <1>1 DEF ContributeHistogram, Handle, Nothing, Contributed, Reductions, Quietly
<1>5. \A p \in PE : DelayedContribute(p) => Quietly
  BY <1>1 DEF DelayedContribute, Contributed, Reductions, Quietly
<1>6. \A p \in PE : PrintDistances(p) => Quietly
  BY <1>1 DEF PrintDistances, Handle, Nothing, Contributed, Reductions, Quietly
<1>7. ASSUME NEW kind \in {"print", "print_partial"}, DoneVerify(kind) PROVE Quietly
  <2>1. main' = [main EXCEPT !.qd = "certify"] \/ main' = CheckDigest(main)
    BY <1>7 DEF DoneVerify
  <2>2. main'.epoch = main.epoch
    BY <1>1, <2>1, DigestType DEF MainType
  <2>3. net' = net \/ net' = net \cup Broadcast("certify_start")
    BY <1>7 DEF DoneVerify
  <2>4. red'["reset"] = red["reset"]
    BY <1>1, <1>7 DEF DoneVerify, Reductions
  <2> QED BY <1>7, <2>2, <2>3, <2>4, BroadcastIs DEF DoneVerify, Quietly
<1>8. ASSUME NEW p \in PE, CertifyStart(p) \/ CertifyStep(p) PROVE Quietly
  <2>1. ASSUME NEW kind \in {"certify_start", "step"}, NEW c \in CertType, CertifySlice(p, kind, c)
        PROVE  Quietly
    <3>1. PICK k \in 0..(Len(LocalVertex[p]) - c.cursor), full \in SUBSET (PE \ {p}) :
            /\ Handle(p, kind, LAMBDA m : Slice(p, c, k, full).messages)
            /\ UNCHANGED <<main, timers, red, pe, solver, flawed>>
      BY <2>1 DEF CertifySlice
    <3>2. k \in Nat /\ full \in SUBSET PE
      BY DEF CertType
    <3>3. \A m \in Slice(p, c, k, full).messages : m.kind \in {"batch", "step"}
      BY <3>2, SliceType DEF LifeInv
    <3>4. \A m \in net \cup net' : m.kind \in {"update", "hints", "reset"} => (m \in net <=> m \in net')
      BY <3>1, <3>3 DEF Handle
    <3> QED BY <3>1, <3>4 DEF Quietly
  <2>2. Prepared(p, main.epoch) \in CertType /\ cert[p] \in CertType
    BY PreparedType, MainEpoch DEF LifeInv, TypeOK
  <2> QED BY <1>8, <2>1, <2>2 DEF CertifyStart, CertifyStep
<1>9. \A p \in PE : CertifyBatch(p) => Quietly
  BY DEF CertifyBatch, Quietly
<1>10. \A p \in PE : CertifyCollect(p) => Quietly
  BY <1>1 DEF CertifyCollect, Handle, Nothing, Reductions, Quietly
<1>11. ASSUME NEW r \in {"sums", "max"}, CertifyPart(r) PROVE Quietly
  <2> DEFINE bad == IF r = "sums" THEN \E p \in PE : cert[p].bad ELSE main.bad
             m == [main EXCEPT !.bad = bad]
             n == [m EXCEPT !.parts = 0]
  <2>1. bad \in BOOLEAN
    BY MainEpoch DEF LifeInv
  <2>2. \/ main' = [m EXCEPT !.parts = @ + 1] \/ main' = [m EXCEPT !.parts = 0, !.exit = 1]
        \/ main' = CheckDigest(n)
    BY <1>11 DEF CertifyPart
  <2> HIDE DEF bad
  <2>3. m \in MainType /\ m.epoch = main.epoch
    BY <1>1, <2>1 DEF MainType
  <2> HIDE DEF m
  <2>4. n \in MainType /\ n.epoch = main.epoch
    BY <2>3 DEF MainType
  <2> HIDE DEF n
  <2>5. main' = CheckDigest(n) => main'.epoch = main.epoch
    BY <2>4, DigestType
  <2>6. main' = [m EXCEPT !.parts = @ + 1] \/ main' = [m EXCEPT !.parts = 0, !.exit = 1]
          => main'.epoch = main.epoch
    BY <2>3 DEF MainType
  <2>7. red'["reset"] = red["reset"]
    BY <1>1, <1>11 DEF CertifyPart, Reductions
  <2> QED BY <1>11, <2>2, <2>5, <2>6, <2>7 DEF CertifyPart, Quietly
<1>12. CertifyQuiet => Quietly
  BY <1>1, BroadcastIs DEF CertifyQuiet, Quietly, MainType
<1>13. NextRound => Quietly
  BY <1>1, BroadcastIs DEF NextRound, Quietly, MainType, Reductions
<1>14. Converge => flawed' \/ Quietly
  BY <1>1, BroadcastIs DEF Converge, Quietly, MainType, Reductions
<1> QED BY <1>2, <1>3, <1>4, <1>5, <1>6, <1>7, <1>8, <1>9, <1>10, <1>11, <1>12, <1>13, <1>14
        DEF Next, OnPE, OnMainPE

LEMMA MinOf ==
  ASSUME NEW S \in SUBSET Nat, S # {}
  PROVE  Min(S) \in S
<1>1. \E x \in S : \A y \in S : x <= y
  BY LeastNatural
<1> QED BY <1>1 DEF Min

\* What the steps of a run have in common: only the reset sends resets.
LEMMA RunStays ==
  ASSUME LifeInv, ~Resetting, red'["reset"] = red["reset"],
         \A m \in net' : m \in net \/ m.kind # "reset"
  PROVE  ~Resetting'
BY DEF Resetting

LEMMA RunFacts ==
  ASSUME LifeInv
  PROVE  /\ \A v \in Vertex : dist[v] \in Nat /\ dist[v] <= Lmax
         /\ \A m \in net : \A i \in m.body : i[1] \in Vertex /\ i[2] \in Nat /\ i = <<i[1], i[2]>>
         /\ \A n \in Processes : \A i \in outbox[n] : i[1] \in Vertex /\ i[2] \in Nat
         /\ \A p \in PE : \A i \in pe[p].pq : i[1] \in Vertex /\ i[2] \in Nat /\ i = <<i[1], i[2]>>
         /\ \A p \in PE : Process[p] \in Processes
         /\ \A m \in net : m.kind # "reset" => ~Resetting
         /\ \A p \in PE : pe[p].pq # {} => ~Resetting
         /\ Source \in Vertex
<1>1. \A v \in Vertex : dist[v] \in Nat /\ dist[v] <= Lmax
  BY SourceFacts DEF LifeInv, TypeOK, Distance
<1>2. \A m \in net : m.kind # "reset" => ~Resetting
  BY DEF LifeInv, ResetAlone, Message
<1>3. \A p \in PE : pe[p].pq # {} => ~Resetting
  BY DEF LifeInv, ResetAlone
<1>4. \A i \in Pair : i[1] \in Vertex /\ i[2] \in Nat /\ i = <<i[1], i[2]>>
  BY DEF Pair
<1>5. /\ \A m \in net : m.body \subseteq Pair
      /\ \A n \in Processes : outbox[n] \subseteq Pair
      /\ \A p \in PE : pe[p].pq \subseteq Pair
  BY DEF LifeInv, TypeOK, Messages, PeType
<1> QED BY <1>1, <1>2, <1>3, <1>4, <1>5, MainEpoch DEF LifeInv, Processes

LEMMA SolveStart ==
  ASSUME LifeInv, TableType, Cleared, StartSource
  PROVE  (TableType /\ Cleared /\ Solving)'
<1> USE DEF solver
<1>1. Resetting /\ net = {} /\ red["reset"] = PE /\ PE # {}
  BY SourceFacts DEF LifeInv, StartSource, Reduced, Resetting, ResetAlone
<1>2. \A p \in PE : pe[p].epoch = main.epoch
  BY <1>1 DEF LifeInv, SameRun
<1>3. \A v \in Vertex : dist[v] = Lmax
  BY <1>1, <1>2, SourcesAssumption DEF Cleared, Own
<1>4. \A n \in Processes : table[n] = [v \in Hub |-> Lmax] /\ outbox[n] = {}
  <2> TAKE n \in Processes
  <2>1. \E p \in First : p \in PE /\ Process[p] = n
    <3>1. Cardinality({p \in First : Process[p] = n}) = 1
      BY SourcesAssumption
    <3>2. {p \in First : Process[p] = n} # {}
      BY <3>1, FS_EmptySet
    <3> QED BY <3>2, SourcesAssumption
  <2> QED BY <1>1, <1>2, <2>1 DEF Cleared
<1>5. UNCHANGED <<dist, table, outbox, pe, flawed>> /\ main'.epoch = main.epoch
  BY DEF StartSource, LifeInv, TypeOK, MainType
<1>6. net' = {Message("update", Owner[Source], main.epoch, {<<Source, 0>>})}
  BY <1>1 DEF StartSource
<1>7. \A m \in net' : m.kind = "update" /\ m.body = {<<Source, 0>>}
  BY <1>6 DEF Message
<1>8. ~Resetting'
  BY <1>7 DEF StartSource, Resetting, LifeInv, TypeOK, Reductions
<1>9. \A v \in Vertex : \A g \in PotentialFrom(Source) : g[v] <= Lmax /\ g[Source] <= 0
  BY SourceFacts DEF PotentialFrom, Distance
<1>10. Source' = Source /\ Source \in Vertex
  BY <1>5, RunFacts DEF Source
<1>11. Sound'
  BY <1>3, <1>5, <1>7, <1>9, <1>10 DEF Sound, NotBelow
<1>12. HintsOfRun'
  BY <1>3, <1>4, <1>5, <1>7, SourceFacts, SourcesAssumption DEF HintsOfRun
<1>13. Settling'
  <2>1. Sending(Source, 0)'
    BY <1>6, <1>7, <1>10 DEF Sending
  <2> QED BY <1>3, <1>5, <1>10, <2>1, SourceFacts DEF Settling
<1> QED BY <1>5, <1>8, <1>11, <1>12, <1>13 DEF TableType, Cleared, Solving

\* A distance that falls leaves hints and settled edges as they were.
LEMMA SolveUpdate ==
  ASSUME LifeInv, TableType, Solving, NEW p \in PE, ProcessUpdate(p)
  PROVE  (TableType /\ Cleared /\ Solving)'
<1>1. PICK m \in net :
        /\ m.kind = "update" /\ net' = net \ {m}
        /\ \E u \in m.body :
             IF u[2] < dist[u[1]]
             THEN /\ dist' = [dist EXCEPT ![u[1]] = u[2]]
                  /\ pe' = [pe EXCEPT ![p].pq = @ \cup {u}]
             ELSE UNCHANGED <<dist, pe>>
  BY DEF ProcessUpdate
<1>2. UNCHANGED <<main, red, table, outbox, flawed>>
  BY DEF ProcessUpdate
<1>3. ~Resetting /\ ~Resetting' /\ Source' = Source
  <2>1. ~Resetting
    BY <1>1, RunFacts
  <2> QED BY <1>1, <1>2, <2>1 DEF Resetting, Source
<1>4. SUFFICES ASSUME ~flawed PROVE (Sound /\ HintsOfRun /\ Settling)'
  BY <1>2, <1>3 DEF TableType, Cleared, Solving
<1>5. Sound /\ HintsOfRun /\ Settling
  BY <1>3, <1>4 DEF Solving
<1>6. PICK v \in Vertex, d \in Nat : m.body = {<<v, d>>} /\ NotBelow(v, d)
  BY <1>1, <1>5 DEF Sound
<1>7. IF d < dist[v]
      THEN dist' = [dist EXCEPT ![v] = d] /\ pe' = [pe EXCEPT ![p].pq = @ \cup {<<v, d>>}]
      ELSE UNCHANGED <<dist, pe>>
  BY <1>1, <1>6
<1>8. /\ \A w \in Vertex : dist'[w] \in Nat /\ dist'[w] <= dist[w] /\ (w # v => dist'[w] = dist[w])
      /\ dist'[v] <= d /\ dist'[v] \in {dist[v], d}
      /\ dist'[v] # dist[v] => dist'[v] = d /\ <<v, d>> \in pe'[p].pq
      /\ \A q \in PE : pe[q].pq \subseteq pe'[q].pq
  BY <1>7, RunFacts DEF LifeInv, TypeOK, PeType
<1>9. \A w, c : Sending(w, c) => Sending(w, c)' \/ (w = v /\ c = d)
  BY <1>1, <1>6 DEF Sending
<1>10. Sound'
  BY <1>1, <1>3, <1>5, <1>6, <1>8 DEF Sound, NotBelow
<1>11. HintsOfRun'
  <2>1. \A w \in Hub : w \in Vertex
    BY SourcesAssumption
  <2>2. \A n \in Processes : \A w \in Hub : table[n][w] \in Nat
    BY DEF TableType
  <2>3. \A n \in Processes : \A w \in Hub : dist'[w] <= table'[n][w]
    BY <1>2, <1>5, <1>8, <2>1, <2>2, RunFacts DEF HintsOfRun
  <2>4. \A n \in Processes : \A i \in outbox'[n] : dist'[i[1]] <= i[2]
    BY <1>2, <1>5, <1>8, RunFacts DEF HintsOfRun
  <2>5. \A k \in net' : k.kind = "hints" => \A i \in k.body : dist'[i[1]] <= i[2]
    BY <1>1, <1>5, <1>8, RunFacts DEF HintsOfRun
  <2> QED BY <2>3, <2>4, <2>5 DEF HintsOfRun
<1>12. Settling'
  <2>1. dist'[Source] = 0 \/ Sending(Source, 0)'
    BY <1>3, <1>5, <1>8, <1>9, RunFacts DEF Settling
  <2>2. ASSUME NEW e \in Edge, dist'[From[e]] # Lmax
        PROVE  \/ dist'[To[e]] <= dist'[From[e]] + Weight[e]
               \/ \E q \in PE : <<From[e], dist'[From[e]]>> \in pe'[q].pq
               \/ Sending(To[e], dist[From[e]] + Weight[e])'
    <3>1. From[e] \in Vertex /\ To[e] \in Vertex /\ Weight[e] \in Nat
      BY SourceFacts
    <3>2. CASE dist'[From[e]] # dist[From[e]]
      BY <1>8, <3>1, <3>2
    <3>3. CASE dist'[From[e]] = dist[From[e]]
      <4>1. \/ dist[To[e]] <= dist[From[e]] + Weight[e]
            \/ \E q \in PE : <<From[e], dist[From[e]]>> \in pe[q].pq
            \/ Sending(To[e], dist[From[e]] + Weight[e])
        BY <1>5, <2>2, <3>3 DEF Settling
      <4>2. dist[To[e]] <= dist[From[e]] + Weight[e] => dist'[To[e]] <= dist'[From[e]] + Weight[e]
        BY <1>8, <3>1, <3>3, RunFacts
      <4>3. Sending(To[e], dist[From[e]] + Weight[e]) =>
              \/ Sending(To[e], dist[From[e]] + Weight[e])'
              \/ dist'[To[e]] <= dist'[From[e]] + Weight[e]
        BY <1>8, <1>9, <3>3
      <4> QED BY <1>8, <3>3, <4>1, <4>2, <4>3
    <3> QED BY <3>2, <3>3
  <2> QED BY <1>3, <2>1, <2>2 DEF Settling
<1> QED BY <1>10, <1>11, <1>12

\* An expansion sends along every edge, or a hint shows that the edge is settled.
LEMMA SolveHeap ==
  ASSUME LifeInv, TableType, Solving, NEW p \in PE, ProcessHeap(p)
  PROVE  (TableType /\ Cleared /\ Solving)'
<1> USE DEF solver
<1>1. PICK u \in pe[p].pq :
        /\ pe' = [pe EXCEPT ![p].pq = @ \ {u}]
        /\ net' = net \cup IF u[2] = dist[u[1]] THEN Relaxations(p, u[1], u[2]) ELSE {}
  BY DEF ProcessHeap
<1>2. UNCHANGED <<main, red, dist, table, outbox, flawed>>
  BY DEF ProcessHeap
<1>3. /\ u[1] \in Vertex /\ u[2] \in Nat /\ u = <<u[1], u[2]>> /\ ~Resetting
      /\ Process[p] \in Processes
  BY RunFacts
<1>4. \A m \in Relaxations(p, u[1], u[2]) :
        /\ m.kind = "update"
        /\ \E e \in Edge : From[e] = u[1] /\ m.body = {<<To[e], u[2] + Weight[e]>>}
  BY DEF Relaxations, Message
<1>5. ~Resetting' /\ Source' = Source
  BY <1>1, <1>2, <1>3, <1>4 DEF Resetting, Source
<1>6. SUFFICES ASSUME ~flawed PROVE (Sound /\ HintsOfRun /\ Settling)'
  BY <1>2, <1>5 DEF TableType, Cleared, Solving
<1>7. Sound /\ HintsOfRun /\ Settling
  BY <1>3, <1>6 DEF Solving
<1>8. Sound'
  <2>1. ASSUME NEW e \in Edge, From[e] = u[1], u[2] = dist[u[1]]
        PROVE  /\ To[e] \in Vertex /\ u[2] + Weight[e] \in Nat
               /\ NotBelow(To[e], u[2] + Weight[e])
    <3>1. To[e] \in Vertex /\ Weight[e] \in Nat
      BY SourceFacts
    <3>2. ASSUME NEW g \in PotentialFrom(Source) PROVE g[To[e]] <= u[2] + Weight[e]
      <4>1. g[To[e]] \in Nat /\ g[u[1]] \in Nat /\ g[To[e]] <= g[u[1]] + Weight[e]
        BY <1>3, <2>1, <3>1, SourceFacts DEF PotentialFrom
      <4>2. g[u[1]] <= u[2]
        BY <1>3, <1>7, <2>1 DEF Sound, NotBelow
      <4> QED BY <1>3, <3>1, <4>1, <4>2
    <3> QED BY <1>3, <3>1, <3>2 DEF NotBelow
  <2>2. \A m \in net' : m.kind = "update" =>
          \E v \in Vertex : \E d \in Nat : m.body = {<<v, d>>} /\ NotBelow(v, d)
    BY <1>1, <1>4, <1>7, <2>1 DEF Sound
  <2> QED BY <1>2, <1>5, <1>7, <2>2 DEF Sound, NotBelow
<1>9. HintsOfRun'
  BY <1>1, <1>2, <1>4, <1>7 DEF HintsOfRun
<1>10. \A w, c : Sending(w, c) => Sending(w, c)'
  BY <1>1 DEF Sending
<1>11. Settling'
  <2>1. ASSUME NEW e \in Edge, dist[From[e]] # Lmax
        PROVE  \/ dist[To[e]] <= dist[From[e]] + Weight[e]
               \/ \E q \in PE : <<From[e], dist[From[e]]>> \in pe'[q].pq
               \/ Sending(To[e], dist[From[e]] + Weight[e])'
    <3>1. CASE u = <<From[e], dist[From[e]]>>
      <4>1. u[1] = From[e] /\ u[2] = dist[From[e]]
        BY <3>1
      <4>2. CASE Covers(p, To[e], u[2] + Weight[e])
        <5>1. To[e] \in Hub /\ table[Process[p]][To[e]] <= u[2] + Weight[e]
          BY <4>2 DEF Covers
        <5>2. dist[To[e]] <= table[Process[p]][To[e]] /\ table[Process[p]][To[e]] \in Nat
          BY <1>3, <1>7, <5>1 DEF HintsOfRun, TableType
        <5> QED BY <1>3, <4>1, <5>1, <5>2, RunFacts, SourceFacts
      <4>3. CASE ~Covers(p, To[e], u[2] + Weight[e])
        <5> DEFINE k == Message("update", Owner[To[e]], pe[p].epoch, {<<To[e], u[2] + Weight[e]>>})
        <5>1. k \in Relaxations(p, u[1], u[2])
          BY <4>1, <4>3 DEF Relaxations
        <5>2. k \in net'
          BY <1>1, <4>1, <5>1
        <5>3. k.kind = "update" /\ k.body = {<<To[e], u[2] + Weight[e]>>}
          BY DEF Message
        <5> QED BY <1>2, <4>1, <5>2, <5>3 DEF Sending
      <4> QED BY <4>2, <4>3
    <3>2. CASE u # <<From[e], dist[From[e]]>>
      <4>1. ASSUME NEW q \in PE, <<From[e], dist[From[e]]>> \in pe[q].pq
            PROVE  <<From[e], dist[From[e]]>> \in pe'[q].pq
        BY <1>1, <3>2, <4>1 DEF LifeInv, TypeOK, PeType
      <4> QED BY <1>2, <1>7, <1>10, <2>1, <4>1 DEF Settling
    <3> QED BY <3>1, <3>2
  <2> QED BY <1>2, <1>5, <1>7, <1>10, <2>1 DEF Settling
<1> QED BY <1>8, <1>9, <1>11

\* What is published is a distance of this run, and distances only fall.
LEMMA SolveThresholds ==
  ASSUME LifeInv, TableType, Solving, NEW p \in PE, CurrentThresholds(p)
  PROVE  (TableType /\ Cleared /\ Solving)'
<1> USE DEF solver
<1>1. PICK m \in net : m.kind = "thresholds" /\ net' = (net \ {m}) \cup Flushed(p)
  BY DEF CurrentThresholds, Handle
<1>2. /\ UNCHANGED <<main, pe, dist, table, flawed>> /\ red'["reset"] = red["reset"]
      /\ outbox' = [outbox EXCEPT ![Process[p]] = IF p \in First THEN {} ELSE Queued(p)]
  BY DEF CurrentThresholds, Contributed, LifeInv, TypeOK, Reductions
<1>3. \A k \in Flushed(p) : k.kind = "hints" /\ k.body = Queued(p)
  BY DEF Flushed, Message
<1>4. ~Resetting /\ ~Resetting' /\ Source' = Source
  <2>1. ~Resetting
    BY <1>1, RunFacts
  <2> QED BY <1>1, <1>2, <1>3, <2>1 DEF Resetting, Source
<1>5. SUFFICES ASSUME ~flawed PROVE (Sound /\ HintsOfRun /\ Settling)'
  BY <1>2, <1>4 DEF TableType, Cleared, Solving
<1>6. Sound /\ HintsOfRun /\ Settling
  BY <1>4, <1>5 DEF Solving
<1>7. \A i \in Queued(p) : dist[i[1]] <= i[2]
  <2>1. \A v \in Fell(p) : dist[v] <= dist[v]
    BY RunFacts, SourcesAssumption DEF Fell
  <2>2. Process[p] \in Processes
    BY RunFacts
  <2> QED BY <1>6, <2>1, <2>2 DEF Queued, HintsOfRun
<1>8. \A k : k.kind = "update" => (k \in net' <=> k \in net)
  BY <1>1, <1>3
<1>9. \A v, d : Sending(v, d)' <=> Sending(v, d)
  BY <1>8 DEF Sending
<1>10. Sound'
  BY <1>2, <1>4, <1>6, <1>8 DEF Sound, NotBelow
<1>11. HintsOfRun'
  <2>1. \A n \in Processes : \A i \in outbox'[n] : dist[i[1]] <= i[2]
    BY <1>2, <1>6, <1>7 DEF HintsOfRun, LifeInv, TypeOK
  <2> QED BY <1>1, <1>2, <1>3, <1>6, <1>7, <2>1 DEF HintsOfRun
<1>12. Settling'
  BY <1>2, <1>4, <1>6, <1>9 DEF Settling
<1> QED BY <1>10, <1>11, <1>12

LEMMA SolveHints ==
  ASSUME LifeInv, TableType, Solving, NEW n \in Processes, ReceiveHints(n)
  PROVE  (TableType /\ Cleared /\ Solving)'
<1>1. PICK m \in net :
        /\ m.kind = "hints" /\ net' = net \ {m}
        /\ \E items \in SUBSET m.body : table' = [table EXCEPT ![n] = Insert(items, n)]
  BY DEF ReceiveHints
<1>2. PICK items \in SUBSET m.body : table' = [table EXCEPT ![n] = Insert(items, n)]
  BY <1>1
<1>3. UNCHANGED <<main, red, pe, dist, outbox, flawed>>
  BY DEF ReceiveHints
<1>4. ~Resetting /\ ~Resetting' /\ Source' = Source
  <2>1. ~Resetting
    BY <1>1, RunFacts
  <2> QED BY <1>1, <1>3, <2>1 DEF Resetting, Source
<1>5. ASSUME NEW v \in Hub
      PROVE  Insert(items, n)[v] \in {table[n][v]} \cup {i[2] : i \in {i \in items : i[1] = v}}
  <2> DEFINE S == {table[n][v]} \cup {i[2] : i \in {i \in items : i[1] = v}}
  <2>1. S \in SUBSET Nat /\ S # {}
    <3>1. table[n][v] \in Nat
      BY DEF TableType
    <3>2. \A i \in items : i[2] \in Nat
      BY <1>1, <1>2, RunFacts
    <3> QED BY <3>1, <3>2
  <2>2. Min(S) \in S
    BY <2>1, MinOf
  <2> QED BY <2>2 DEF Insert
<1>6. TableType'
  <2>1. \A v \in Hub : Insert(items, n)[v] \in Nat
    BY <1>1, <1>2, <1>5, RunFacts DEF TableType
  <2>2. Insert(items, n) \in [Hub -> Nat]
    BY <2>1 DEF Insert
  <2> QED BY <1>2, <2>2 DEF TableType
<1>7. SUFFICES ASSUME ~flawed PROVE (Sound /\ HintsOfRun /\ Settling)'
  BY <1>3, <1>4, <1>6 DEF Cleared, Solving
<1>8. Sound /\ HintsOfRun /\ Settling
  BY <1>4, <1>7 DEF Solving
<1>9. \A k : k.kind = "update" => (k \in net' <=> k \in net)
  BY <1>1
<1>10. Sound'
  BY <1>3, <1>4, <1>8, <1>9 DEF Sound, NotBelow
<1>11. HintsOfRun'
  <2>1. \A v \in Hub : dist[v] <= Insert(items, n)[v]
    BY <1>1, <1>2, <1>5, <1>8 DEF HintsOfRun
  <2>2. \A q \in Processes : \A v \in Hub : dist[v] <= table'[q][v]
    BY <1>2, <1>8, <2>1 DEF HintsOfRun, TableType
  <2> QED BY <1>1, <1>3, <1>8, <2>2 DEF HintsOfRun
<1>12. Settling'
  BY <1>3, <1>4, <1>8, <1>9 DEF Settling, Sending
<1> QED BY <1>6, <1>10, <1>11, <1>12

\* The reset starts when every PE is of the run that is over, and clears one PE
\* after the other.
LEMMA SolveReset ==
  ASSUME LifeInv, TableType, Cleared, AdvanceSource \/ \E p \in PE : ResetForSource(p)
  PROVE  (TableType /\ Cleared /\ Solving)'
<1> USE DEF solver
<1>1. CASE AdvanceSource
  <2>1. net = {} /\ main'.epoch = main.epoch + 1 /\ main.epoch \in Nat
    BY <1>1, MainEpoch DEF AdvanceSource, Quiet, LifeInv, TypeOK, MainType
  <2>2. \A p \in PE : pe'[p].epoch = main.epoch
    BY <1>1, <2>1 DEF AdvanceSource, LifeInv, SameRun
  <2>3. Resetting'
    BY <1>1, BroadcastAll, SourceFacts DEF AdvanceSource, Resetting
  <2>4. Cleared'
    BY <2>1, <2>2 DEF Cleared
  <2> QED BY <1>1, <2>3, <2>4 DEF AdvanceSource, TableType, Solving
<1>2. ASSUME NEW p \in PE, ResetForSource(p) PROVE (TableType /\ Cleared /\ Solving)'
  <2>1. Resetting /\ Resetting' /\ main' = main
    BY <1>2 DEF ResetForSource, Handle, Contributed, Resetting, LifeInv, TypeOK, Reductions
  <2>2. Lmax \in Nat /\ Process[p] \in Processes
    BY SourceFacts, RunFacts
  <2>3. /\ table' = IF p \in First THEN [table EXCEPT ![Process[p]] = [v \in Hub |-> Lmax]] ELSE table
        /\ outbox' = IF p \in First THEN [outbox EXCEPT ![Process[p]] = {}] ELSE outbox
        /\ dist' = [v \in Vertex |-> IF Owner[v] = p THEN Lmax ELSE dist[v]]
        /\ pe' = [pe EXCEPT ![p].epoch = main.epoch]
    BY <1>2 DEF ResetForSource, Emptied
  <2>4. TableType'
    BY <2>2, <2>3 DEF TableType
  <2>5. ASSUME NEW q \in PE, pe'[q].epoch = main.epoch
        PROVE  /\ \A v \in Own(q) : dist'[v] = Lmax
               /\ q \in First => /\ table'[Process[q]] = [v \in Hub |-> Lmax]
                                 /\ outbox'[Process[q]] = {}
    <3>1. Process[q] \in Processes /\ table \in [Processes -> [Hub -> Nat]]
          /\ outbox \in [Processes -> SUBSET Pair]
      BY RunFacts DEF TableType, LifeInv, TypeOK
    <3>2. CASE q = p
      BY <2>3, <3>1, <3>2 DEF Own
    <3>3. CASE q # p
      <4>1. pe[q].epoch = main.epoch
        BY <2>3, <2>5, <3>3 DEF LifeInv, TypeOK
      <4> QED BY <2>1, <2>2, <2>3, <3>1, <3>3, <4>1 DEF Own, Cleared
    <3> QED BY <3>2, <3>3
  <2>6. Cleared'
    BY <2>1, <2>5 DEF Cleared
  <2> QED BY <2>1, <2>4, <2>6 DEF Solving
<1> QED BY <1>1, <1>2

LEMMA SolveWrong ==
  ASSUME LifeInv, TableType, Converge, flawed'
  PROVE  (TableType /\ Cleared /\ Solving)'
<1>1. ~Resetting /\ red'["reset"] = red["reset"]
  BY SourceFacts DEF LifeInv, TypeOK, Converge, Reduced, ResetAlone, Reductions
<1>2. ~Resetting'
  BY <1>1, BroadcastIs, RunStays DEF Converge
<1> QED BY <1>2 DEF Converge, TableType, Cleared, Solving

LEMMA SolveStep ==
  ASSUME LifeInv, TableType, Cleared, Solving, Next
  PROVE  (TableType /\ Cleared /\ Solving)'
BY QuietSteps, QuietStep, SolveStart, SolveUpdate, SolveHeap, SolveThresholds, SolveHints,
   SolveReset, SolveWrong

\* An end that was not cut short has the shortest distances, if the solver is right.
Over == ~main.running /\ ~main.truncated /\ ~Resetting

LEMMA OverIsShortest ==
  ASSUME LifeInv, Solving, Over, ~flawed
  PROVE  IsShortestFrom(Source, dist)
<1>1. Sound /\ Settling /\ ~Live
  BY DEF Over, Solving, LifeInv, Idle
<1>2. \A v, d : ~Sending(v, d)
  BY <1>1 DEF Live, Sending
<1>3. \A p \in PE : pe[p].pq = {}
  BY <1>1 DEF Live
<1>4. dist[Source] = 0
  BY <1>1, <1>2 DEF Settling
<1>5. \A e \in Edge : dist[To[e]] <= dist[From[e]] + Weight[e]
  <2> TAKE e \in Edge
  <2>1. CASE dist[From[e]] = Lmax
    BY <2>1, RunFacts, SourceFacts
  <2>2. CASE dist[From[e]] # Lmax
    BY <1>1, <1>2, <1>3, <2>2 DEF Settling
  <2> QED BY <2>1, <2>2
<1>6. dist \in PotentialFrom(Source)
  BY <1>4, <1>5 DEF PotentialFrom, LifeInv, TypeOK
<1> QED BY <1>1, <1>6 DEF Sound, NotBelow, IsShortestFrom

\* The exit code is set where an answer is judged.
LEMMA ExitSteps ==
  ASSUME LifeInv, Next
  PROVE  \/ main'.exit = main.exit
         \/ \E kind \in {"print", "print_partial"} : DoneVerify(kind)
         \/ \E r \in {"sums", "max"} : CertifyPart(r)
<1> USE DEF solver
<1>1. main \in MainType
  BY DEF LifeInv, TypeOK
<1>2. StartSource \/ Converge \/ NextRound \/ CertifyQuiet \/ AdvanceSource => main'.exit = main.exit
  BY <1>1 DEF StartSource, Converge, NextRound, CertifyQuiet, AdvanceSource, MainType
<1>3. FastExit => main'.exit = main.exit
  BY <1>1 DEF FastExit, MainType
<1>4. StartReductions => main' = main
  BY DEF StartReductions
<1>5. \A n \in Processes : ReceiveHints(n) => main' = main
  BY DEF ReceiveHints
<1>6. ASSUME NEW p \in PE, OnPE(p) PROVE main' = main
  BY <1>6 DEF OnPE, ProcessUpdate, ProcessHeap, ContributeHistogram, CurrentThresholds, DelayedContribute,
              PrintDistances, CertifyStart, CertifyStep, CertifySlice, CertifyBatch, CertifyCollect,
              ResetForSource
<1> QED BY <1>2, <1>3, <1>4, <1>5, <1>6 DEF Next, OnMainPE

\* Without --certify nothing is certified.
OnRequest ==
  Certify \/ /\ main.qd # "certify" /\ red["sums"] = {} /\ red["max"] = {}
             /\ \A m \in net : m.kind \notin Started

LEMMA RequestStep ==
  ASSUME LifeInv, OnRequest, Next
  PROVE  OnRequest'
<1> USE DEF solver
<1> SUFFICES ASSUME ~Certify PROVE OnRequest'
  BY DEF OnRequest
<1>1. /\ main \in MainType /\ red \in [Reductions -> SUBSET PE] /\ PE # {}
      /\ None # "certify"
  BY SourceFacts, SourcesAssumption DEF LifeInv, TypeOK
<1>2. /\ main.qd # "certify" /\ red["sums"] = {} /\ red["max"] = {}
      /\ \A m \in net : m.kind \notin Started
  BY DEF OnRequest
<1> DEFINE Unasked == /\ main'.qd # "certify" /\ red'["sums"] = {} /\ red'["max"] = {}
                      /\ \A m \in net' : m \in net \/ m.kind \notin Started
<1>3. SUFFICES Unasked
  BY <1>2 DEF OnRequest
<1>4. StartSource => Unasked
  BY <1>1, <1>2 DEF StartSource, Message, Started, MainType, Reductions
<1>5. StartReductions => Unasked
  BY <1>2, BroadcastIs DEF StartReductions, Started
<1>6. FastExit => Unasked
  BY <1>1, <1>2, BroadcastIs DEF FastExit, Started, MainType
<1>7. ASSUME NEW p \in PE, ProcessUpdate(p) PROVE Unasked
  BY <1>2, <1>7 DEF ProcessUpdate
<1>8. ASSUME NEW p \in PE, ProcessHeap(p) PROVE Unasked
  BY <1>2, <1>8 DEF ProcessHeap, Relaxations, Message, Started
<1>9. ASSUME NEW p \in PE, ContributeHistogram(p) PROVE Unasked
  BY <1>1, <1>2, <1>9 DEF ContributeHistogram, Handle, Nothing, Contributed, Reductions
<1>10. ASSUME NEW p \in PE, CurrentThresholds(p) PROVE Unasked
  BY <1>1, <1>2, <1>10 DEF CurrentThresholds, Handle, Flushed, Message, Started, Contributed, Reductions
<1>11. ASSUME NEW p \in PE, DelayedContribute(p) PROVE Unasked
  BY <1>1, <1>2, <1>11 DEF DelayedContribute, Contributed, Reductions
<1>12. ASSUME NEW n \in Processes, ReceiveHints(n) PROVE Unasked
  BY <1>2, <1>12 DEF ReceiveHints
<1>13. CASE Converge \/ NextRound
  <2>1. main'.qd = main.qd /\ red' = [red EXCEPT !["histogram"] = {}]
    BY <1>1, <1>13 DEF Converge, NextRound, MainType
  <2>2. net' = net \cup Broadcast("print") \/ net' = net \cup Broadcast("thresholds")
    BY <1>13 DEF Converge, NextRound
  <2> QED BY <1>1, <1>2, <2>1, <2>2, BroadcastIs DEF Started, Reductions
<1>14. ASSUME NEW p \in PE, PrintDistances(p) PROVE Unasked
  BY <1>1, <1>2, <1>14 DEF PrintDistances, Handle, Nothing, Contributed, Reductions
<1>15. ASSUME NEW kind \in {"print", "print_partial"}, DoneVerify(kind) PROVE Unasked
  <2>1. main' = CheckDigest(main) /\ net' = net /\ red' = [red EXCEPT ![kind] = {}]
    BY <1>15 DEF DoneVerify
  <2>2. main'.qd # "certify"
    BY <1>1, <1>2, <2>1, DigestType
  <2> QED BY <1>1, <1>2, <2>1, <2>2 DEF Reductions
<1>16. \A p \in PE : ~CertifyStart(p) /\ ~CertifyStep(p) /\ ~CertifyBatch(p) /\ ~CertifyCollect(p)
  BY <1>2 DEF CertifyStart, CertifyStep, CertifySlice, CertifyBatch, CertifyCollect, Handle, Started
<1>17. (\A r \in {"sums", "max"} : ~CertifyPart(r)) /\ ~CertifyQuiet
  BY <1>1, <1>2 DEF CertifyPart, Reduced, CertifyQuiet
<1>18. AdvanceSource => Unasked
  BY <1>1, <1>2, BroadcastIs DEF AdvanceSource, Started, MainType
<1>19. ASSUME NEW p \in PE, ResetForSource(p) PROVE Unasked
  BY <1>1, <1>2, <1>19 DEF ResetForSource, Handle, Nothing, Contributed, Reductions
<1> QED BY <1>4, <1>5, <1>6, <1>7, <1>8, <1>9, <1>10, <1>11, <1>12, <1>13, <1>14, <1>15, <1>16, <1>17, <1>18, <1>19
        DEF Next, OnPE, OnMainPE

LEMMA DigestFails ==
  ASSUME NEW m \in MainType, m.exit = None, CheckDigest(m).exit = 1
  PROVE  m.truncated \/ ~IsShortestFrom(Source, dist)
BY SourcesAssumption DEF CheckDigest, FinishSource, MainType

LEMMA AlarmStep ==
  ASSUME CertInv, Solving, OnRequest, NoFalseAlarm, Certify => Positive, Next
  PROVE  NoFalseAlarm'
<1> SUFFICES ASSUME main'.exit = 1, main.exit # 1, ~main'.truncated, ~flawed' PROVE FALSE
  <2>1. main.exit = 1 => main'.exit # 1 \/ main'.truncated \/ flawed'
    <3>1. main.exit = None
      BY DEF Next, OnPE, OnMainPE, Running, StartSource, StartReductions, FastExit, ProcessUpdate,
             ProcessHeap, ContributeHistogram, CurrentThresholds, DelayedContribute, PrintDistances,
             CertifyStart, CertifyStep, CertifyBatch, CertifyCollect, ResetForSource, ReceiveHints,
             Converge, NextRound, DoneVerify, CertifyPart, CertifyQuiet, AdvanceSource
    <3> QED BY <3>1, SourcesAssumption
  <2> QED BY <2>1 DEF NoFalseAlarm
<1>1. LifeInv /\ main \in MainType /\ PE # {}
  BY SourceFacts DEF CertInv, LifeInv, TypeOK
<1>2. ASSUME Over, ~flawed PROVE IsShortestFrom(Source, dist) /\ (Certify => Accepted(Source, dist))
  <2>1. IsShortestFrom(Source, dist)
    BY <1>1, <1>2, OverIsShortest
  <2> QED BY <1>1, <2>1, CertificateComplete, MainEpoch DEF LifeInv, TypeOK
<1>3. ASSUME NEW kind \in {"print", "print_partial"}, DoneVerify(kind) PROVE FALSE
  <2>1. main.exit = None /\ red[kind] = PE /\ UNCHANGED flawed
    BY <1>3 DEF DoneVerify, Running, Reduced
  <2>2. main' = [main EXCEPT !.qd = "certify"] \/ main' = CheckDigest(main)
    BY <1>3 DEF DoneVerify
  <2>3. main' = CheckDigest(main) /\ ~main.truncated
    BY <1>1, <2>1, <2>2, DigestType, SourcesAssumption DEF MainType
  <2>4. Over
    BY <1>1, <2>1, <2>3 DEF Over, LifeInv, Ended, ResetAlone, Reductions
  <2> QED BY <1>1, <1>2, <2>1, <2>3, <2>4, DigestFails
<1>4. ASSUME NEW r \in {"sums", "max"}, CertifyPart(r) PROVE FALSE
  <2> DEFINE bad == IF r = "sums" THEN \E p \in PE : cert[p].bad ELSE main.bad
             m == [main EXCEPT !.bad = bad]
             n == [m EXCEPT !.parts = 0]
  <2>1. main.exit = None /\ red[r] = PE /\ UNCHANGED flawed
    BY <1>4 DEF CertifyPart, Running, Reduced
  <2>2. Judges
    BY <1>1, <2>1 DEF CertInv, Verdicts, Judging
  <2>3. Over
    BY <1>1, <2>1, <2>2 DEF Over, Judges, LifeInv, Ended, ResetAlone, Reductions
  <2>4. IsShortestFrom(Source, dist)
    BY <1>2, <2>1, <2>3
  <2>5. bad \in BOOLEAN
    BY <1>1, MainEpoch DEF LifeInv
  <2>6. \/ main' = [m EXCEPT !.parts = @ + 1]
        \/ main.parts = 1 /\ bad /\ main' = [m EXCEPT !.parts = 0, !.exit = 1]
        \/ main' = CheckDigest(n)
    <3>1. m.bad <=> bad
      BY <1>1, <2>5 DEF MainType
    <3> QED BY <1>4, <3>1 DEF CertifyPart, Complete
  <2>7. ASSUME main.parts = 1, bad PROVE FALSE
    <3>1. net = {} /\ (bad <=> \E p \in PE : cert[p].bad)
      BY <1>1, <2>1, <2>2, <2>7 DEF Judges
    <3>2. \A p \in PE : cert[p].bad <=> BadPE(p)
      BY <2>2, <3>1 DEF Judges
    <3>3. ~Accepted(Source, dist)
      BY <1>1, <2>7, <3>1, <3>2, AcceptedByAll DEF LifeInv
    <3>4. Certify
      BY <1>1, <2>1 DEF OnRequest
    <3> QED BY <1>2, <2>1, <2>3, <3>3, <3>4
  <2> HIDE DEF bad
  <2>8. m \in MainType /\ m.exit = None /\ m.truncated = main.truncated
    BY <1>1, <2>1, <2>5 DEF MainType
  <2> HIDE DEF m
  <2>9. n \in MainType /\ n.exit = None /\ n.truncated = main.truncated
    BY <2>8 DEF MainType
  <2> HIDE DEF n
  <2>10. main' # CheckDigest(n)
    BY <2>3, <2>4, <2>9, DigestFails DEF Over
  <2>11. main' # [m EXCEPT !.parts = @ + 1]
    BY <2>8, SourcesAssumption DEF MainType
  <2> QED BY <2>6, <2>7, <2>10, <2>11
<1> QED BY <1>1, <1>3, <1>4, ExitSteps

SolveInv == CertInv /\ TableType /\ Cleared /\ Solving /\ OnRequest

LEMMA SolveInit == Init => SolveInv
<1> SUFFICES ASSUME Init PROVE SolveInv
  OBVIOUS
<1>1. CertInv
  BY CertInit
<1>2. Resetting
  BY SourceFacts DEF Init, Resetting, Reductions
<1>3. TableType /\ Cleared
  BY SourceFacts DEF Init, TableType, Cleared, Own, Processes
<1>4. OnRequest
  BY SourcesAssumption DEF Init, OnRequest, Reductions
<1> QED BY <1>1, <1>2, <1>3, <1>4 DEF SolveInv, Solving

LEMMA SolveStutter == SolveInv /\ UNCHANGED vars => (TableType /\ Cleared /\ Solving /\ OnRequest)'
<1> SUFFICES ASSUME SolveInv, UNCHANGED vars PROVE (TableType /\ Cleared /\ Solving /\ OnRequest)'
  OBVIOUS
<1>1. Quietly
  BY DEF vars, Quietly
<1>2. (TableType /\ Cleared /\ Solving)'
  BY <1>1, QuietStep DEF SolveInv
<1> QED BY <1>2 DEF SolveInv, OnRequest, vars

LEMMA SolveCycle == Spec => []SolveInv
<1>1. Init => SolveInv
  BY SolveInit
<1>2. SolveInv /\ [Next]_vars /\ CertInv' => SolveInv'
  BY SolveStep, RequestStep, SolveStutter DEF SolveInv, CertInv
<1> QED BY <1>1, <1>2, CertCycle, PTL DEF Spec

\* Whatever hints, slices and earlier runs there were, when a run is over without a
\* timeout the distances are the shortest of its source, until the reset, unless a
\* wrong answer was announced.
THEOREM RunsEndRight == Spec => [](Over /\ ~flawed => IsShortestFrom(Source, dist))
<1>1. SolveInv => (Over /\ ~flawed => IsShortestFrom(Source, dist))
  BY OverIsShortest DEF SolveInv, CertInv
<1> QED BY <1>1, SolveCycle, PTL

\* The process fails for nothing but a timeout or a wrong answer: what one run leaves
\* behind neither spoils the next answer nor makes its certificate refuse it.  The
\* certificate needs positive weights.
THEOREM FailsForAReason ==
  ASSUME Certify => Positive
  PROVE  Spec => []NoFalseAlarm
<1>1. Init => NoFalseAlarm
  BY SourcesAssumption DEF Init, NoFalseAlarm
<1>2. SolveInv /\ NoFalseAlarm /\ [Next]_vars => NoFalseAlarm'
  <2>1. SolveInv /\ NoFalseAlarm /\ Next => NoFalseAlarm'
    BY AlarmStep DEF SolveInv
  <2>2. NoFalseAlarm /\ UNCHANGED vars => NoFalseAlarm'
    BY DEF NoFalseAlarm, vars
  <2> QED BY <2>1, <2>2
<1> QED BY <1>1, <1>2, SolveCycle, PTL DEF Spec

-----------------------------------------------------------------------------
(* tools/leafy_graph.py, for any number of vertices and of extra edges.     *)

LEMMA DrawTypes ==
  ASSUME NEW draw \in Draws
  PROVE  /\ NumEdges \in Nat /\ NumVertices - 1 \in 1..NumEdges /\ Child \subseteq 1..NumEdges
         /\ \A i \in Child :
              EdgeU(draw, i) = i /\ EdgeV(draw, i) \in 0..(NumVertices - 2) /\ EdgeV(draw, i) < i
         /\ \A i \in 1..NumEdges :
              /\ EdgeU(draw, i) \in 0..(NumVertices - 1) /\ EdgeV(draw, i) \in 0..(NumVertices - 2)
              /\ i \notin Child => EdgeU(draw, i) # NumVertices - 1
<1>1. /\ NumVertices \in Nat /\ NumVertices >= 2 /\ ExtraEdges \in Nat
      /\ NumEdges = NumVertices - 1 + ExtraEdges
  BY LeafyAssumption DEF NumEdges
<1>2. /\ draw.parent \in [Child -> 0..(NumVertices - 2)] /\ \A i \in Child : draw.parent[i] < i
      /\ draw.a \in [1..ExtraEdges -> 0..(NumVertices - 2)]
      /\ draw.b \in [1..ExtraEdges -> 0..(NumVertices - 2)]
  BY DEF Draws, Parents, ExtraEnd
<1>3. ASSUME NEW i \in Child
      PROVE  EdgeU(draw, i) = i /\ EdgeV(draw, i) \in 0..(NumVertices - 2) /\ EdgeV(draw, i) < i
  BY <1>2 DEF EdgeU, EdgeV
<1>4. ASSUME NEW i \in 1..NumEdges, i \notin Child
      PROVE  EdgeU(draw, i) \in 0..(NumVertices - 2) /\ EdgeV(draw, i) \in 0..(NumVertices - 2)
  <2>1. i - (NumVertices - 1) \in 1..ExtraEdges
    BY <1>1, <1>4 DEF Child
  <2> QED BY <1>2, <1>4, <2>1 DEF EdgeU, EdgeV
<1> QED BY <1>1, <1>3, <1>4 DEF Child

\* An arc and its reverse: the same edge from its other end.
LEMMA ArcTypes ==
  ASSUME NEW draw \in Draws, NEW c \in 1..(2 * NumEdges)
  PROVE  /\ c \in Nat /\ EdgeOf(c) \in 1..NumEdges
         /\ Reverse(c) \in 1..(2 * NumEdges) /\ EdgeOf(Reverse(c)) = EdgeOf(c)
         /\ Src(draw, c) \in 0..(NumVertices - 1) /\ Dst(draw, c) \in 0..(NumVertices - 1)
         /\ Src(draw, Reverse(c)) = Dst(draw, c) /\ Dst(draw, Reverse(c)) = Src(draw, c)
         /\ c \in Kept(draw) <=> Src(draw, c) # Dst(draw, c)
         /\ c \in Kept(draw) <=> Reverse(c) \in Kept(draw)
<1>1. NumEdges \in Nat /\ NumVertices \in Nat /\ NumVertices >= 2
  BY DrawTypes, LeafyAssumption
<1>2. /\ EdgeOf(c) \in 1..NumEdges /\ Reverse(c) \in 1..(2 * NumEdges)
      /\ EdgeOf(Reverse(c)) = EdgeOf(c) /\ Reverse(Reverse(c)) = c
      /\ c <= NumEdges <=> ~(Reverse(c) <= NumEdges)
      /\ c <= NumEdges => EdgeOf(c) = c
      /\ Reverse(c) <= NumEdges => EdgeOf(c) = Reverse(c)
  BY <1>1 DEF EdgeOf, Reverse
<1>3. /\ EdgeU(draw, EdgeOf(c)) \in 0..(NumVertices - 1)
      /\ EdgeV(draw, EdgeOf(c)) \in 0..(NumVertices - 1)
  BY <1>1, <1>2, DrawTypes
<1>4. /\ Src(draw, c) = IF c <= NumEdges THEN EdgeU(draw, EdgeOf(c)) ELSE EdgeV(draw, EdgeOf(c))
      /\ Dst(draw, c) = IF c <= NumEdges THEN EdgeV(draw, EdgeOf(c)) ELSE EdgeU(draw, EdgeOf(c))
      /\ Dst(draw, Reverse(c)) = Src(draw, c) /\ Src(draw, Reverse(c)) = Dst(draw, c)
  BY <1>2 DEF Src, Dst
<1> QED BY <1>2, <1>3, <1>4 DEF Kept

LEMMA KeptTypes ==
  ASSUME NEW draw \in Draws
  PROVE  /\ Kept(draw) \subseteq 1..(2 * NumEdges) /\ IsFiniteSet(Kept(draw))
         /\ Cardinality(Kept(draw)) \in Nat
         /\ \A T \in SUBSET Kept(draw) :
              /\ IsFiniteSet(T) /\ Cardinality(T) \in Nat
              /\ \A P \in SUBSET T :
                   /\ Cardinality(P) <= Cardinality(T)
                   /\ Cardinality(P) = Cardinality(T) => P = T
<1>1. 2 * NumEdges \in Int
  BY DrawTypes
<1>2. Kept(draw) \subseteq 1..(2 * NumEdges)
  BY DEF Kept
<1>3. IsFiniteSet(1..(2 * NumEdges))
  BY <1>1, FS_Interval
<1>4. IsFiniteSet(Kept(draw))
  BY <1>2, <1>3, FS_Subset
<1> QED BY <1>2, <1>4, FS_Subset, FS_CardinalityType

\* The order of the arcs is total.
LEMMA ArcOrder ==
  ASSUME NEW draw \in Draws, NEW x \in Kept(draw), NEW y \in Kept(draw), NEW z \in Kept(draw)
  PROVE  /\ NotAfter(draw, x, x) /\ (NotAfter(draw, x, y) \/ NotAfter(draw, y, x))
         /\ NotAfter(draw, x, y) /\ NotAfter(draw, y, x) => x = y
         /\ NotAfter(draw, x, y) /\ NotAfter(draw, y, z) => NotAfter(draw, x, z)
         /\ NotAfter(draw, x, y) => Src(draw, x) <= Src(draw, y)
         /\ Src(draw, x) < Src(draw, y) => NotAfter(draw, x, y)
<1>1. NumVertices - 1 \in Nat
  BY LeafyAssumption
<1>2. \A c \in {x, y, z} : c \in Nat /\ Src(draw, c) \in Nat /\ Dst(draw, c) \in Nat
  <2> SUFFICES ASSUME NEW c \in {x, y, z}
               PROVE  c \in Nat /\ Src(draw, c) \in Nat /\ Dst(draw, c) \in Nat
    OBVIOUS
  <2>1. c \in 1..(2 * NumEdges)
    BY KeptTypes
  <2> QED BY <1>1, <2>1, ArcTypes
<1> QED BY <1>2 DEF NotAfter

\* The arcs that do not come after one.
UpTo(draw, c) == {x \in Kept(draw) : NotAfter(draw, x, c)}

\* Every place in the file is that of one arc.
LEMMA Placed ==
  ASSUME NEW draw \in Draws
  PROVE  /\ \A c \in Kept(draw) :
              /\ Position(draw, c) \in 1..Cardinality(Kept(draw))
              /\ Order(draw, Position(draw, c)) = c
         /\ \A n \in 1..Cardinality(Kept(draw)) :
              Order(draw, n) \in Kept(draw) /\ Position(draw, Order(draw, n)) = n
<1> DEFINE K == Kept(draw)
           N == Cardinality(K)
           f == [c \in K |-> Position(draw, c)]
<1>1. ASSUME NEW c \in K PROVE Position(draw, c) \in 1..N
  <2>1. UpTo(draw, c) \in SUBSET K /\ c \in UpTo(draw, c)
    BY ArcOrder DEF UpTo
  <2>2. /\ Position(draw, c) = Cardinality(UpTo(draw, c)) /\ IsFiniteSet(UpTo(draw, c))
        /\ Position(draw, c) \in Nat /\ Position(draw, c) <= N /\ N \in Nat
    BY <2>1, KeptTypes DEF Position, UpTo
  <2>3. Position(draw, c) # 0
    BY <2>1, <2>2, FS_EmptySet
  <2> QED BY <2>2, <2>3
<1>2. ASSUME NEW x \in K, NEW y \in K, NotAfter(draw, x, y), x # y
      PROVE  Position(draw, x) # Position(draw, y)
  <2>1. UpTo(draw, x) \subseteq UpTo(draw, y)
    BY <1>2, ArcOrder DEF UpTo
  <2>2. y \in UpTo(draw, y) /\ y \notin UpTo(draw, x)
    BY <1>2, ArcOrder DEF UpTo
  <2>3. UpTo(draw, y) \in SUBSET K
    BY DEF UpTo
  <2> QED BY <2>1, <2>2, <2>3, KeptTypes DEF Position, UpTo
<1>3. \A x, y \in K : Position(draw, x) = Position(draw, y) => x = y
  BY <1>2, ArcOrder
<1>4. f \in Injection(K, 1..N)
  BY <1>1, <1>3 DEF Injection, IsInjective
<1>5. f \in Surjection(K, 1..N)
  <2>1. N \in Nat
    BY KeptTypes
  <2>2. IsFiniteSet(1..N) /\ Cardinality(1..N) = N
    BY <2>1, FS_Interval
  <2> QED BY <1>4, <2>2, FS_Injection
<1>6. ASSUME NEW n \in 1..N
      PROVE  Order(draw, n) \in K /\ Position(draw, Order(draw, n)) = n
  <2>1. \E c \in K : Position(draw, c) = n
    BY <1>5 DEF Surjection
  <2> QED BY <2>1 DEF Order
<1> QED BY <1>1, <1>3, <1>6

LEMMA FileFacts ==
  ASSUME NEW draw \in Draws
  PROVE  /\ DOMAIN FileOf(draw).arcs = 1..Cardinality(Kept(draw))
         /\ \A n \in DOMAIN FileOf(draw).arcs :
              /\ FileOf(draw).arcs[n] = ArcAt(draw, Order(draw, n))
              /\ FileOf(draw).arcs[n].from = Src(draw, Order(draw, n))
              /\ FileOf(draw).arcs[n].to = Dst(draw, Order(draw, n))
         /\ \A u \in 0..NumVertices : FileOf(draw).offsets[u] = Offset(draw, u)
<1>1. FileOf(draw).arcs = Arcs(draw)
  BY DEF FileOf
<1>2. \A u \in 0..NumVertices : FileOf(draw).offsets[u] = Offset(draw, u)
  BY DEF FileOf
<1>3. /\ DOMAIN Arcs(draw) = 1..Cardinality(Kept(draw))
      /\ \A n \in 1..Cardinality(Kept(draw)) : Arcs(draw)[n] = ArcAt(draw, Order(draw, n))
  BY DEF Arcs
<1> QED BY <1>1, <1>2, <1>3 DEF ArcAt

\* The offsets of a vertex, which begin and end its list.
LEMMA OffsetsOfFile ==
  ASSUME NEW draw \in Draws, NEW u \in 0..(NumVertices - 1)
  PROVE  /\ FileOf(draw).offsets[u] = Offset(draw, u)
         /\ FileOf(draw).offsets[u + 1] = Offset(draw, u + 1)
<1>1. u \in 0..NumVertices /\ u + 1 \in 0..NumVertices
  BY LeafyAssumption
<1> QED BY <1>1, FileFacts

Below(draw, u) == {c \in Kept(draw) : Src(draw, c) < u}

\* The arcs of the vertices before u are those up to its offset.
LEMMA BehindOffset ==
  ASSUME NEW draw \in Draws, NEW u \in 0..NumVertices, NEW c \in Kept(draw)
  PROVE  Offset(draw, u) \in Nat /\ (Src(draw, c) < u <=> Position(draw, c) <= Offset(draw, u))
<1>1. /\ Below(draw, u) \in SUBSET Kept(draw) /\ UpTo(draw, c) \in SUBSET Kept(draw)
      /\ Offset(draw, u) = Cardinality(Below(draw, u)) /\ Offset(draw, u) \in Nat
      /\ Position(draw, c) = Cardinality(UpTo(draw, c)) /\ Position(draw, c) \in Nat
  BY KeptTypes DEF Below, UpTo, Offset, Position
<1>2. \A x \in Kept(draw) : Src(draw, x) \in Int /\ u \in Int
  <2>1. NumVertices \in Nat
    BY LeafyAssumption
  <2> QED BY <2>1, KeptTypes, ArcTypes
<1>3. CASE Src(draw, c) < u
  <2>1. UpTo(draw, c) \subseteq Below(draw, u)
    BY <1>2, <1>3, ArcOrder DEF UpTo, Below
  <2> QED BY <1>1, <1>3, <2>1, KeptTypes
<1>4. CASE ~(Src(draw, c) < u)
  <2>1. Below(draw, u) \subseteq UpTo(draw, c)
    <3> SUFFICES ASSUME NEW x \in Kept(draw), Src(draw, x) < u PROVE NotAfter(draw, x, c)
      BY DEF UpTo, Below
    <3>1. Src(draw, x) < Src(draw, c)
      BY <1>2, <1>4
    <3> QED BY <3>1, ArcOrder
  <2>2. c \in UpTo(draw, c) /\ c \notin Below(draw, u)
    BY <1>4, ArcOrder DEF UpTo, Below
  <2>3. /\ Cardinality(Below(draw, u)) <= Cardinality(UpTo(draw, c))
        /\ Cardinality(Below(draw, u)) # Cardinality(UpTo(draw, c))
    BY <1>1, <2>1, <2>2, KeptTypes
  <2> QED BY <1>1, <1>4, <2>3
<1> QED BY <1>1, <1>3, <1>4

LEMMA BetweenOffsets ==
  ASSUME NEW draw \in Draws, NEW u \in 0..(NumVertices - 1), NEW c \in Kept(draw)
  PROVE  /\ Offset(draw, u) \in Nat /\ Offset(draw, u + 1) \in Nat
         /\ Src(draw, c) = u <=> Position(draw, c) \in (Offset(draw, u) + 1)..Offset(draw, u + 1)
<1>1. u \in 0..NumVertices /\ u + 1 \in 0..NumVertices
  BY LeafyAssumption
<1>2. Src(draw, c) \in Int /\ u \in Int
  BY <1>1, KeptTypes, ArcTypes, LeafyAssumption
<1>3. Position(draw, c) \in Int
  BY Placed, KeptTypes
<1>4. /\ Offset(draw, u) \in Nat /\ (Src(draw, c) < u <=> Position(draw, c) <= Offset(draw, u))
      /\ Offset(draw, u + 1) \in Nat
      /\ Src(draw, c) < u + 1 <=> Position(draw, c) <= Offset(draw, u + 1)
  BY <1>1, BehindOffset
<1> QED BY <1>2, <1>3, <1>4

LEMMA LastVertexIsLeaf ==
  ASSUME NEW draw \in Draws
  PROVE  LastIsLeaf(FileOf(draw))
<1> DEFINE last == NumVertices - 1
<1>1. NumVertices \in Nat /\ last \in Nat /\ last \in Child /\ NumVertices = last + 1
  BY LeafyAssumption DEF Child
<1>2. last \in 1..NumEdges /\ last \in 1..(2 * NumEdges)
  BY DrawTypes
<1>3. Src(draw, last) = last /\ last \in Kept(draw)
  <2>1. EdgeOf(last) = last /\ Src(draw, last) = EdgeU(draw, last)
    BY <1>2, DrawTypes DEF EdgeOf, Src
  <2>2. EdgeU(draw, last) = last /\ EdgeV(draw, last) < last
    BY <1>1, DrawTypes
  <2> QED BY <1>1, <1>2, <2>1, <2>2 DEF Kept
<1>4. ASSUME NEW c \in Kept(draw), Src(draw, c) = last PROVE c = last
  <2>1. c \in 1..(2 * NumEdges) /\ NumEdges \in Nat /\ EdgeOf(c) \in 1..NumEdges
    BY KeptTypes, ArcTypes, DrawTypes
  <2>2. CASE c <= NumEdges
    <3>1. c \in 1..NumEdges /\ EdgeU(draw, c) = last
      BY <1>4, <2>1, <2>2 DEF Src
    <3>2. c \in Child
      BY <3>1, DrawTypes
    <3> QED BY <3>1, <3>2, DrawTypes
  <2>3. CASE ~(c <= NumEdges)
    <3>1. EdgeV(draw, EdgeOf(c)) = last
      BY <1>4, <2>3 DEF Src
    <3>2. EdgeV(draw, EdgeOf(c)) \in 0..(NumVertices - 2)
      BY <2>1, DrawTypes
    <3> QED BY <1>1, <3>1, <3>2
  <2> QED BY <2>2, <2>3
<1>5. Below(draw, NumVertices) = Below(draw, last) \cup {last} /\ last \notin Below(draw, last)
  <2>1. \A c \in Kept(draw) : Src(draw, c) \in Int /\ Src(draw, c) < NumVertices
    BY <1>1, KeptTypes, ArcTypes
  <2>2. \A c \in Kept(draw) : Src(draw, c) < last \/ Src(draw, c) = last
    BY <1>1, <2>1
  <2> QED BY <1>1, <1>3, <1>4, <2>1, <2>2 DEF Below
<1>6. /\ IsFiniteSet(Below(draw, last)) /\ Cardinality(Below(draw, last)) \in Nat
  BY KeptTypes DEF Below
<1>7. Cardinality(Below(draw, NumVertices)) = Cardinality(Below(draw, last)) + 1
  BY <1>5, <1>6, FS_AddElement
<1>8. /\ FileOf(draw).offsets[last] = Cardinality(Below(draw, last))
      /\ FileOf(draw).offsets[NumVertices] = Cardinality(Below(draw, NumVertices))
  <2>1. last \in 0..NumVertices /\ NumVertices \in 0..NumVertices
    BY <1>1
  <2> QED BY <2>1, FileFacts DEF Offset, Below
<1> QED BY <1>6, <1>7, <1>8 DEF LastIsLeaf

LEMMA ListsIndexed ==
  ASSUME NEW draw \in Draws
  PROVE  Indexed(FileOf(draw))
<1> SUFFICES ASSUME NEW n \in DOMAIN FileOf(draw).arcs, NEW u \in 0..(NumVertices - 1)
             PROVE  FileOf(draw).arcs[n].from = u
                      <=> n \in (Offset(draw, u) + 1)..Offset(draw, u + 1)
  <2>1. \A u \in 0..(NumVertices - 1) :
          /\ FileOf(draw).offsets[u] = Offset(draw, u)
          /\ FileOf(draw).offsets[u + 1] = Offset(draw, u + 1)
    BY OffsetsOfFile
  <2> QED BY <2>1 DEF Indexed
<1>1. Order(draw, n) \in Kept(draw) /\ Position(draw, Order(draw, n)) = n
  BY FileFacts, Placed
<1>2. FileOf(draw).arcs[n].from = Src(draw, Order(draw, n))
  BY FileFacts
<1> QED BY <1>1, <1>2, BetweenOffsets

\* The reverse of an arc is in the list of the arc's end.
LEMMA ReversePlaced ==
  ASSUME NEW draw \in Draws, NEW c \in Kept(draw)
  PROVE  /\ Reverse(c) \in Kept(draw) /\ Position(draw, Reverse(c)) \in DOMAIN FileOf(draw).arcs
         /\ FileOf(draw).arcs[Position(draw, Reverse(c))] =
              [from |-> Dst(draw, c), to |-> Src(draw, c), w |-> draw.w[EdgeOf(c)]]
<1>1. c \in 1..(2 * NumEdges)
  BY KeptTypes
<1>2. Reverse(c) \in Kept(draw)
  BY <1>1, ArcTypes
<1> DEFINE r == Reverse(c)
           n == Position(draw, r)
<1>3. n \in DOMAIN FileOf(draw).arcs /\ Order(draw, n) = r
  BY <1>2, Placed, FileFacts
<1>4. FileOf(draw).arcs[n] = [from |-> Src(draw, r), to |-> Dst(draw, r), w |-> draw.w[EdgeOf(r)]]
  BY <1>3, FileFacts DEF ArcAt
<1>5. Src(draw, r) = Dst(draw, c) /\ Dst(draw, r) = Src(draw, c) /\ EdgeOf(r) = EdgeOf(c)
  BY <1>1, ArcTypes
<1> QED BY <1>2, <1>3, <1>4, <1>5

LEMMA ListsUndirected ==
  ASSUME NEW draw \in Draws
  PROVE  Undirected(FileOf(draw))
<1> SUFFICES ASSUME NEW n \in DOMAIN FileOf(draw).arcs
             PROVE  \E m \in DOMAIN FileOf(draw).arcs :
                      FileOf(draw).arcs[m] = [from |-> FileOf(draw).arcs[n].to,
                                              to |-> FileOf(draw).arcs[n].from,
                                              w |-> FileOf(draw).arcs[n].w]
  BY DEF Undirected
<1> DEFINE c == Order(draw, n)
<1>1. c \in Kept(draw)
  BY FileFacts, Placed
<1>2. FileOf(draw).arcs[n] = [from |-> Src(draw, c), to |-> Dst(draw, c), w |-> draw.w[EdgeOf(c)]]
  BY FileFacts DEF ArcAt
<1>3. /\ FileOf(draw).arcs[n].from = Src(draw, c) /\ FileOf(draw).arcs[n].to = Dst(draw, c)
      /\ FileOf(draw).arcs[n].w = draw.w[EdgeOf(c)]
  BY <1>2
<1> HIDE DEF c
<1>4. /\ Position(draw, Reverse(c)) \in DOMAIN FileOf(draw).arcs
      /\ FileOf(draw).arcs[Position(draw, Reverse(c))] =
           [from |-> Dst(draw, c), to |-> Src(draw, c), w |-> draw.w[EdgeOf(c)]]
  BY <1>1, ReversePlaced
<1> QED BY <1>3, <1>4

LEMMA LeafEnteredFromNeighbour ==
  ASSUME NEW draw \in Draws
  PROVE  LeavesHaveOneNeighbour(FileOf(draw))
<1> SUFFICES ASSUME NEW n \in DOMAIN FileOf(draw).arcs, NEW m \in DOMAIN FileOf(draw).arcs,
                    FileOf(draw).offsets[FileOf(draw).arcs[n].from + 1]
                      - FileOf(draw).offsets[FileOf(draw).arcs[n].from] = 1,
                    FileOf(draw).arcs[m].to = FileOf(draw).arcs[n].from
             PROVE  FileOf(draw).arcs[m].from = FileOf(draw).arcs[n].to
  BY DEF LeavesHaveOneNeighbour
<1> DEFINE c == Order(draw, n)
           e == Order(draw, m)
           u == Src(draw, c)
<1>1. c \in Kept(draw) /\ e \in Kept(draw) /\ Reverse(e) \in Kept(draw)
  BY FileFacts, Placed, ReversePlaced
<1>2. /\ FileOf(draw).arcs[n].from = u /\ FileOf(draw).arcs[n].to = Dst(draw, c)
      /\ FileOf(draw).arcs[m].from = Src(draw, e) /\ FileOf(draw).arcs[m].to = Dst(draw, e)
  BY FileFacts
<1> HIDE DEF c, e
<1>3. c \in 1..(2 * NumEdges) /\ e \in 1..(2 * NumEdges)
  BY <1>1, KeptTypes
<1>4. /\ Src(draw, Reverse(e)) = u /\ Dst(draw, Reverse(e)) = Src(draw, e)
      /\ u \in 0..(NumVertices - 1)
  BY <1>2, <1>3, ArcTypes
<1> HIDE DEF u
<1>5. /\ Offset(draw, u) \in Nat /\ Offset(draw, u + 1) \in Nat
      /\ FileOf(draw).offsets[u] = Offset(draw, u)
      /\ FileOf(draw).offsets[u + 1] = Offset(draw, u + 1)
      /\ FileOf(draw).offsets[u + 1] - FileOf(draw).offsets[u] = 1
      /\ Position(draw, c) \in (Offset(draw, u) + 1)..Offset(draw, u + 1)
      /\ Position(draw, Reverse(e)) \in (Offset(draw, u) + 1)..Offset(draw, u + 1)
  BY <1>1, <1>2, <1>4, BetweenOffsets, OffsetsOfFile DEF u
<1>6. Position(draw, c) = Position(draw, Reverse(e))
  BY <1>5
<1>7. c = Reverse(e)
  BY <1>1, <1>6, Placed
<1> QED BY <1>2, <1>4, <1>7

\* From the last vertex up the tree to the root, and from the root down: the
\* least vertex reached is the root, and the least one not reached has a parent.
LEMMA LastReachesAll ==
  ASSUME NEW draw \in Draws
  PROVE  Reaches(FileOf(draw))
<1> SUFFICES ASSUME NEW S \in SUBSET (0..(NumVertices - 1)), NumVertices - 1 \in S,
                    \A n \in DOMAIN FileOf(draw).arcs :
                      FileOf(draw).arcs[n].from \in S => FileOf(draw).arcs[n].to \in S
             PROVE  S = 0..(NumVertices - 1)
  BY DEF Reaches
<1>1. ASSUME NEW c \in Kept(draw), Src(draw, c) \in S PROVE Dst(draw, c) \in S
  <2> DEFINE n == Position(draw, c)
  <2>1. n \in DOMAIN FileOf(draw).arcs /\ Order(draw, n) = c
    BY Placed, FileFacts
  <2>2. FileOf(draw).arcs[n].from = Src(draw, c) /\ FileOf(draw).arcs[n].to = Dst(draw, c)
    BY <2>1, FileFacts
  <2> QED BY <1>1, <2>1, <2>2
<1>2. ASSUME NEW v \in 0..(NumVertices - 1), v # 0
      PROVE  \E p \in Nat : p < v /\ (v \in S <=> p \in S)
  <2>1. v \in Child /\ v \in Nat
    BY LeafyAssumption, <1>2 DEF Child
  <2>2. /\ v \in 1..NumEdges /\ v \in 1..(2 * NumEdges) /\ NumEdges \in Nat
        /\ EdgeU(draw, v) = v /\ EdgeV(draw, v) \in 0..(NumVertices - 2) /\ EdgeV(draw, v) < v
    BY <2>1, DrawTypes
  <2>3. /\ EdgeOf(v) = v /\ Src(draw, v) = v /\ v \in Kept(draw)
        /\ Reverse(v) = v + NumEdges /\ ~(Reverse(v) <= NumEdges) /\ EdgeOf(Reverse(v)) = v
    BY <2>1, <2>2 DEF EdgeOf, Src, Kept, Reverse
  <2>4. Dst(draw, v) = EdgeV(draw, v)
    BY <2>3 DEF Dst, Src
  <2>5. /\ Reverse(v) \in Kept(draw) /\ Src(draw, Reverse(v)) = EdgeV(draw, v)
        /\ Dst(draw, Reverse(v)) = v
    BY <2>2, <2>3, <2>4, ArcTypes
  <2>6. v \in S <=> EdgeV(draw, v) \in S
    BY <1>1, <2>3, <2>4, <2>5
  <2> QED BY <2>2, <2>6
<1>3. 0 \in S
  <2>1. S \in SUBSET Nat /\ S # {}
    OBVIOUS
  <2>2. PICK x \in S : \A y \in S : x <= y
    BY <2>1, LeastNatural
  <2>3. ASSUME x # 0 PROVE FALSE
    <3>1. PICK p \in Nat : p < x /\ (x \in S <=> p \in S)
      BY <1>2, <2>3
    <3>2. x <= p
      BY <2>2, <3>1
    <3> QED BY <2>1, <3>1, <3>2
  <2> QED BY <2>2, <2>3
<1>4. ASSUME NEW v \in 0..(NumVertices - 1), v \notin S PROVE FALSE
  <2> DEFINE T == (0..(NumVertices - 1)) \ S
  <2>1. T \in SUBSET Nat /\ T # {}
    BY <1>4
  <2>2. PICK x \in T : \A y \in T : x <= y
    BY <2>1, LeastNatural
  <2>3. PICK p \in Nat : p < x /\ (x \in S <=> p \in S)
    BY <1>2, <1>3, <2>2
  <2>4. p \in T
    BY <2>3, LeafyAssumption
  <2>5. x <= p
    BY <2>2, <2>4
  <2> QED BY <2>1, <2>3, <2>5
<1> QED BY <1>4

\* Whatever the generator draws, for every number of vertices and of extra
\* edges and every set of weights, the graph it writes is fit for the gate.
THEOREM LeafyGraphsAlwaysFit == GeneratorSpec => []LeafyGraphsFit
<1>1. GeneratorInit => LeafyGraphsFit
  BY DEF GeneratorInit, LeafyGraphsFit
<1>2. LeafyGraphsFit /\ [WriteGraph]_written => LeafyGraphsFit'
  <2>1. CASE WriteGraph
    BY <2>1, LastVertexIsLeaf, ListsIndexed, ListsUndirected, LeafEnteredFromNeighbour,
       LastReachesAll DEF WriteGraph, LeafyGraphsFit
  <2>2. CASE UNCHANGED written
    BY <2>2 DEF LeafyGraphsFit
  <2> QED BY <2>1, <2>2
<1> QED BY <1>1, <1>2, PTL DEF GeneratorSpec

=============================================================================
