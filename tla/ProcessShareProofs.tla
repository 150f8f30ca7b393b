------------------------- MODULE ProcessShareProofs -------------------------
(***************************************************************************)
(* Handlers that are interrupted between any two accesses to shared memory *)
(* do what Solver's atomic handlers do, for any graph, processes, workers  *)
(* and size of a batch; what SolverProofs says of these holds here too.    *)
(***************************************************************************)
EXTENDS ProcessShare, FiniteSetTheorems, TLAPS

\* What a worker has in hand: updates that count as in flight, and as queued.
Passing(p) == calling[p] \cup Owed(p)
Keeping(p) == batch[p] \cup won[p]

Sending == net \cup UNION {Passing(p) : p \in PE}
Waiting == queued \cup UNION {Keeping(p) : p \in PE}
Made == [p \in PE |-> created[p] \cup Owed(p)]
Retired == [p \in PE |-> processed[p] \cup expanding[p]]

\* Solver's theorems, of the run as its handlers see it.
H == INSTANCE SolverProofs WITH
  net <- Sending, queued <- Waiting, created <- Made, processed <- Retired

-----------------------------------------------------------------------------
(* The invariant *)

HandTypes ==
  /\ net \subseteq Update /\ queued \subseteq Update
  /\ created \in [PE -> SUBSET Update] /\ processed \in [PE -> SUBSET Update]
  /\ batch \in [PE -> SUBSET Update] /\ expanding \in [PE -> SUBSET Update]
  /\ calling \in [PE -> SUBSET Update] /\ won \in [PE -> SUBSET Update]
  /\ left \in [PE -> SUBSET Edge] /\ old \in [PE -> Distance]

\* A worker is in one call at most, on a vertex it shares, and has read a
\* distance the vertex has had.
Calls ==
  \A p \in PE :
    /\ calling[p] = {} \/ won[p] = {}
    /\ \A u, w \in calling[p] : u = w
    /\ \A u \in calling[p] : p \in Shares[u.to] /\ dist[u.to] <= old[p]

\* It expands one entry at most, from a batch of vertices it shares.
Entries ==
  \A p \in PE :
    /\ \A u, w \in expanding[p] : u = w
    /\ \A u \in batch[p] : p \in Shares[u.to]

\* No update is in two places.
Apart ==
  \A p \in PE :
    /\ net \cap Passing(p) = {} /\ calling[p] \cap Owed(p) = {}
    /\ queued \cap Keeping(p) = {} /\ batch[p] \cap won[p] = {}
    /\ \A q \in PE \ {p} :
         Passing(p) \cap Passing(q) = {} /\ Keeping(p) \cap Keeping(q) = {}

Hands == HandTypes /\ Calls /\ Entries /\ Apart

LEMMA Filters ==
  /\ LeafPrune = FALSE /\ SendFilter = FALSE /\ Combine = FALSE
  /\ \A v \in Vertex : Owner[v] \in PE /\ Owner[v] \in Shares[v]
  /\ \A e \in Edge : From[e] \in Vertex /\ To[e] \in Vertex /\ Weight[e] \in Nat
  /\ Source \in Vertex /\ NoEdge \notin Edge
  /\ Lmax \in Nat /\ Lmax \in Distance /\ \A d \in Distance : d \in Nat
BY GraphAssumption, SourceAssumption, SolverAssumption, ShareAssumption DEF Distance

\* Operators of constants are the same in both.
LEMMA SameData ==
  /\ H!Update = Update /\ H!SourceUpdate = SourceUpdate /\ H!Distance = Distance
  /\ H!Nothing = Nothing
  /\ \A v : H!Out(v) = Out(v)
  /\ \A e, d : H!Relaxation(e, d) = Relaxation(e, d)
  /\ \A v, d : (H!QueueWorthy(v, d) <=> Out(v) # {}) /\ (QueueWorthy(v, d) <=> Out(v) # {})
<1>1. \A v : H!Out(v) = Out(v)
  BY DEF H!Out, Out
<1>2. \A v, d : (H!QueueWorthy(v, d) <=> Out(v) # {}) /\ (QueueWorthy(v, d) <=> Out(v) # {})
  BY <1>1, Filters DEF H!QueueWorthy, QueueWorthy
<1> QED
  BY <1>1, <1>2 DEF H!Update, Update, H!SourceUpdate, SourceUpdate, H!Distance, Distance,
     H!Nothing, Nothing, H!Relaxation, Relaxation

\* What Solver assumes, in the form its theorems ask for here.
LEMMA Assumed ==
  /\ H!IsFiniteSet(Vertex) /\ H!IsFiniteSet(Edge) /\ H!IsFiniteSet(PE)
  /\ From \in [Edge -> Vertex] /\ To \in [Edge -> Vertex] /\ Weight \in [Edge -> Nat]
  /\ Lmax \in Nat \ {0} /\ Source \in Vertex
  /\ Owner \in [Vertex -> PE] /\ Shares \in [Vertex -> SUBSET PE] /\ NoEdge \notin Edge
  /\ LeafPrune \in BOOLEAN /\ SendFilter \in BOOLEAN /\ Combine \in BOOLEAN
  /\ LeafPrune =>
       \A e, f \in Edge :
         (H!Out(From[e]) = {e} /\ To[f] = From[e]) => From[f] = To[e]
BY GraphAssumption, SourceAssumption, SolverAssumption, LeafAssumption, SameData
   DEF H!IsFiniteSet, IsFiniteSet

LEMMA SolverSteps ==
  /\ H!TypeOK /\ [H!Next]_(H!vars) => H!TypeOK'
  /\ H!TypeOK /\ H!Expansion /\ [H!Next]_(H!vars) => H!Expansion'
  /\ H!TypeOK /\ H!Expansion /\ H!Accounting /\ [H!Next]_(H!vars) => H!Accounting'
  /\ H!TypeOK /\ H!Expansion => H!NeverExpandedTwice
<1>1. H!TypeOK /\ [H!Next]_(H!vars) => H!TypeOK'
  BY H!TypeStep, Assumed, Zenon
<1>2. H!TypeOK /\ H!Expansion /\ [H!Next]_(H!vars) => H!Expansion'
  BY H!ExpansionStep, Assumed, Zenon
<1>3. H!TypeOK /\ H!Expansion /\ H!Accounting /\ [H!Next]_(H!vars) => H!Accounting'
  BY H!AccountingStep, Assumed, Zenon
<1>4. ASSUME H!TypeOK, H!Expansion, NEW u \in Waiting
      PROVE  H!Relaxations(u) \cap H!All(Made) = {}
  BY <1>4, H!ExpansionNew, Assumed, Zenon
<1> QED BY <1>1, <1>2, <1>3, <1>4 DEF H!NeverExpandedTwice

-----------------------------------------------------------------------------
(* Every step is one of Solver's, or none *)

ShareInv == Hands /\ H!TypeOK /\ H!Expansion /\ H!Accounting

\* Where an update may be, as seen in one place after the other.
Places ==
  /\ \A x : x \in Sending <=> x \in net \/ \E q \in PE : x \in calling[q] \/ x \in Owed(q)
  /\ \A x : x \in Waiting <=> x \in queued \/ \E q \in PE : x \in batch[q] \/ x \in won[q]
  /\ \A q \in PE : Made[q] = created[q] \cup Owed(q) /\ Retired[q] = processed[q] \cup expanding[q]
  /\ DOMAIN Made = PE /\ DOMAIN Retired = PE
  /\ Made = [q \in DOMAIN Made |-> Made[q]] /\ Retired = [q \in DOMAIN Retired |-> Retired[q]]
  /\ \A q, x : x \in Owed(q) <=> \E u \in expanding[q], e \in left[q] : x = Relaxation(e, u.d)
  /\ \A q : (expanding[q] = {} \/ left[q] = {}) => Owed(q) = {}

LEMMA PlacesNow == Places
BY DEF Places, Sending, Waiting, Made, Retired, Passing, Keeping, Owed, Sent

LEMMA PlacesNext == Places'
BY DEF Places, Sending, Waiting, Made, Retired, Passing, Keeping, Owed, Sent

\* What a worker still has to send changes only with its own expansion.
LEMMA OwedStays ==
  ASSUME NEW q, expanding'[q] = expanding[q], left'[q] = left[q]
  PROVE  Owed(q)' = Owed(q)
BY DEF Owed, Sent

\* What is in flight or queued has been created, and is not both.
LEMMA LiveApart ==
  ASSUME ShareInv
  PROVE  /\ \A x \in Sending : x \in H!All(Made) /\ x \notin Waiting
         /\ \A x \in Waiting : x \in H!All(Made) /\ x \notin Sending
         /\ \A u \in Waiting : H!Relaxations(u) \cap Sending = {}
         /\ Sending \subseteq Update /\ Waiting \subseteq Update
         /\ dist \in [Vertex -> Distance]
<1>1. H!LiveAccounted /\ H!NeverExpandedTwice
  BY SolverSteps DEF ShareInv, H!Accounting
<1> QED BY <1>1, SameData DEF ShareInv, H!LiveAccounted, H!NeverExpandedTwice, H!TypeOK

\* A message that reaches its worker is still in flight.
LEMMA ArriveStep ==
  ASSUME ShareInv, NEW p \in PE, Arrive(p)
  PROVE  UNCHANGED H!vars /\ Hands'
<1>1. PICK u \in net : /\ p = Owner[u.to] /\ net' = net \ {u}
                       /\ calling' = [calling EXCEPT ![p] = {u}]
                       /\ old' = [old EXCEPT ![p] = dist[u.to]]
  BY DEF Arrive, Call
<1>2. /\ UNCHANGED <<dist, queued, created, processed, control, batch, expanding, left, won>>
      /\ batch[p] = {} /\ expanding[p] = {} /\ calling[p] = {} /\ won[p] = {}
  BY DEF Arrive, Idle
<1>3. \A q \in PE : Owed(q)' = Owed(q)
  BY <1>2, OwedStays
<1>4. Owed(p) = {}
  BY <1>2, PlacesNow DEF Places
<1>5. HandTypes
  BY DEF ShareInv, Hands
<1>6. u \in Update /\ u.to \in Vertex /\ dist[u.to] \in Distance /\ p \in Shares[u.to]
  BY <1>1, <1>5, LiveApart, Filters DEF HandTypes, Update
<1>7. calling'[p] = {u} /\ \A q \in PE \ {p} : calling'[q] = calling[q]
  BY <1>1, <1>5 DEF HandTypes
<1>8. old'[p] = dist[u.to] /\ \A q \in PE \ {p} : old'[q] = old[q]
  BY <1>1, <1>5 DEF HandTypes
<1>9. Sending' = Sending
  <2>1. Passing(p)' = Passing(p) \cup {u}
    BY <1>2, <1>3, <1>7 DEF Passing
  <2>2. \A q \in PE \ {p} : Passing(q)' = Passing(q)
    BY <1>3, <1>7 DEF Passing
  <2> QED BY <1>1, <2>1, <2>2 DEF Sending
<1>10. UNCHANGED <<Waiting, Made, Retired>>
  BY <1>2, <1>3 DEF Waiting, Made, Retired, Keeping
<1>11. UNCHANGED H!vars
  BY <1>2, <1>9, <1>10 DEF H!vars, H!pevars, H!mainvars, control, mainvars
<1>12. HandTypes'
  BY <1>1, <1>2, <1>5, <1>6 DEF HandTypes
<1>13. Calls'
  <2>1. dist[u.to] \in Nat
    BY <1>6, Filters
  <2> QED BY <1>2, <1>6, <1>7, <1>8, <2>1 DEF Calls, ShareInv, Hands
<1>14. Entries'
  BY <1>2 DEF Entries, ShareInv, Hands
<1>15. Apart'
  <2>1. Keeping(p)' = Keeping(p) /\ \A q \in PE : Keeping(q)' = Keeping(q)
    BY <1>2 DEF Keeping
  <2>2. Passing(p)' = {u} /\ \A q \in PE \ {p} : Passing(q)' = Passing(q)
    BY <1>3, <1>4, <1>7 DEF Passing
  <2>3. \A q \in PE : u \notin Passing(q)
    BY DEF Apart, ShareInv, Hands
  <2> QED BY <1>1, <1>2, <1>3, <1>4, <2>1, <2>2, <2>3 DEF Apart, ShareInv, Hands
<1> QED BY <1>11, <1>12, <1>13, <1>14, <1>15 DEF Hands

\* push() and Return() only move an entry, and so does pop_batch().
LEMMA KeepingStep ==
  ASSUME ShareInv, NEW p \in PE, Push(p) \/ Pop(p) \/ Return(p)
  PROVE  UNCHANGED H!vars /\ Hands'
<1>1. /\ UNCHANGED <<dist, net, created, processed, control, expanding, left, calling, old>>
      /\ \A q \in PE \ {p} : batch'[q] = batch[q] /\ won'[q] = won[q]
  BY DEF Push, Pop, Return, ShareInv, Hands, HandTypes
<1>2. HandTypes /\ Calls /\ Entries /\ Apart
  BY DEF ShareInv, Hands
<1>3. /\ queued' \cup Keeping(p)' = queued \cup Keeping(p)
      /\ queued' \cap Keeping(p)' = {} /\ batch'[p] \cap won'[p] = {}
      /\ \A u \in batch'[p] : p \in Shares[u.to]
      /\ batch' \in [PE -> SUBSET Update] /\ won' \in [PE -> SUBSET Update]
      /\ calling[p] = {} \/ won'[p] = {}
  <2>1. queued \cap Keeping(p) = {} /\ batch[p] \cap won[p] = {}
    BY <1>2 DEF Apart
  <2>2. CASE Push(p)
    <3>1. queued' = queued \cup won[p] /\ won' = [won EXCEPT ![p] = {}] /\ batch' = batch
      BY <2>2 DEF Push
    <3>2. won'[p] = {}
      BY <1>2, <3>1 DEF HandTypes
    <3> QED BY <1>2, <2>1, <3>1, <3>2 DEF Keeping, HandTypes, Entries
  <2>3. CASE Pop(p)
    <3>1. PICK us \in SUBSET {u \in queued : p \in Shares[u.to]} :
            batch' = [batch EXCEPT ![p] = us] /\ queued' = queued \ us
      BY <2>3 DEF Pop
    <3>2. batch[p] = {} /\ won[p] = {} /\ won' = won /\ batch'[p] = us
      BY <1>2, <2>3, <3>1 DEF Pop, Idle, HandTypes
    <3> QED BY <1>2, <2>1, <3>1, <3>2 DEF Keeping, HandTypes, Entries
  <2>4. CASE Return(p)
    <3>1. PICK u \in batch[p] :
            batch' = [batch EXCEPT ![p] = @ \ {u}] /\ queued' = queued \cup {u}
      BY <2>4 DEF Return
    <3>2. won[p] = {} /\ won' = won /\ batch'[p] = batch[p] \ {u}
      BY <1>2, <2>4, <3>1 DEF Return, Free, HandTypes
    <3> QED BY <1>2, <2>1, <3>1, <3>2 DEF Keeping, HandTypes, Entries
  <2> QED BY <2>2, <2>3, <2>4
<1>4. \A q \in PE : Owed(q)' = Owed(q)
  BY <1>1, OwedStays
<1>5. \A q \in PE \ {p} : Keeping(q)' = Keeping(q)
  BY <1>1 DEF Keeping
<1>6. Waiting' = Waiting
  BY <1>3, <1>5 DEF Waiting
<1>7. UNCHANGED <<Sending, Made, Retired>>
  BY <1>1, <1>4 DEF Sending, Made, Retired, Passing
<1>8. UNCHANGED H!vars
  BY <1>1, <1>6, <1>7 DEF H!vars, H!pevars, H!mainvars, control, mainvars
<1>9. HandTypes'
  <2>1. queued' \subseteq Update
    BY <1>2, <1>3 DEF HandTypes, Keeping
  <2> QED BY <1>1, <1>2, <1>3, <2>1 DEF HandTypes
<1>10. Calls'
  BY <1>1, <1>2, <1>3 DEF Calls
<1>11. Entries'
  BY <1>1, <1>2, <1>3 DEF Entries
<1>12. Apart'
  <2>1. \A q \in PE : Passing(q)' = Passing(q)
    BY <1>1, <1>4 DEF Passing
  <2>2. \A q \in PE \ {p} : (queued' \cup Keeping(p)') \cap Keeping(q)' = {}
    BY <1>2, <1>3, <1>5 DEF Apart
  <2>3. ASSUME NEW q \in PE
        PROVE  /\ net' \cap Passing(q)' = {} /\ calling'[q] \cap Owed(q)' = {}
               /\ queued' \cap Keeping(q)' = {} /\ batch'[q] \cap won'[q] = {}
    BY <1>1, <1>2, <1>3, <1>4, <2>1, <2>2 DEF Apart
  <2>4. ASSUME NEW q \in PE, NEW r \in PE \ {q}
        PROVE  Passing(q)' \cap Passing(r)' = {} /\ Keeping(q)' \cap Keeping(r)' = {}
    BY <1>2, <1>5, <2>1, <2>2 DEF Apart
  <2> QED BY <2>3, <2>4 DEF Apart
<1> QED BY <1>8, <1>9, <1>10, <1>11, <1>12 DEF Hands

\* The update of an edge was owed, and is now in a call or with htram.
LEMMA RelaxStep ==
  ASSUME ShareInv, NEW p \in PE, Relax(p)
  PROVE  UNCHANGED H!vars /\ Hands'
<1>1. PICK u \in expanding[p], e \in left[p] :
        /\ left' = [left EXCEPT ![p] = @ \ {e}]
        /\ created' = Count(created, p, {Sent(u, e)})
        /\ IF p \in Shares[To[e]]
           THEN Call(p, Sent(u, e)) /\ UNCHANGED net
           ELSE net' = net \cup {Sent(u, e)} /\ UNCHANGED <<calling, old>>
  BY DEF Relax
<1> DEFINE k == Sent(u, e)
<1>2. /\ UNCHANGED <<dist, queued, processed, control, batch, expanding, won>>
      /\ calling[p] = {} /\ won[p] = {}
  BY DEF Relax, Free
<1>3. HandTypes /\ Calls /\ Entries /\ Apart
  BY DEF ShareInv, Hands
<1>4. expanding[p] = {u} /\ u \in Update /\ e \in Edge
  BY <1>3 DEF Entries, HandTypes
<1>5. k \in Update /\ k.to = To[e] /\ k.via = e /\ k.to \in Vertex /\ dist[k.to] \in Distance
  BY <1>4, Filters, LiveApart DEF Sent, Relaxation, Update
<1>6. left'[p] = left[p] \ {e} /\ \A q \in PE \ {p} : left'[q] = left[q]
  BY <1>1, <1>3 DEF HandTypes
<1>7. Owed(p) = {Sent(u, f) : f \in left[p]} /\ Owed(p)' = {Sent(u, f) : f \in left'[p]}
  BY <1>2, <1>4 DEF Owed, Sent
<1>8. \A f : Sent(u, f) = k => f = e
  BY DEF Sent, Relaxation
<1>9. k \in Owed(p) /\ Owed(p)' = Owed(p) \ {k}
  BY <1>1, <1>6, <1>7, <1>8
<1>10. \A q \in PE \ {p} : Owed(q)' = Owed(q)
  BY <1>2, <1>6, OwedStays
<1>11. /\ created'[p] = created[p] \cup {k} /\ \A q \in PE \ {p} : created'[q] = created[q]
       /\ created' \in [PE -> SUBSET Update]
  BY <1>1, <1>3, <1>5 DEF HandTypes, Count
<1>12. \/ /\ p \in Shares[k.to] /\ net' = net /\ calling'[p] = {k} /\ old'[p] = dist[k.to]
          /\ calling' \in [PE -> SUBSET Update] /\ old' \in [PE -> Distance]
          /\ \A q \in PE \ {p} : calling'[q] = calling[q] /\ old'[q] = old[q]
       \/ net' = net \cup {k} /\ calling' = calling /\ old' = old
  BY <1>1, <1>3, <1>5 DEF HandTypes, Call
<1>13. net' \cup Passing(p)' = net \cup Passing(p) /\ net' \cap Passing(p)' = {}
       /\ calling'[p] \cap Owed(p)' = {}
  BY <1>2, <1>3, <1>9, <1>12 DEF Passing, Apart
<1>14. \A q \in PE \ {p} : Passing(q)' = Passing(q) /\ calling'[q] = calling[q]
  BY <1>10, <1>12 DEF Passing
<1>15. Sending' = Sending
  BY <1>13, <1>14 DEF Sending
<1>16. Made' = Made
  <2>1. \A q \in PE : created'[q] \cup Owed(q)' = created[q] \cup Owed(q)
    BY <1>9, <1>10, <1>11
  <2> QED BY <2>1 DEF Made
<1>17. Waiting' = Waiting /\ Retired' = Retired /\ \A q \in PE : Keeping(q)' = Keeping(q)
  BY <1>2 DEF Waiting, Retired, Keeping
<1>18. UNCHANGED H!vars
  BY <1>2, <1>15, <1>16, <1>17 DEF H!vars, H!pevars, H!mainvars, control, mainvars
<1>19. HandTypes'
  <2>1. left' \in [PE -> SUBSET Edge]
    BY <1>1, <1>3 DEF HandTypes
  <2> QED BY <1>2, <1>3, <1>5, <1>11, <1>12, <2>1 DEF HandTypes
<1>20. Calls'
  <2>1. dist[k.to] \in Nat
    BY <1>5, Filters
  <2> QED BY <1>2, <1>3, <1>12, <2>1 DEF Calls
<1>21. Entries'
  BY <1>2, <1>3 DEF Entries
<1>22. Apart'
  <2>1. \A q \in PE \ {p} : (net' \cup Passing(p)') \cap Passing(q)' = {}
    BY <1>3, <1>13, <1>14 DEF Apart
  <2>2. ASSUME NEW q \in PE
        PROVE  /\ net' \cap Passing(q)' = {} /\ calling'[q] \cap Owed(q)' = {}
               /\ queued' \cap Keeping(q)' = {} /\ batch'[q] \cap won'[q] = {}
    BY <1>2, <1>3, <1>10, <1>13, <1>14, <1>17, <2>1 DEF Apart
  <2>3. ASSUME NEW q \in PE, NEW r \in PE \ {q}
        PROVE  Passing(q)' \cap Passing(r)' = {} /\ Keeping(q)' \cap Keeping(r)' = {}
    BY <1>3, <1>14, <1>17, <2>1 DEF Apart
  <2> QED BY <2>2, <2>3 DEF Apart
<1> QED BY <1>18, <1>19, <1>20, <1>21, <1>22 DEF Hands

\* An entry whose edges are done was retired when it was compared.
LEMMA EndStep ==
  ASSUME ShareInv, NEW p \in PE, End(p)
  PROVE  UNCHANGED H!vars /\ Hands'
<1>1. /\ UNCHANGED <<dist, net, queued, created, control, batch, left, calling, old, won>>
      /\ left[p] = {} /\ calling[p] = {} /\ won[p] = {}
      /\ processed' = Count(processed, p, expanding[p])
      /\ expanding' = [expanding EXCEPT ![p] = {}]
  BY DEF End, Free
<1>2. HandTypes /\ Calls /\ Entries /\ Apart
  BY DEF ShareInv, Hands
<1>3. expanding'[p] = {} /\ \A q \in PE \ {p} : expanding'[q] = expanding[q]
  BY <1>1, <1>2 DEF HandTypes
<1>4. /\ processed'[p] = processed[p] \cup expanding[p]
      /\ \A q \in PE \ {p} : processed'[q] = processed[q]
      /\ processed' \in [PE -> SUBSET Update]
  BY <1>1, <1>2 DEF HandTypes, Count
<1>5. \A q \in PE : Owed(q)' = Owed(q)
  <2>1. Owed(p) = {} /\ Owed(p)' = {}
    BY <1>1, PlacesNow, PlacesNext DEF Places
  <2> QED BY <1>1, <1>3, <2>1, OwedStays
<1>6. UNCHANGED <<Sending, Waiting, Made>> /\ \A q \in PE : UNCHANGED <<Passing(q), Keeping(q)>>
  BY <1>1, <1>5 DEF Sending, Waiting, Made, Passing, Keeping
<1>7. Retired' = Retired
  <2>1. \A q \in PE : processed'[q] \cup expanding'[q] = processed[q] \cup expanding[q]
    BY <1>3, <1>4
  <2> QED BY <2>1 DEF Retired
<1>8. UNCHANGED H!vars
  BY <1>1, <1>6, <1>7 DEF H!vars, H!pevars, H!mainvars, control, mainvars
<1>9. HandTypes'
  BY <1>1, <1>2, <1>4 DEF HandTypes
<1>10. Calls' /\ Entries'
  BY <1>1, <1>2, <1>3 DEF Calls, Entries
<1>11. Apart'
  BY <1>1, <1>2, <1>5, <1>6 DEF Apart
<1> QED BY <1>8, <1>9, <1>10, <1>11 DEF Hands

\* The comparison of an entry is its expansion.
LEMMA BeginStep ==
  ASSUME ShareInv, NEW p \in PE, Begin(p)
  PROVE  (\E u \in Waiting : H!Expand(p, u)) /\ Hands'
<1>1. PICK u \in batch[p] :
        /\ batch' = [batch EXCEPT ![p] = @ \ {u}]
        /\ IF u.d = dist[u.to]
           THEN /\ expanding' = [expanding EXCEPT ![p] = {u}]
                /\ left' = [left EXCEPT ![p] = Out(u.to)]
                /\ UNCHANGED processed
           ELSE /\ processed' = Count(processed, p, {u})
                /\ UNCHANGED <<expanding, left>>
  BY DEF Begin
<1>2. /\ UNCHANGED <<dist, net, queued, created, control, calling, old, won>>
      /\ calling[p] = {} /\ won[p] = {} /\ expanding[p] = {}
  BY DEF Begin, Free
<1>3. HandTypes /\ Calls /\ Entries /\ Apart
  BY DEF ShareInv, Hands
<1> DEFINE sent == H!Relaxations(u)
<1>4. u \in Update /\ u \in Waiting /\ p \in Shares[u.to] /\ u.to \in Vertex
  BY <1>3, PlacesNow DEF HandTypes, Entries, Update, Places
<1>5. /\ batch'[p] = batch[p] \ {u} /\ \A q \in PE \ {p} : batch'[q] = batch[q]
      /\ batch' \in [PE -> SUBSET Update]
  BY <1>1, <1>3 DEF HandTypes
<1>6. /\ \A q \in PE \ {p} : /\ expanding'[q] = expanding[q] /\ left'[q] = left[q]
                             /\ processed'[q] = processed[q]
      /\ expanding' \in [PE -> SUBSET Update] /\ left' \in [PE -> SUBSET Edge]
      /\ processed' \in [PE -> SUBSET Update]
      /\ processed'[p] \cup expanding'[p] = processed[p] \cup expanding[p] \cup {u}
      /\ expanding'[p] \subseteq {u}
  <2>1. Out(u.to) \subseteq Edge
    BY DEF Out
  <2>2. CASE u.d = dist[u.to]
    BY <1>1, <1>2, <1>3, <1>4, <2>1, <2>2 DEF HandTypes
  <2>3. CASE u.d # dist[u.to]
    BY <1>1, <1>2, <1>3, <1>4, <2>3 DEF HandTypes, Count
  <2> QED BY <2>2, <2>3
<1>7. Owed(p) = {} /\ Owed(p)' = sent
  <2>1. Owed(p) = {}
    BY <1>2, PlacesNow DEF Places
  <2>2. CASE u.d = dist[u.to]
    <3>1. expanding'[p] = {u} /\ left'[p] = Out(u.to)
      BY <1>1, <1>3, <2>2 DEF HandTypes
    <3>2. sent = {Relaxation(e, u.d) : e \in Out(u.to)}
      BY <2>2, SameData DEF H!Relaxations
    <3> QED BY <2>1, <3>1, <3>2 DEF Owed, Sent
  <2>3. CASE u.d # dist[u.to]
    <3>1. expanding'[p] = {} /\ sent = {}
      BY <1>1, <1>2, <2>3 DEF H!Relaxations
    <3> QED BY <2>1, <3>1, PlacesNext DEF Places
  <2> QED BY <2>2, <2>3
<1>8. \A q \in PE \ {p} : Owed(q)' = Owed(q)
  BY <1>6, OwedStays
<1>9. sent \cap Sending = {} /\ u \notin queued
      /\ \A q \in PE \ {p} : u \notin batch[q] /\ u \notin won[q]
  <2>1. sent \cap Sending = {}
    BY <1>4, LiveApart
  <2> QED BY <1>3, <2>1 DEF Apart, Keeping
<1>10. Passing(p) = {} /\ Passing(p)' = sent /\ \A q \in PE \ {p} : Passing(q)' = Passing(q)
  BY <1>2, <1>7, <1>8 DEF Passing
<1>11. Keeping(p)' = Keeping(p) \ {u} /\ \A q \in PE \ {p} : Keeping(q)' = Keeping(q)
  BY <1>2, <1>5 DEF Keeping
<1>12. Sending' = Sending \cup sent
  BY <1>2, <1>10 DEF Sending
<1>13. Waiting' = Waiting \ {u}
  <2>1. \A q \in PE \ {p} : u \notin Keeping(q)
    BY <1>9 DEF Keeping
  <2> QED BY <1>2, <1>9, <1>11, <2>1 DEF Waiting
<1>14. Made' = H!Count(Made, p, sent)
  <2>1. \A q \in PE : Made'[q] = IF q = p THEN Made[q] \cup sent ELSE Made[q]
    BY <1>2, <1>7, <1>8 DEF Made
  <2> QED BY <2>1 DEF Made, H!Count
<1>15. Retired' = H!Count(Retired, p, {u})
  <2>1. \A q \in PE : Retired'[q] = IF q = p THEN Retired[q] \cup {u} ELSE Retired[q]
    BY <1>6 DEF Retired
  <2> QED BY <2>1 DEF Retired, H!Count
<1>16. H!Expand(p, u)
  <2>1. \A k \in sent \ sent : H!Covered(p, k, sent)
    OBVIOUS
  <2>2. UNCHANGED <<dist, contributed, snapCreated, snapProcessed, H!mainvars>>
    BY <1>2 DEF control, mainvars, H!mainvars
  <2> HIDE DEF sent
  <2>3. sent = H!Relaxations(u)
    BY DEF sent
  <2> QED BY <1>4, <1>12, <1>13, <1>14, <1>15, <2>1, <2>2, <2>3 DEF H!Expand
<1>17. HandTypes'
  BY <1>2, <1>3, <1>5, <1>6 DEF HandTypes
<1>18. Calls' /\ Entries'
  BY <1>2, <1>3, <1>5, <1>6 DEF Calls, Entries
<1>19. Apart'
  <2>1. sent \cap net = {} /\ \A q \in PE \ {p} : sent \cap Passing(q) = {}
    BY <1>9 DEF Sending
  <2>2. \A q \in PE \ {p} : Keeping(p)' \cap Keeping(q) = {}
    BY <1>3, <1>11 DEF Apart
  <2>3. ASSUME NEW q \in PE
        PROVE  /\ net' \cap Passing(q)' = {} /\ calling'[q] \cap Owed(q)' = {}
               /\ queued' \cap Keeping(q)' = {} /\ batch'[q] \cap won'[q] = {}
    BY <1>2, <1>3, <1>5, <1>8, <1>10, <1>11, <2>1 DEF Apart
  <2>4. ASSUME NEW q \in PE, NEW r \in PE \ {q}
        PROVE  Passing(q)' \cap Passing(r)' = {} /\ Keeping(q)' \cap Keeping(r)' = {}
    BY <1>3, <1>10, <1>11, <2>1, <2>2 DEF Apart
  <2> QED BY <2>3, <2>4 DEF Apart
<1> QED BY <1>4, <1>16, <1>17, <1>18, <1>19 DEF Hands

\* A compare-and-swap that succeeds applies the update, one that fails reads
\* again, and an update that is no smaller is rejected.
LEMMA AttemptStep ==
  ASSUME ShareInv, NEW p \in PE, Attempt(p)
  PROVE  (UNCHANGED H!vars \/ \E u \in Sending : H!Receive(p, u)) /\ Hands'
<1>1. PICK u \in calling[p] :
       \/ /\ u.d < old[p] /\ dist[u.to] = old[p]
          /\ dist' = [dist EXCEPT ![u.to] = u.d]
          /\ calling' = [calling EXCEPT ![p] = {}]
          /\ IF QueueWorthy(u.to, u.d)
             THEN won' = [won EXCEPT ![p] = {u}] /\ UNCHANGED processed
             ELSE processed' = Count(processed, p, {u}) /\ UNCHANGED won
          /\ UNCHANGED old
       \/ /\ u.d < old[p]
          /\ old' = [old EXCEPT ![p] = dist[u.to]]
          /\ UNCHANGED <<dist, calling, won, processed>>
       \/ /\ u.d >= old[p]
          /\ processed' = Count(processed, p, {u})
          /\ calling' = [calling EXCEPT ![p] = {}]
          /\ UNCHANGED <<dist, old, won>>
  BY DEF Attempt, Swaps
<1>2. UNCHANGED <<net, queued, created, control, batch, expanding, left>>
  BY DEF Attempt
<1>3. HandTypes /\ Calls /\ Entries /\ Apart
  BY DEF ShareInv, Hands
<1>4. /\ u \in Update /\ u \in Sending /\ u \notin Waiting /\ u.to \in Vertex /\ u.d \in Nat
      /\ p \in Shares[u.to] /\ dist[u.to] \in Nat /\ old[p] \in Nat /\ dist[u.to] <= old[p]
      /\ calling[p] = {u} /\ won[p] = {}
  BY <1>3, PlacesNow, LiveApart, Filters DEF HandTypes, Calls, Update, Places
<1>5. \A q \in PE : Owed(q)' = Owed(q)
  BY <1>2, OwedStays
<1>6. CASE UNCHANGED <<dist, calling, won, processed>> /\ old' = [old EXCEPT ![p] = dist[u.to]]
  <2>1. /\ UNCHANGED <<Sending, Waiting, Made, Retired>>
        /\ \A q \in PE : UNCHANGED <<Passing(q), Keeping(q)>>
    BY <1>2, <1>5, <1>6 DEF Sending, Waiting, Made, Retired, Passing, Keeping
  <2>2. UNCHANGED H!vars
    BY <1>2, <1>6, <2>1 DEF H!vars, H!pevars, H!mainvars, control, mainvars
  <2>3. old'[p] = dist[u.to] /\ \A q \in PE \ {p} : old'[q] = old[q]
    BY <1>3, <1>6 DEF HandTypes
  <2>4. HandTypes'
    BY <1>2, <1>3, <1>4, <1>6, LiveApart DEF HandTypes
  <2>5. Calls' /\ Entries'
    BY <1>2, <1>3, <1>4, <1>6, <2>3 DEF Calls, Entries
  <2>6. Apart'
    BY <1>2, <1>3, <1>5, <1>6, <2>1 DEF Apart
  <2> QED BY <2>2, <2>4, <2>5, <2>6 DEF Hands
<1>7. CASE calling' = [calling EXCEPT ![p] = {}] /\ old' = old
  <2>1. /\ calling'[p] = {} /\ \A q \in PE \ {p} : calling'[q] = calling[q]
        /\ calling' \in [PE -> SUBSET Update]
    BY <1>3, <1>7 DEF HandTypes
  <2>1a. \/ /\ u.d < old[p] /\ dist[u.to] = old[p] /\ dist' = [dist EXCEPT ![u.to] = u.d]
            /\ IF Out(u.to) # {}
               THEN won' = [won EXCEPT ![p] = {u}] /\ UNCHANGED processed
               ELSE processed' = Count(processed, p, {u}) /\ UNCHANGED won
         \/ ~(u.d < old[p]) /\ processed' = Count(processed, p, {u}) /\ UNCHANGED <<dist, won>>
    <3>1. QueueWorthy(u.to, u.d) <=> Out(u.to) # {}
      BY SameData
    <3>2. calling' # calling
      BY <1>4, <2>1
    <3> QED BY <1>1, <1>4, <3>1, <3>2
  <2>2. Passing(p)' = Passing(p) \ {u} /\ \A q \in PE \ {p} : Passing(q)' = Passing(q)
    BY <1>3, <1>4, <1>5, <2>1 DEF Passing, Apart
  <2>3. Sending' = Sending \ {u}
    <3>1. u \in Passing(p) /\ u \notin net /\ \A q \in PE \ {p} : u \notin Passing(q)
      BY <1>3 DEF Apart, Passing
    <3> QED BY <1>2, <2>2, <3>1 DEF Sending
  <2>4. Made' = Made
    BY <1>2, <1>5 DEF Made
  <2>5. /\ H!Apply(p, u) /\ HandTypes' /\ \A v \in Vertex : dist'[v] <= dist[v]
        /\ Keeping(p)' \subseteq Keeping(p) \cup {u} /\ \A q \in PE \ {p} : Keeping(q)' = Keeping(q)
        /\ batch'[p] \cap won'[p] = {}
    <3>0. /\ Keeping(p) = batch[p] /\ u \notin batch[p]
          /\ dist \in [Vertex -> Distance] /\ \A v \in Vertex : dist[v] \in Nat
      BY <1>4, LiveApart, PlacesNow, Filters DEF Keeping, Places
    <3>1. CASE u.d < dist[u.to] /\ Out(u.to) # {}
      <4>1. /\ dist' = [dist EXCEPT ![u.to] = u.d] /\ processed' = processed
            /\ won' = [won EXCEPT ![p] = {u}]
        BY <1>4, <2>1a, <3>1
      <4>2. won'[p] = {u} /\ \A q \in PE \ {p} : won'[q] = won[q]
        BY <1>3, <4>1 DEF HandTypes
      <4>3. Keeping(p)' = Keeping(p) \cup {u} /\ \A q \in PE \ {p} : Keeping(q)' = Keeping(q)
        BY <1>2, <1>4, <4>2 DEF Keeping
      <4>4. Waiting' = Waiting \cup {u}
        BY <1>2, <4>3 DEF Waiting
      <4>5. Retired' = Retired
        BY <1>2, <4>1 DEF Retired
      <4>6. H!Apply(p, u)
        BY <3>1, <4>1, <4>4, <4>5, SameData DEF H!Apply
      <4>7. HandTypes'
        BY <1>2, <1>3, <1>4, <1>7, <2>1, <4>1 DEF HandTypes
      <4>8. \A v \in Vertex : dist'[v] <= dist[v]
        <5>1. \A v \in Vertex : dist'[v] = IF v = u.to THEN u.d ELSE dist[v]
          BY <1>4, <3>0, <4>1
        <5> QED BY <1>4, <3>0, <3>1, <5>1
      <4>9. batch'[p] \cap won'[p] = {}
        BY <1>2, <3>0, <4>2
      <4> QED BY <4>3, <4>6, <4>7, <4>8, <4>9
    <3>2. CASE ~(u.d < dist[u.to] /\ Out(u.to) # {})
      <4>1. /\ processed' = Count(processed, p, {u}) /\ won' = won
            /\ IF u.d < dist[u.to] THEN dist' = [dist EXCEPT ![u.to] = u.d] ELSE dist' = dist
        BY <1>4, <2>1a, <3>2
      <4>2. /\ processed'[p] = processed[p] \cup {u}
            /\ \A q \in PE \ {p} : processed'[q] = processed[q]
            /\ processed' \in [PE -> SUBSET Update]
        BY <1>3, <1>4, <4>1 DEF Count, HandTypes
      <4>3. \A q \in PE : Keeping(q)' = Keeping(q)
        BY <1>2, <4>1 DEF Keeping
      <4>4. Waiting' = Waiting
        BY <1>2, <4>3 DEF Waiting
      <4>5. Retired' = H!Count(Retired, p, {u})
        <5>1. \A q \in PE : Retired'[q] = IF q = p THEN Retired[q] \cup {u} ELSE Retired[q]
          BY <1>2, <4>2 DEF Retired
        <5> QED BY <5>1 DEF Retired, H!Count
      <4>6. H!Apply(p, u)
        BY <3>2, <4>1, <4>4, <4>5, SameData DEF H!Apply
      <4>7. HandTypes'
        BY <1>2, <1>3, <1>7, <2>1, <4>1, <4>2 DEF HandTypes
      <4> QED BY <1>2, <1>3, <1>4, <3>0, <4>1, <4>3, <4>6, <4>7 DEF Apart
    <3> QED BY <3>1, <3>2
  <2>6. H!Receive(p, u)
    <3>1. UNCHANGED <<Made, contributed, snapCreated, snapProcessed, H!mainvars>>
      BY <1>2, <2>4 DEF control, mainvars, H!mainvars
    <3> QED BY <1>4, <2>3, <2>5, <3>1 DEF H!Receive
  <2>7. Calls'
    <3>1. ASSUME NEW q \in PE, NEW w \in calling'[q]
          PROVE  q \in Shares[w.to] /\ dist'[w.to] <= old'[q]
      <4>1. w \in calling[q] /\ w.to \in Vertex
        BY <1>3, <2>1 DEF HandTypes, Update
      <4>2. q \in Shares[w.to] /\ dist[w.to] <= old[q] /\ dist'[w.to] <= dist[w.to]
        BY <1>3, <2>5, <4>1 DEF Calls
      <4>3. dist[w.to] \in Nat /\ old[q] \in Nat
        BY <1>3, <4>1, LiveApart, Filters DEF HandTypes
      <4>4. dist'[w.to] \in Nat
        BY <1>1, <1>4, <4>1, <4>3, LiveApart
      <4> QED BY <1>7, <4>2, <4>3, <4>4
    <3>2. \A q \in PE : calling'[q] = {} \/ won'[q] = {}
      BY <1>1, <1>3, <1>7, <2>1 DEF Calls, HandTypes
    <3>3. \A q \in PE : \A v, w \in calling'[q] : v = w
      BY <1>3, <2>1 DEF Calls
    <3> QED BY <3>1, <3>2, <3>3 DEF Calls
  <2>8. Entries'
    BY <1>2, <1>3 DEF Entries
  <2>9. Apart'
    <3>1. u \notin queued /\ \A q \in PE : u \notin Keeping(q)
      BY <1>4 DEF Waiting
    <3>2. ASSUME NEW q \in PE
          PROVE  /\ net' \cap Passing(q)' = {} /\ calling'[q] \cap Owed(q)' = {}
                 /\ queued' \cap Keeping(q)' = {}
      BY <1>2, <1>3, <1>5, <2>1, <2>2, <2>5, <3>1 DEF Apart
    <3>3. ASSUME NEW q \in PE
          PROVE  batch'[q] \cap won'[q] = {}
      <4>1. q # p => won'[q] = won[q]
        BY <1>1, <1>3, <1>7 DEF HandTypes
      <4> QED BY <1>2, <1>3, <2>5, <4>1 DEF Apart
    <3>4. ASSUME NEW q \in PE, NEW r \in PE \ {q}
          PROVE  Passing(q)' \cap Passing(r)' = {} /\ Keeping(q)' \cap Keeping(r)' = {}
      BY <1>3, <2>2, <2>5, <3>1 DEF Apart
    <3> QED BY <3>2, <3>3, <3>4 DEF Apart
  <2> QED BY <1>4, <2>5, <2>6, <2>7, <2>8, <2>9 DEF Hands
<1> QED BY <1>1, <1>6, <1>7

\* The first update finds nothing in any hand.
LEMMA StartStep ==
  ASSUME ShareInv, NEW p \in PE, ShareStart(p)
  PROVE  H!Start(p) /\ Hands'
<1>1. /\ p = Owner[Source] /\ SourceUpdate \notin created[p]
      /\ created' = Count(created, p, {SourceUpdate})
      /\ Apply(p, SourceUpdate)
      /\ UNCHANGED <<net, contributed, snapCreated, snapProcessed, mainvars, hands>>
      /\ expanding[p] = {}
  BY DEF ShareStart, Start, Idle
<1>2. HandTypes /\ Calls /\ Entries /\ Apart
  BY DEF ShareInv, Hands
<1>3. UNCHANGED <<batch, expanding, left, calling, old, won>>
  BY <1>1 DEF hands
<1>4. \A q \in PE : Owed(q)' = Owed(q)
  BY <1>3, OwedStays
<1>5. Owed(p) = {} /\ Made[p] = created[p]
  <2>1. Owed(p) = {}
    BY <1>1, PlacesNow DEF Places
  <2> QED BY <2>1 DEF Made
<1>6. Sending = {} /\ Waiting = {}
  <2>1. H!All(Made) = {} \/ SourceUpdate \in Made[p]
    BY <1>1, SameData DEF ShareInv, H!Expansion, H!Started
  <2> QED BY <1>1, <1>5, <2>1, LiveApart
<1>7. \A q \in PE : Passing(q) = {} /\ Keeping(q) = {}
  BY <1>6 DEF Sending, Waiting
<1>8. net = {} /\ queued = {} /\ \A q \in PE : calling[q] = {} /\ batch[q] = {} /\ won[q] = {}
  BY <1>6, <1>7 DEF Sending, Waiting, Passing, Keeping
<1>9. \A q \in PE : UNCHANGED <<Passing(q), Keeping(q)>>
  BY <1>3, <1>4 DEF Passing, Keeping
<1>10. /\ created' \in [PE -> SUBSET Update]
       /\ \A q \in PE : created'[q] = IF q = p THEN created[q] \cup {SourceUpdate} ELSE created[q]
  <2>1. SourceUpdate \in Update
    BY Filters DEF SourceUpdate, Update
  <2> QED BY <1>1, <1>2, <2>1 DEF Count, HandTypes
<1>11. Sending' = Sending /\ Made' = H!Count(Made, p, {SourceUpdate})
  <2>1. \A q \in PE : Made'[q] = IF q = p THEN Made[q] \cup {SourceUpdate} ELSE Made[q]
    BY <1>4, <1>10 DEF Made
  <2>2. Sending' = Sending
    BY <1>1, <1>9 DEF Sending
  <2> QED BY <2>1, <2>2 DEF Made, H!Count
<1>12. /\ Waiting' = queued' \cup Waiting
       /\ queued' \subseteq {SourceUpdate} /\ processed' \in [PE -> SUBSET Update]
  <2>1. Waiting' = queued' \cup Waiting
    BY <1>8, <1>9 DEF Waiting
  <2>2. {SourceUpdate} \subseteq Update
    BY Filters DEF SourceUpdate, Update
  <2>3. Count(processed, p, {SourceUpdate}) \in [PE -> SUBSET Update]
    BY <1>2, <2>2 DEF HandTypes, Count
  <2> QED BY <1>1, <1>2, <1>8, <2>1, <2>3 DEF Apply, HandTypes
<1>13. H!Apply(p, SourceUpdate)
  <2> DEFINE u == SourceUpdate
  <2>1. ASSUME processed' = processed PROVE Retired' = Retired
    BY <1>3, <2>1 DEF Retired
  <2>2. ASSUME processed' = Count(processed, p, {u}) PROVE Retired' = H!Count(Retired, p, {u})
    <3>1. \A q \in PE : Retired'[q] = IF q = p THEN Retired[q] \cup {u} ELSE Retired[q]
      BY <1>2, <1>3, <2>2 DEF Retired, Count, HandTypes
    <3> QED BY <3>1 DEF Retired, H!Count
  <2>3. queued' = queued => Waiting' = Waiting
    BY <1>6, <1>8, <1>12
  <2>4. queued' = queued \cup {u} => Waiting' = Waiting \cup {u}
    BY <1>6, <1>8, <1>12
  <2>5. H!QueueWorthy(u.to, u.d) <=> QueueWorthy(u.to, u.d)
    BY SameData
  <2> HIDE DEF u
  <2>6. Apply(p, u)
    BY <1>1 DEF u
  <2>7. H!Apply(p, u)
    BY <2>1, <2>2, <2>3, <2>4, <2>5, <2>6 DEF Apply, H!Apply
  <2> QED BY <2>7 DEF u
<1>14. H!Start(p)
  <2>1. UNCHANGED <<contributed, snapCreated, snapProcessed, H!mainvars>>
    BY <1>1 DEF mainvars, H!mainvars
  <2> QED BY <1>1, <1>5, <1>11, <1>13, <2>1, SameData DEF H!Start
<1>15. HandTypes'
  <2>1. SourceUpdate \in Update
    BY Filters DEF SourceUpdate, Update
  <2> QED BY <1>1, <1>2, <1>3, <1>10, <1>12, <2>1 DEF HandTypes
<1>16. Calls' /\ Entries'
  BY <1>2, <1>3, <1>8 DEF Calls, Entries
<1>17. Apart'
  BY <1>3, <1>7, <1>8, <1>9 DEF Apart
<1> QED BY <1>14, <1>15, <1>16, <1>17 DEF Hands

\* A worker contributes with empty hands, so its counters are Solver's.
LEMMA ContributeStep ==
  ASSUME ShareInv, NEW p \in PE, ShareContribute(p)
  PROVE  H!Contribute(p) /\ Hands'
<1>1. /\ UNCHANGED <<dist, net, queued, created, processed, batch, expanding, left, calling, old, won>>
      /\ expanding[p] = {} /\ Contribute(p)
  BY DEF ShareContribute, Contribute, Idle, pevars, hands
<1>2. \A q \in PE : Owed(q)' = Owed(q)
  BY <1>1, OwedStays
<1>3. Owed(p) = {} /\ Made[p] = created[p] /\ Retired[p] = processed[p]
  BY <1>1, PlacesNow DEF Places
<1>4. /\ UNCHANGED <<Sending, Waiting, Made, Retired>>
      /\ \A q \in PE : UNCHANGED <<Passing(q), Keeping(q)>>
  BY <1>1, <1>2 DEF Sending, Waiting, Made, Retired, Passing, Keeping
<1>5. H!Contribute(p)
  BY <1>1, <1>3, <1>4 DEF Contribute, H!Contribute, H!pevars, H!mainvars, mainvars
<1>6. Hands'
  BY <1>1, <1>2, <1>4 DEF ShareInv, Hands, HandTypes, Calls, Entries, Apart
<1> QED BY <1>5, <1>6

-----------------------------------------------------------------------------
(* Solver's operators here and in HandlersSpec *)

LEMMA SameCardinality ==
  \A s : H!Cardinality(s) = Cardinality(s) /\ Handlers!Cardinality(s) = Cardinality(s)
BY DEF H!Cardinality, Handlers!Cardinality, Cardinality

LEMMA SameState ==
  /\ Sending = net \cup UNION {calling[p] \cup Owed(p) : p \in PE}
  /\ Waiting = queued \cup UNION {batch[p] \cup won[p] : p \in PE}
  /\ Made = [p \in PE |-> created[p] \cup Owed(p)]
  /\ Retired = [p \in PE |-> processed[p] \cup expanding[p]]
BY DEF Sending, Waiting, Made, Retired, Passing, Keeping

LEMMA SameStateNext ==
  /\ Sending' = net' \cup UNION {calling'[p] \cup Owed(p)' : p \in PE}
  /\ Waiting' = queued' \cup UNION {batch'[p] \cup won'[p] : p \in PE}
  /\ Made' = [p \in PE |-> created'[p] \cup Owed(p)']
  /\ Retired' = [p \in PE |-> processed'[p] \cup expanding'[p]]
BY DEF Sending, Waiting, Made, Retired, Passing, Keeping

LEMMA SameApply ==
  ASSUME NEW p \in PE, NEW u, H!Apply(p, u)
  PROVE  Handlers!Apply(p, u)
<1>1. Handlers!QueueWorthy(u.to, u.d) <=> H!QueueWorthy(u.to, u.d)
  BY SameCardinality DEF H!QueueWorthy, Handlers!QueueWorthy, H!Out, Handlers!Out
<1> QED BY <1>1, SameState, SameStateNext DEF H!Apply, Handlers!Apply, H!Count, Handlers!Count

LEMMA SameStart ==
  ASSUME NEW p \in PE, H!Start(p)
  PROVE  Handlers!Start(p)
BY SameApply, SameState, SameStateNext
   DEF H!Start, Handlers!Start, H!SourceUpdate, Handlers!SourceUpdate, H!Count, Handlers!Count,
       H!mainvars, Handlers!mainvars

LEMMA SameReceive ==
  ASSUME NEW p \in PE, NEW u, H!Receive(p, u)
  PROVE  Handlers!Receive(p, u)
BY SameApply, SameState, SameStateNext
   DEF H!Receive, Handlers!Receive, H!mainvars, Handlers!mainvars

LEMMA SameExpand ==
  ASSUME NEW p \in PE, NEW u, H!Expand(p, u)
  PROVE  Handlers!Expand(p, u)
<1>1. Handlers!Relaxations(u) = H!Relaxations(u)
  BY DEF H!Relaxations, Handlers!Relaxations, H!Relaxation, Handlers!Relaxation, H!Out, Handlers!Out
<1>2. \A k, sent : H!Covered(p, k, sent) <=> Handlers!Covered(p, k, sent)
  BY SameState DEF H!Covered, Handlers!Covered
<1> QED
  BY <1>1, <1>2, SameState, SameStateNext
     DEF H!Expand, Handlers!Expand, H!Count, Handlers!Count, H!mainvars, Handlers!mainvars

LEMMA SameContribute ==
  ASSUME NEW p \in PE, H!Contribute(p)
  PROVE  Handlers!Contribute(p)
BY SameState, SameStateNext
   DEF H!Contribute, Handlers!Contribute, H!pevars, Handlers!pevars, H!mainvars, Handlers!mainvars

LEMMA SameConverged ==
  /\ H!Converged <=> Converged
  /\ Handlers!Converged <=> Converged
  /\ \A counter : H!All(counter) = All(counter) /\ Handlers!All(counter) = All(counter)
BY SameCardinality DEF H!Converged, Handlers!Converged, Converged, H!All, Handlers!All, All

LEMMA SameFinish == H!Finish => Handlers!Finish
BY SameConverged, SameState, SameStateNext
   DEF H!Finish, Handlers!Finish, H!pevars, Handlers!pevars

LEMMA SameRound == Handlers!NextRound <=> H!NextRound
BY SameConverged, SameState, SameStateNext
   DEF H!NextRound, Handlers!NextRound, H!pevars, Handlers!pevars, H!Nothing, Handlers!Nothing

LEMMA SameNext == [H!Next]_(H!vars) => [Handlers!Next]_(Handlers!vars)
<1> SUFFICES ASSUME [H!Next]_(H!vars) PROVE [Handlers!Next]_(Handlers!vars)
  OBVIOUS
<1>1. CASE UNCHANGED H!vars
  <2>1. UNCHANGED Handlers!vars
    BY <1>1, SameState, SameStateNext
       DEF H!vars, Handlers!vars, H!pevars, Handlers!pevars, H!mainvars, Handlers!mainvars
  <2> QED BY <2>1
<1>2. ASSUME NEW p \in PE, H!Start(p) \/ H!Contribute(p) PROVE Handlers!Next
  BY <1>2, SameStart, SameContribute DEF Handlers!Next
<1>3. ASSUME NEW p \in PE, NEW u \in Sending, H!Receive(p, u) \/ H!Absorb(p, u)
      PROVE  Handlers!Next
  <2>1. ~H!Absorb(p, u)
    BY Filters DEF H!Absorb
  <2>2. Handlers!Receive(p, u)
    BY <1>3, <2>1, SameReceive
  <2> QED BY <2>2, SameState DEF Handlers!Next
<1>4. ASSUME NEW p \in PE, NEW u \in Waiting, H!Expand(p, u) PROVE Handlers!Next
  <2>1. Handlers!Expand(p, u)
    BY <1>4, SameExpand
  <2> QED BY <2>1, SameState DEF Handlers!Next
<1>5. CASE H!Finish \/ H!NextRound
  BY <1>5, SameFinish, SameRound DEF Handlers!Next
<1> QED BY <1>1, <1>2, <1>3, <1>4, <1>5 DEF H!Next

LEMMA SameInit == H!Init => Handlers!Init
BY SameState DEF H!Init, Handlers!Init, H!Nothing, Handlers!Nothing

-----------------------------------------------------------------------------
(* The run *)

LEMMA ShareStarts == ShareInit => H!Init /\ Hands
<1> SUFFICES ASSUME ShareInit PROVE H!Init /\ Hands
  OBVIOUS
<1>1. /\ dist = [v \in Vertex |-> Lmax] /\ net = {} /\ queued = {}
      /\ \A q \in PE : /\ created[q] = {} /\ processed[q] = {} /\ expanding[q] = {}
                       /\ batch[q] = {} /\ calling[q] = {} /\ won[q] = {}
  BY DEF ShareInit, Init, Nothing
<1>2. \A q \in PE : Owed(q) = {}
  BY <1>1, PlacesNow DEF Places
<1>3. \A q \in PE : Passing(q) = {} /\ Keeping(q) = {}
  BY <1>1, <1>2 DEF Passing, Keeping
<1>4. Sending = {} /\ Waiting = {} /\ Made = Nothing /\ Retired = Nothing
  BY <1>1, <1>2, <1>3 DEF Sending, Waiting, Made, Retired, Nothing
<1>5. H!Init
  BY <1>4, SameData DEF ShareInit, Init, H!Init
<1>6. HandTypes
  BY Filters DEF ShareInit, Init, HandTypes, Nothing
<1>7. Calls /\ Entries /\ Apart
  BY <1>1, <1>2, <1>3 DEF Calls, Entries, Apart
<1> QED BY <1>5, <1>6, <1>7 DEF Hands

LEMMA ShareStep ==
  ShareInv /\ [ShareNext]_shareVars => [H!Next]_(H!vars) /\ Hands'
<1> SUFFICES ASSUME ShareInv, [ShareNext]_shareVars PROVE [H!Next]_(H!vars) /\ Hands'
  OBVIOUS
<1>1. ASSUME NEW p \in PE, ShareStart(p) PROVE H!Next /\ Hands'
  BY <1>1, StartStep DEF H!Next
<1>2. ASSUME NEW p \in PE, Arrive(p) \/ Push(p) \/ Pop(p) \/ Return(p) \/ Relax(p) \/ End(p)
      PROVE  UNCHANGED H!vars /\ Hands'
  BY <1>2, ArriveStep, KeepingStep, RelaxStep, EndStep
<1>3. ASSUME NEW p \in PE, Attempt(p) PROVE [H!Next]_(H!vars) /\ Hands'
  BY <1>3, AttemptStep DEF H!Next
<1>4. ASSUME NEW p \in PE, Begin(p) PROVE H!Next /\ Hands'
  BY <1>4, BeginStep DEF H!Next
<1>5. ASSUME NEW p \in PE, ShareContribute(p) PROVE H!Next /\ Hands'
  BY <1>5, ContributeStep DEF H!Next
<1>6. ASSUME UNCHANGED <<dist, net, queued, created, processed, hands>>
      PROVE  Hands' /\ UNCHANGED <<Sending, Waiting, Made, Retired>>
  <2>1. UNCHANGED <<batch, expanding, left, calling, old, won>>
    BY <1>6 DEF hands
  <2>2. \A q \in PE : Owed(q)' = Owed(q)
    BY <2>1, OwedStays
  <2>3. \A q \in PE : UNCHANGED <<Passing(q), Keeping(q)>>
    BY <2>1, <2>2 DEF Passing, Keeping
  <2>4. UNCHANGED <<Sending, Waiting, Made, Retired>>
    BY <1>6, <2>1, <2>2, <2>3 DEF Sending, Waiting, Made, Retired
  <2>5. Hands'
    BY <1>6, <2>1, <2>2, <2>3 DEF ShareInv, Hands, HandTypes, Calls, Entries, Apart
  <2> QED BY <2>4, <2>5
<1>7. CASE Finish /\ UNCHANGED hands
  <2>1. UNCHANGED <<dist, net, queued, created, processed>>
    BY <1>7 DEF Finish, pevars
  <2>2. Hands' /\ UNCHANGED <<Sending, Waiting, Made, Retired>>
    BY <1>6, <1>7, <2>1
  <2>3. H!Finish
    BY <1>7, <2>2, SameConverged DEF Finish, H!Finish, pevars, H!pevars
  <2> QED BY <2>2, <2>3 DEF H!Next
<1>8. CASE ShareRound
  BY <1>6, <1>8, SameRound DEF ShareRound, H!Next
<1>9. CASE UNCHANGED shareVars
  <2>1. UNCHANGED <<dist, net, queued, created, processed, hands>>
    BY <1>9 DEF shareVars, vars, pevars
  <2>2. Hands' /\ UNCHANGED <<Sending, Waiting, Made, Retired>>
    BY <1>6, <2>1
  <2>3. UNCHANGED H!vars
    BY <1>9, <2>2 DEF shareVars, vars, pevars, mainvars, H!vars, H!pevars, H!mainvars
  <2> QED BY <2>2, <2>3
<1> QED BY <1>1, <1>2, <1>3, <1>4, <1>5, <1>7, <1>8, <1>9 DEF ShareNext

LEMMA SolverStarts == H!Init => H!TypeOK /\ H!Expansion /\ H!Accounting
<1>1. H!Init => H!TypeOK
  BY H!TypeInit, Assumed, Zenon
<1>2. H!Init => H!Expansion
  BY H!ExpansionInit, Assumed, Zenon
<1>3. H!Init => H!Accounting
  BY H!AccountingInit, Assumed, Zenon
<1> QED BY <1>1, <1>2, <1>3

\* What the workers have in hand is what the invariant says, however their
\* accesses to the shared distances and queues are interleaved.
THEOREM HandsInOrder == ShareSpec => []ShareInv
<1>1. ShareInit => ShareInv
  BY ShareStarts, SolverStarts DEF ShareInv
<1>2. ShareInv /\ [ShareNext]_shareVars => ShareInv'
  BY ShareStep, SolverSteps DEF ShareInv
<1> QED BY <1>1, <1>2, PTL DEF ShareSpec

\* A run at the grain of memory accesses is a run of Solver's atomic handlers:
\* compare-and-swaps, batches and entries taken by another worker only choose
\* their order.
THEOREM HandlersImplemented == ShareSpec => HandlersSpec
<1>1. ShareInit => Handlers!Init
  BY ShareStarts, SameInit
<1>2. ShareInv /\ [ShareNext]_shareVars => [Handlers!Next]_(Handlers!vars)
  BY ShareStep, SameNext
<1> QED BY <1>1, <1>2, HandsInOrder, PTL DEF ShareSpec, HandlersSpec, Handlers!Spec

\* When Main announces the end no update is in a message, a shared queue, a
\* batch, a call or the rest of an expansion, and the shared distances are the
\* shortest ones.
THEOREM SharedAnswerIsShortest ==
  ShareSpec =>
    [](done => /\ net = {} /\ queued = {} /\ IsShortest(dist)
               /\ \A p \in PE : /\ batch[p] = {} /\ won[p] = {}
                                /\ calling[p] = {} /\ Owed(p) = {})
<1> DEFINE Ended == done => /\ net = {} /\ queued = {} /\ IsShortest(dist)
                            /\ \A p \in PE : /\ batch[p] = {} /\ won[p] = {}
                                             /\ calling[p] = {} /\ Owed(p) = {}
<1>1. ShareSpec => H!Spec
  <2>1. ShareInit => H!Init
    BY ShareStarts
  <2>2. ShareInv /\ [ShareNext]_shareVars => [H!Next]_(H!vars)
    BY ShareStep
  <2> QED BY <2>1, <2>2, HandsInOrder, PTL DEF ShareSpec, H!Spec
<1>2. H!Spec => [](H!NoFalseTermination /\ H!AnswerCorrect)
  BY H!TerminationSafe, H!AnswerIsShortest, Assumed, PTL
<1>3. H!NoFalseTermination /\ H!AnswerCorrect => Ended
  <2> SUFFICES ASSUME H!NoFalseTermination, H!AnswerCorrect, done PROVE Ended
    OBVIOUS
  <2>1. Sending = {} /\ Waiting = {} /\ H!IsShortest(dist)
    BY DEF H!NoFalseTermination, H!AnswerCorrect
  <2>2. IsShortest(dist)
    BY <2>1 DEF IsShortest, IsShortestFrom, PotentialFrom, Distance,
       H!IsShortest, H!IsShortestFrom, H!PotentialFrom, H!Distance
  <2>3. \A p \in PE : Passing(p) = {} /\ Keeping(p) = {}
    BY <2>1 DEF Sending, Waiting
  <2> QED BY <2>1, <2>2, <2>3 DEF Sending, Waiting, Passing, Keeping
<1> QED BY <1>1, <1>2, <1>3, PTL

=============================================================================
