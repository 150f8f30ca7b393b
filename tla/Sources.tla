------------------------------ MODULE Sources ------------------------------
(***************************************************************************)
(* The life of the process from the loaded graph to its exit code: one run *)
(* per source, the timeout, the certificate of each answer, and the reset  *)
(* between runs, with the hub hints, the one state of the solver that      *)
(* outlives a run in messages.                                             *)
(*                                                                         *)
(* The solver in between is reduced to applying and expanding updates and  *)
(* to rounds, the end being announced when nothing is live: that is what   *)
(* Solver shows of it.  A message carries the number of the run it belongs *)
(* to; only that of the certificate's batches is in the code.              *)
(***************************************************************************)
EXTENDS Certificate, Sequences, FiniteSetsExt

CONSTANTS
  SourceList,   \* --sources, in order
  PE, Owner,    \* [Vertex -> PE]
  LocalVertex,  \* [PE -> Seq(Vertex)], the vertices of a PE by local index
  Process,      \* [PE -> processes]
  First,        \* the PEs of rank 0
  Hub,          \* vertices of at least hub_hint_min_degree() edges
  RoundDelay,   \* --round-delay > 0
  Timeout,      \* --timeout > 0
  Certify, Verify,
  None,
  MayFail       \* the solver may announce a wrong answer, once

Processes == {Process[p] : p \in PE}
Own(p) == {v \in Vertex : Owner[v] = p}

ASSUME SourcesAssumption ==
  /\ SourceList \in Seq(Vertex) /\ SourceList # <<>>
  /\ Owner \in [Vertex -> PE]
  /\ LocalVertex \in [PE -> Seq(Vertex)]
  /\ \A p \in PE : Own(p) = {LocalVertex[p][i] : i \in DOMAIN LocalVertex[p]}
  /\ First \subseteq PE
  /\ \A n \in Processes : Cardinality({p \in First : Process[p] = n}) = 1
  /\ Hub \subseteq Vertex
  /\ {RoundDelay, Timeout, Certify, Verify, MayFail} \subseteq BOOLEAN
  /\ None \notin {"certify", "advance", 0, 1}

VARIABLES
  main,    \* Main's epoch, flags, exit code and quiescence callback
  timers,  \* Ccd timers, which quiescence detection does not see
  net,     \* messages sent and not yet handled
  red,     \* the PEs that have contributed to each reduction
  pe,      \* per PE: number of its run, pq
  dist, sent,       \* distances[] and hub_sent[], of all PEs together
  table, outbox,    \* HubHints of every process
  cert,    \* certify_* of every PE
  flawed   \* a wrong answer was announced (history)

vars == <<main, timers, net, red, pe, dist, sent, table, outbox, cert, flawed>>
solver == <<dist, sent, table, outbox>>

Message(kind, to, epoch, body) == [kind |-> kind, to |-> to, epoch |-> epoch, body |-> body]
Broadcast(kind) == {Message(kind, p, main.epoch, {}) : p \in PE}
Timer(kind, p, epoch) == [kind |-> kind, pe |-> p, epoch |-> epoch]

Source == SourceList[main.epoch]

Reductions == {"histogram", "print", "print_partial", "sums", "max", "reset"}

\* certify_* of a PE that has counted nothing for a source yet.
Fresh(epoch) == [epoch |-> epoch, cursor |-> 0, below |-> {}, nonpositive |-> FALSE,
                 tight |-> {}, out |-> [q \in PE |-> {}], bad |-> FALSE]

Init ==
  /\ main = [epoch |-> 1, running |-> FALSE, truncated |-> FALSE, exit |-> None,
             qd |-> None, calm |-> FALSE, bad |-> FALSE, parts |-> 0]
  /\ timers = {} /\ net = {}
  /\ red = [r \in Reductions |-> IF r = "reset" THEN PE ELSE {}]
  /\ pe = [p \in PE |-> [epoch |-> 1, pq |-> {}]]
  /\ dist = [v \in Vertex |-> Lmax] /\ sent = [v \in Hub |-> Lmax]
  /\ table = [n \in Processes |-> [v \in Hub |-> Lmax]]
  /\ outbox = [n \in Processes |-> {}]
  /\ cert = [p \in PE |-> Fresh(0)]
  /\ flawed = FALSE

Running == main.exit = None

\* A message for p is taken out and those of new are sent.
Handle(p, kind, new(_)) ==
  \E m \in net : m.kind = kind /\ m.to = p /\ net' = (net \ {m}) \cup new(m)
Nothing(m) == {}

Reduced(r) == red[r] = PE
Contributed(p, r) == red' = [red EXCEPT ![r] = @ \cup {p}]

----------------------------------------------------------------------------
\* start_source(): the timers, and the first update.
StartSource ==
  /\ Running /\ Reduced("reset")
  /\ red' = [red EXCEPT !["reset"] = {}]
  /\ main' = [main EXCEPT !.running = TRUE]
  /\ timers' = timers \cup {Timer("start", None, main.epoch)}
                 \cup IF Timeout THEN {Timer("timeout", None, main.epoch)} ELSE {}
  /\ net' = net \cup {Message("update", Owner[Source], main.epoch, {<<Source, 0>>})}
  /\ UNCHANGED <<pe, solver, cert, flawed>>

StartReductions ==
  /\ Running
  /\ \E t \in timers : t.kind = "start" /\ timers' = timers \ {t}
  /\ net' = net \cup Broadcast("contribute")
  /\ UNCHANGED <<main, red, pe, solver, cert, flawed>>

\* Mutant: whatever source's timer fires.
MineAny(t) == TRUE

\* fast_exit() does nothing for a run that is over.
Mine(t) == t.epoch = main.epoch

FastExit ==
  /\ Running
  /\ \E t \in timers :
       /\ t.kind = "timeout" /\ timers' = timers \ {t}
       /\ IF Mine(t) /\ main.running
          THEN /\ main' = [main EXCEPT !.running = FALSE, !.truncated = TRUE]
               /\ net' = net \cup Broadcast("print_partial")
          ELSE UNCHANGED <<main, net>>
  /\ UNCHANGED <<red, pe, solver, cert, flawed>>

----------------------------------------------------------------------------
\* The solver: an update that improves is queued, and later sent on along
\* every edge whose end no hint covers.
Covers(p, v, d) == v \in Hub /\ table[Process[p]][v] <= d

ProcessUpdate(p) ==
  /\ Running
  /\ \E m \in net :
       /\ m.kind = "update" /\ m.to = p /\ net' = net \ {m}
       /\ \E u \in m.body :
            IF u[2] < dist[u[1]]
            THEN /\ dist' = [dist EXCEPT ![u[1]] = u[2]]
                 /\ pe' = [pe EXCEPT ![p].pq = @ \cup {u}]
            ELSE UNCHANGED <<dist, pe>>
  /\ UNCHANGED <<main, timers, red, sent, table, outbox, cert, flawed>>

Relaxations(p, v, d) ==
  {Message("update", Owner[To[e]], pe[p].epoch, {<<To[e], d + Weight[e]>>}) :
     e \in {f \in Edge : From[f] = v /\ ~Covers(p, To[f], d + Weight[f])}}

ProcessHeap(p) ==
  /\ Running
  /\ \E u \in pe[p].pq :
       /\ pe' = [pe EXCEPT ![p].pq = @ \ {u}]
       /\ net' = net \cup IF u[2] = dist[u[1]] THEN Relaxations(p, u[1], u[2]) ELSE {}
  /\ UNCHANGED <<main, timers, red, solver, cert, flawed>>

ContributeHistogram(p) ==
  /\ Running /\ Handle(p, "contribute", Nothing) /\ Contributed(p, "histogram")
  /\ UNCHANGED <<main, timers, pe, solver, cert, flawed>>

\* publish_hub_hints(): hubs that fell since they were last published; the
\* first PE of the process sends what its process has queued.
Fell(p) == {v \in Hub \cap Own(p) : dist[v] < sent[v]}
Queued(p) == outbox[Process[p]] \cup {<<v, dist[v]>> : v \in Fell(p)}
Flushed(p) ==
  IF p \in First /\ Queued(p) # {}
  THEN {Message("hints", n, pe[p].epoch, Queued(p)) : n \in Processes}
  ELSE {}

CurrentThresholds(p) ==
  /\ Running
  /\ Handle(p, "thresholds", LAMBDA m : Flushed(p))
  /\ sent' = [v \in Hub |-> IF v \in Fell(p) THEN dist[v] ELSE sent[v]]
  /\ outbox' = [outbox EXCEPT ![Process[p]] = IF p \in First THEN {} ELSE Queued(p)]
  /\ IF RoundDelay
     THEN timers' = timers \cup {Timer("contribute", p, pe[p].epoch)} /\ UNCHANGED red
     ELSE Contributed(p, "histogram") /\ UNCHANGED timers
  /\ UNCHANGED <<main, pe, dist, table, cert, flawed>>

DelayedContribute(p) ==
  /\ Running
  /\ \E t \in timers : t.kind = "contribute" /\ t.pe = p /\ timers' = timers \ {t}
  /\ Contributed(p, "histogram")
  /\ UNCHANGED <<main, net, pe, solver, cert, flawed>>

\* A hint for a vertex whose two slots hold others is dropped.
Insert(items, n) ==
  [v \in Hub |-> Min({table[n][v]} \cup {i[2] : i \in {i \in items : i[1] = v}})]

ReceiveHints(n) ==
  /\ Running
  /\ \E m \in net :
       /\ m.kind = "hints" /\ m.to = n /\ net' = net \ {m}
       /\ \E items \in SUBSET m.body :
            /\ \A i \in m.body \ items : table[n][i[1]] = Lmax
            /\ table' = [table EXCEPT ![n] = Insert(items, n)]
  /\ UNCHANGED <<main, timers, red, pe, dist, sent, outbox, cert, flawed>>

Live == (\E m \in net : m.kind = "update") \/ (\E p \in PE : pe[p].pq # {})

\* The end, which a wrong solver announces with a wrong distance.
Converge ==
  /\ Running /\ Reduced("histogram") /\ ~Live
  /\ red' = [red EXCEPT !["histogram"] = {}]
  /\ main' = [main EXCEPT !.running = FALSE, !.calm = FALSE]
  /\ net' = net \cup Broadcast("print")
  /\ \/ UNCHANGED <<dist, flawed>>
     \/ /\ MayFail /\ ~flawed /\ flawed' = TRUE
        /\ \E v \in Vertex : \E d \in Distance \ {dist[v]} : dist' = [dist EXCEPT ![v] = d]
  /\ UNCHANGED <<timers, pe, sent, table, outbox, cert>>

\* The sums must match twice.
NextRound ==
  /\ Running /\ Reduced("histogram") /\ ~main.calm
  /\ red' = [red EXCEPT !["histogram"] = {}]
  /\ main' = [main EXCEPT !.calm = ~Live]
  /\ net' = net \cup Broadcast("thresholds")
  /\ UNCHANGED <<timers, pe, solver, cert, flawed>>

----------------------------------------------------------------------------
\* print_distances() and the reductions after it, up to verify_hash().
PrintDistances(p) ==
  /\ Running
  /\ \E kind \in {"print", "print_partial"} :
       Handle(p, kind, Nothing) /\ Contributed(p, kind)
  /\ UNCHANGED <<main, timers, pe, solver, cert, flawed>>

FinishSource(m) ==
  IF m.truncated THEN [m EXCEPT !.exit = 1]
  ELSE IF m.epoch = Len(SourceList) THEN [m EXCEPT !.exit = 0]
  ELSE [m EXCEPT !.qd = "advance"]

\* --verify compares with a serial Dijkstra.
CheckDigest(m) ==
  IF Verify /\ (m.truncated \/ ~IsShortestFrom(Source, dist)) THEN [m EXCEPT !.exit = 1]
  ELSE FinishSource(m)

DoneVerify(kind) ==
  /\ Running /\ Reduced(kind)
  /\ red' = [red EXCEPT ![kind] = {}]
  /\ IF Certify /\ ~main.truncated
     THEN main' = [main EXCEPT !.qd = "certify"] /\ net' = net \cup Broadcast("certify_start")
     ELSE main' = CheckDigest(main) /\ UNCHANGED net
  /\ UNCHANGED <<timers, pe, solver, cert, flawed>>

----------------------------------------------------------------------------
\* The certificate on a PE.  A candidate may arrive before the PE's own start:
\* whichever is first prepares for the source.

\* Mutant: the start prepares again.
PreparedAnew(p, epoch) == Fresh(epoch)

Prepared(p, epoch) == IF cert[p].epoch = epoch THEN cert[p] ELSE Fresh(epoch)

\* certify_note() for each pair of a vertex and a candidate.
Noted(c, pairs) ==
  [c EXCEPT !.below = @ \cup {i[1] : i \in {i \in pairs : i[2] < dist[i[1]]}},
            !.tight = @ \cup {i[1] : i \in {i \in pairs : i[2] = dist[i[1]]}}]

\* The edges of the next k vertices, and their candidates for the PE q.
NextEdges(p, c, k) == {e \in Edge : \E i \in 1..k : From[e] = LocalVertex[p][c.cursor + i]}

Pairs(edges, q) ==
  {<<To[e], dist[From[e]] + Weight[e]>> :
     e \in {f \in edges : dist[From[f]] # Lmax /\ Owner[To[f]] = q}}

\* A slice of k vertices: own candidates are noted, those for others are buffered;
\* a full buffer is sent, and all are when no vertex is left.
Slice(p, c, k, full) ==
  LET edges == NextEdges(p, c, k)
      out == [q \in PE |-> IF q = p THEN {} ELSE c.out[q] \cup Pairs(edges, q)]
      last == c.cursor + k = Len(LocalVertex[p])
      sending == IF last THEN PE ELSE full
  IN  [state |->
         [Noted(c, Pairs(edges, p)) EXCEPT
            !.cursor = @ + k,
            !.nonpositive = @ \/ \E e \in edges : Weight[e] <= 0,
            !.out = [q \in PE |-> IF q \in sending THEN {} ELSE out[q]]],
       messages |->
         {Message("batch", q, c.epoch, out[q]) : q \in {q \in sending : out[q] # {}}}
         \cup IF last THEN {} ELSE {Message("step", p, c.epoch, {})}]

\* A slice takes a vertex at least, if there is one.
CertifySlice(p, kind, c) ==
  \E k \in 0..(Len(LocalVertex[p]) - c.cursor), full \in SUBSET (PE \ {p}) :
    /\ k = 0 => c.cursor = Len(LocalVertex[p])
    /\ LET slice == Slice(p, c, k, full)
       IN  /\ Handle(p, kind, LAMBDA m : slice.messages)
           /\ cert' = [cert EXCEPT ![p] = slice.state]
    /\ UNCHANGED <<main, timers, red, pe, solver, flawed>>

CertifyStart(p) == Running /\ CertifySlice(p, "certify_start", Prepared(p, main.epoch))
CertifyStep(p) == Running /\ CertifySlice(p, "step", cert[p])

CertifyBatch(p) ==
  /\ Running
  /\ \E m \in net :
       /\ m.kind = "batch" /\ m.to = p /\ net' = net \ {m}
       /\ cert' = [cert EXCEPT ![p] = Noted(Prepared(p, m.epoch), m.body)]
  /\ UNCHANGED <<main, timers, red, pe, solver, flawed>>

\* What certify_collect() counts: a nonzero count is a bad PE.
Bad(p, c) ==
  \/ c.below # {} \/ c.nonpositive
  \/ \E v \in Own(p) : IF v = Source THEN dist[v] # 0 ELSE dist[v] # Lmax /\ v \notin c.tight

CertifyCollect(p) ==
  /\ Running /\ Handle(p, "collect", Nothing)
  /\ cert' = [cert EXCEPT ![p] =
                [Prepared(p, main.epoch) EXCEPT !.bad = Bad(p, Prepared(p, main.epoch)),
                                                !.tight = {}, !.out = [q \in PE |-> {}]]]
  /\ red' = [red EXCEPT !["sums"] = @ \cup {p}, !["max"] = @ \cup {p}]
  /\ UNCHANGED <<main, timers, pe, solver, flawed>>

\* Mutant: the verdict at the first part.
CompleteFirst(r) == TRUE

\* Mutant: the sums are taken to arrive first.
CompleteInOrder(r) == r = "max" /\ main.parts = 1

\* The two reductions may arrive in either order; the verdict waits for both.
Complete(r) == main.parts = 1

CertifyPart(r) ==
  /\ Running /\ Reduced(r)
  /\ red' = [red EXCEPT ![r] = {}]
  /\ LET m == [main EXCEPT !.bad = IF r = "sums" THEN \E p \in PE : cert[p].bad ELSE @]
     IN  main' = IF ~Complete(r) THEN [m EXCEPT !.parts = @ + 1]
                 ELSE IF m.bad THEN [m EXCEPT !.parts = 0, !.exit = 1]
                 ELSE CheckDigest([m EXCEPT !.parts = 0])
  /\ UNCHANGED <<timers, net, pe, solver, cert, flawed>>

----------------------------------------------------------------------------
\* Mutant: no quiescence detection.
QuietAlways == TRUE

\* Quiescence: no message is in flight, no reduction is under way.
Quiet == net = {} /\ \A p \in PE : pe[p].pq = {} /\ \A r \in DOMAIN red : red[r] = {}

CertifyQuiet ==
  /\ Running /\ main.qd = "certify" /\ Quiet
  /\ main' = [main EXCEPT !.qd = None]
  /\ net' = net \cup Broadcast("collect")
  /\ UNCHANGED <<timers, red, pe, solver, cert, flawed>>

AdvanceSource ==
  /\ Running /\ main.qd = "advance" /\ Quiet
  /\ main' = [main EXCEPT !.epoch = @ + 1, !.running = FALSE, !.calm = FALSE, !.qd = None]
  /\ net' = net \cup Broadcast("reset")
  /\ UNCHANGED <<timers, red, pe, solver, cert, flawed>>

\* Mutant: what waits to be sent as hints is kept.
EmptiedTableOnly(p) ==
  [table |-> [table EXCEPT ![Process[p]] = [v \in Hub |-> Lmax]], outbox |-> outbox]

\* HubHints::reset()
Emptied(p) ==
  [table |-> [table EXCEPT ![Process[p]] = [v \in Hub |-> Lmax]],
   outbox |-> [outbox EXCEPT ![Process[p]] = {}]]

ResetForSource(p) ==
  /\ Running /\ Handle(p, "reset", Nothing) /\ Contributed(p, "reset")
  /\ pe' = [pe EXCEPT ![p].epoch = main.epoch]
  /\ dist' = [v \in Vertex |-> IF Owner[v] = p THEN Lmax ELSE dist[v]]
  /\ sent' = [v \in Hub |-> IF Owner[v] = p THEN Lmax ELSE sent[v]]
  /\ IF p \in First
     THEN table' = Emptied(p).table /\ outbox' = Emptied(p).outbox
     ELSE UNCHANGED <<table, outbox>>
  /\ UNCHANGED <<main, timers, cert, flawed>>

OnPE(p) ==
  \/ ProcessUpdate(p) \/ ProcessHeap(p) \/ ContributeHistogram(p) \/ CurrentThresholds(p)
  \/ DelayedContribute(p) \/ PrintDistances(p) \/ CertifyStart(p) \/ CertifyStep(p)
  \/ CertifyBatch(p) \/ CertifyCollect(p) \/ ResetForSource(p)

OnMainPE ==
  \/ StartSource \/ StartReductions \/ Converge \/ NextRound
  \/ (\E kind \in {"print", "print_partial"} : DoneVerify(kind))
  \/ (\E r \in {"sums", "max"} : CertifyPart(r)) \/ CertifyQuiet \/ AdvanceSource

Next ==
  \/ (\E p \in PE : OnPE(p)) \/ (\E n \in Processes : ReceiveHints(n))
  \/ OnMainPE \/ FastExit

Spec == Init /\ [][Next]_vars

\* Every message is handled, every reduction delivered, every short timer fires;
\* the timeout need not.
FairSpec ==
  /\ Spec
  /\ \A p \in PE :
       /\ WF_vars(ProcessUpdate(p)) /\ WF_vars(ProcessHeap(p)) /\ WF_vars(ContributeHistogram(p))
       /\ WF_vars(CurrentThresholds(p)) /\ WF_vars(DelayedContribute(p))
       /\ WF_vars(PrintDistances(p)) /\ WF_vars(CertifyStart(p)) /\ WF_vars(CertifyStep(p))
       /\ WF_vars(CertifyBatch(p)) /\ WF_vars(CertifyCollect(p)) /\ WF_vars(ResetForSource(p))
  /\ \A n \in Processes : WF_vars(ReceiveHints(n))
  /\ WF_vars(StartSource) /\ WF_vars(StartReductions) /\ WF_vars(Converge) /\ WF_vars(NextRound)
  /\ \A kind \in {"print", "print_partial"} : WF_vars(DoneVerify(kind))
  /\ \A r \in {"sums", "max"} : WF_vars(CertifyPart(r))
  /\ WF_vars(CertifyQuiet) /\ WF_vars(AdvanceSource)

----------------------------------------------------------------------------
\* "No old data/control message may observe the next source's empty ledger": a
\* message, or a delayed contribution, belongs to the run its receiver is in,
\* and a PE is reset with nothing queued (the assertions of reset_for_source).
CleanStart ==
  /\ \A m \in net : m.kind # "reset" =>
       \A p \in PE : m.to \in {p, Process[p]} => pe[p].epoch = m.epoch
  /\ \A t \in timers : t.kind = "contribute" => t.epoch = pe[t.pe].epoch
  /\ \A m \in net : m.kind = "reset" => pe[m.to].pq = {}

\* A run is cut short by its own timeout only, and only before its end: a late
\* timer of an earlier source does nothing.
OnlyOwnTimeout ==
  [][main.truncated' /\ ~main.truncated =>
       /\ Timer("timeout", None, main.epoch) \in timers \ timers'
       /\ main.running]_vars

\* The process goes on to the next source, or exits with 0, only with shortest
\* distances and without a timeout, also when the solver announced wrong ones.
AcceptedIsShortest ==
  main.qd = "advance" \/ main.exit = 0 =>
    IsShortestFrom(Source, dist) /\ ~main.truncated

\* It fails only for a timeout or a wrong answer: nothing of one source, no hint
\* above all, spoils the answer or the certificate of the next.
NoFalseAlarm == main.exit = 1 => main.truncated \/ flawed

\* The certificate counted by messages is the one of the whole: when every PE
\* has collected, some PE is bad if and only if the answer is not Accepted.
VerdictExact ==
  red["sums"] = PE => ((\E p \in PE : cert[p].bad) <=> ~Accepted(Source, dist))

\* The process exits, whatever the runs and their timeouts do.
Terminates == <>(main.exit # None)

=============================================================================
