------------------------------- MODULE Solver -------------------------------
(***************************************************************************)
(* The asynchronous label-correcting solver of sssp_smp.cpp without its    *)
(* scheduling: SsspChares applies updates and expands vertices in any      *)
(* order, and Main decides from two successive sums of the created and     *)
(* processed counters that the run is over.  Buckets, thresholds, holds    *)
(* and buffers (module Acic) only choose which of these steps comes next.  *)
(*                                                                         *)
(* The counters updates_created_locally and updates_processed_locally are  *)
(* the sets of updates they count.  Main never looks at a set, only at     *)
(* cardinalities: the sums it receives are those of the unions, because    *)
(* no update is counted twice (CountedOnce).                               *)
(***************************************************************************)
EXTENDS SerialDijkstra

CONSTANTS
  PE,          \* the SsspChares elements, one per worker
  Owner,       \* [Vertex -> PE], the partition of the vertices
  Shares,      \* the PEs that may apply updates to a vertex and expand it: its
               \* owner, with --process-share every worker of its process
  NoEdge,      \* the origin of the update start_algo() injects
  LeafPrune,   \* --leaf-prune
  SendFilter,  \* --send-filter or --hub-hints: a covered update is not sent
  Combine      \* --combine hold or --batch-fold: a beaten update is retired

ASSUME SolverAssumption ==
  /\ IsFiniteSet(PE)
  /\ Owner \in [Vertex -> PE]
  /\ Shares \in [Vertex -> SUBSET PE]
  /\ NoEdge \notin Edge
  /\ LeafPrune \in BOOLEAN
  /\ SendFilter \in BOOLEAN
  /\ Combine \in BOOLEAN

\* --leaf-prune is meant for symmetric graphs: whatever enters a vertex with
\* a single outgoing edge comes from the other end of that edge.
ASSUME LeafAssumption ==
  LeafPrune =>
    \A e, f \in Edge :
      (Out(From[e]) = {e} /\ To[f] = From[e]) => From[f] = To[e]

VARIABLES
  dist,         \* distances[] of all PEs
  net,          \* created and not yet applied: htram holds, buffers, messages
  queued,       \* applied and waiting in pq, pq_hold or the shared queues
  created,      \* [PE -> updates counted by updates_created_locally]
  processed,    \* [PE -> updates counted by updates_processed_locally]
  contributed,  \* the PEs whose contribution to this round has been made
  snapCreated, snapProcessed,   \* ... and what it said, per PE
  prevCreated, prevProcessed,   \* Main: previous_updates_created, _processed
  roundCreated, roundProcessed, \* auxiliary: the counters when Main broadcast
  done                          \* Main has seen the sums match

pevars == <<dist, net, queued, created, processed>>
mainvars == <<prevCreated, prevProcessed, roundCreated, roundProcessed, done>>
vars == <<pevars, contributed, snapCreated, snapProcessed, mainvars>>

Update == [via : Edge \cup {NoEdge}, to : Vertex, d : Nat]

All(counter) == UNION {counter[p] : p \in PE}
Nothing == [p \in PE |-> {}]

SourceUpdate == [via |-> NoEdge, to |-> Source, d |-> 0]
\* Mutant: the weight is subtracted.
RelaxationSubtracts(e, d) == [via |-> e, to |-> To[e], d |-> d - Weight[e]]

Relaxation(e, d) == [via |-> e, to |-> To[e], d |-> d + Weight[e]]

Init ==
  /\ dist = [v \in Vertex |-> Lmax]
  /\ net = {} /\ queued = {}
  /\ created = Nothing /\ processed = Nothing
  /\ contributed = {}
  /\ snapCreated = Nothing /\ snapProcessed = Nothing
  /\ prevCreated = {} /\ prevProcessed = {}
  /\ roundCreated = Nothing /\ roundProcessed = Nothing
  /\ done = FALSE

-----------------------------------------------------------------------------
(* SsspChares *)

Count(counter, p, us) == [counter EXCEPT ![p] = @ \cup us]

\* Mutant: a leaf at distance 0 is pruned too, the source among them.
QueueWorthyNoZero(v, d) == Out(v) # {} /\ ~(LeafPrune /\ Cardinality(Out(v)) = 1)

QueueWorthy(v, d) ==
  /\ Out(v) # {}
  /\ ~(LeafPrune /\ Cardinality(Out(v)) = 1 /\ d # 0)

\* Mutants of Apply: an equal distance is taken again; any distance is taken.
ApplyOnTie(p, u) ==
  IF u.d <= dist[u.to]
  THEN /\ dist' = [dist EXCEPT ![u.to] = u.d]
       /\ queued' = queued \cup {u} /\ processed' = processed
  ELSE /\ UNCHANGED <<dist, queued>>
       /\ processed' = Count(processed, p, {u})
ApplyAlways(p, u) ==
  /\ dist' = [dist EXCEPT ![u.to] = u.d]
  /\ queued' = queued \cup {u} /\ processed' = processed

\* process_update() on an update that has already left the network.
Apply(p, u) ==
  IF u.d < dist[u.to]
  THEN /\ dist' = [dist EXCEPT ![u.to] = u.d]
       /\ IF QueueWorthy(u.to, u.d)
          THEN queued' = queued \cup {u} /\ processed' = processed
          ELSE queued' = queued /\ processed' = Count(processed, p, {u})
  ELSE /\ dist' = dist
       /\ queued' = queued
       /\ processed' = Count(processed, p, {u})

\* start_algo()
Start(p) ==
  /\ p = Owner[Source]
  /\ SourceUpdate \notin created[p]
  /\ created' = Count(created, p, {SourceUpdate})
  /\ Apply(p, SourceUpdate)
  /\ UNCHANGED <<net, contributed, snapCreated, snapProcessed, mainvars>>

\* Mutant: a message is delivered and stays in flight.
ReceiveTwice(p, u) ==
  /\ u \in net
  /\ p \in Shares[u.to]
  /\ Apply(p, u)
  /\ UNCHANGED <<net, created, contributed, snapCreated, snapProcessed, mainvars>>

\* One update delivered: process_update_caller() and process_update().
Receive(p, u) ==
  /\ u \in net
  /\ p \in Shares[u.to]
  /\ net' = net \ {u}
  /\ Apply(p, u)
  /\ UNCHANGED <<created, contributed, snapCreated, snapProcessed, mainvars>>

\* Mutant of Absorb: the loser is retired and sent all the same.
AbsorbKeeps(p, u) ==
  /\ Combine
  /\ u \in net
  /\ p \in Shares[u.to] \cup Shares[From[u.via]]
  /\ \E x \in net \ {u} : x.to = u.to /\ x.d <= u.d
  /\ processed' = Count(processed, p, {u})
  /\ UNCHANGED <<dist, net, queued, created, contributed, snapCreated,
                 snapProcessed, mainvars>>

\* An update is retired unapplied because a better one for the same vertex
\* travels beside it: absorb() at the sender, fold_batch() at the receiver.
Absorb(p, u) ==
  /\ Combine
  /\ u \in net
  /\ p \in Shares[u.to] \cup Shares[From[u.via]]
  /\ \E x \in net \ {u} : x.to = u.to /\ x.d <= u.d
  /\ net' = net \ {u}
  /\ processed' = Count(processed, p, {u})
  /\ UNCHANGED <<dist, queued, created, contributed, snapCreated,
                 snapProcessed, mainvars>>

\* The candidates generate_updates() reads off the edges of an entry that is
\* still its vertex's distance; a stale entry has none.
Relaxations(u) ==
  IF u.d = dist[u.to] THEN {Relaxation(e, u.d) : e \in Out(u.to)} ELSE {}

\* Mutant: the sender's cache drops an update that is one shorter.
CoveredLoose(p, k, sent) ==
  SendFilter /\ \E x \in created[p] \cup sent : x.to = k.to /\ x.d <= k.d + 1

\* A send that cannot improve its target: a hub hint (a distance the target
\* has had) or an update this PE sent it before is no larger.
Covered(p, k, sent) ==
  /\ SendFilter
  /\ \/ dist[k.to] <= k.d
     \/ \E x \in created[p] \cup sent : x.to = k.to /\ x.d <= k.d

\* One pop of process_heap(): relax, then retire.
Expand(p, u) ==
  /\ u \in queued
  /\ p \in Shares[u.to]
  /\ \E sent \in SUBSET Relaxations(u) :
       /\ \A k \in Relaxations(u) \ sent : Covered(p, k, sent)
       /\ created' = Count(created, p, sent)
       /\ net' = net \cup sent
  /\ queued' = queued \ {u}
  /\ processed' = Count(processed, p, {u})
  /\ UNCHANGED <<dist, contributed, snapCreated, snapProcessed, mainvars>>

\* contribute_histogram(), called by current_thresholds() once per round and
\* by start_reductions() for the first.
Contribute(p) ==
  /\ ~done
  /\ p \notin contributed
  /\ contributed' = contributed \cup {p}
  /\ snapCreated' = [snapCreated EXCEPT ![p] = created[p]]
  /\ snapProcessed' = [snapProcessed EXCEPT ![p] = processed[p]]
  /\ UNCHANGED <<pevars, mainvars>>

-----------------------------------------------------------------------------
(* Main::reduce_histogram() *)

\* Mutants of Converged: one matching sum is enough; a minimum of traffic is
\* asked for, as an earlier version of the test did.
ConvergedOnce ==
  LET c == Cardinality(All(snapCreated))
  IN  c > 0 /\ Cardinality(All(snapProcessed)) = c
ConvergedMinimumTraffic ==
  LET c == Cardinality(All(snapCreated))
  IN  /\ c > 100
      /\ Cardinality(All(snapProcessed)) = c
      /\ c = Cardinality(prevCreated)

Converged ==
  LET c == Cardinality(All(snapCreated))
      q == Cardinality(All(snapProcessed))
  IN  /\ c > 0
      /\ q = c
      /\ c = Cardinality(prevCreated)
      /\ q = Cardinality(prevProcessed)

Finish ==
  /\ ~done /\ contributed = PE
  /\ Converged
  /\ done' = TRUE
  /\ UNCHANGED <<pevars, contributed, snapCreated, snapProcessed,
                 prevCreated, prevProcessed, roundCreated, roundProcessed>>

\* Remember the sums and broadcast: every PE contributes again.
NextRound ==
  /\ ~done /\ contributed = PE
  /\ ~Converged
  /\ prevCreated' = All(snapCreated)
  /\ prevProcessed' = All(snapProcessed)
  /\ contributed' = {}
  /\ snapCreated' = Nothing
  /\ snapProcessed' = Nothing
  /\ roundCreated' = created
  /\ roundProcessed' = processed
  /\ UNCHANGED <<pevars, done>>

Next ==
  \/ \E p \in PE : Start(p) \/ Contribute(p)
  \/ \E p \in PE, u \in net : Receive(p, u) \/ Absorb(p, u)
  \/ \E p \in PE, u \in queued : Expand(p, u)
  \/ Finish
  \/ NextRound

Spec == Init /\ [][Next]_vars

\* A PE's message loop runs every handler it has been sent, and the holds and
\* thresholds of module Acic let every update through in the end.
Fairness ==
  /\ \A p \in PE : WF_vars(Start(p)) /\ WF_vars(Contribute(p))
  /\ WF_vars(\E p \in PE, u \in net : Receive(p, u))
  /\ WF_vars(\E p \in PE, u \in queued : Expand(p, u))
  /\ WF_vars(Finish \/ NextRound)

FairSpec == Spec /\ Fairness

-----------------------------------------------------------------------------
(* Properties *)

TypeOK ==
  /\ dist \in [Vertex -> Distance]
  /\ net \subseteq Update /\ queued \subseteq Update
  /\ created \in [PE -> SUBSET Update] /\ processed \in [PE -> SUBSET Update]
  /\ contributed \subseteq PE
  /\ snapCreated \in [PE -> SUBSET Update]
  /\ snapProcessed \in [PE -> SUBSET Update]
  /\ prevCreated \subseteq Update /\ prevProcessed \subseteq Update
  /\ roundCreated \in [PE -> SUBSET Update]
  /\ roundProcessed \in [PE -> SUBSET Update]
  /\ done \in BOOLEAN

\* A live update is in exactly one place, and created - processed counts the
\* live ones: nothing is lost, applied twice or retired twice.
LiveAccounted ==
  /\ net \cap queued = {}
  /\ All(created) = net \cup queued \cup All(processed)
  /\ (net \cup queued) \cap All(processed) = {}

\* No update is counted by two PEs, so the sums Main receives are the
\* cardinalities of the unions.
CountedOnce ==
  \A p, q \in PE : p # q => /\ created[p] \cap created[q] = {}
                            /\ processed[p] \cap processed[q] = {}

\* When Main announces the end, nothing is in flight or queued anywhere,
\* although no two PEs were ever looked at at the same time.
NoFalseTermination == done => net = {} /\ queued = {} /\ All(created) # {}

\* ... and the distances are the shortest ones, whatever the order updates
\* were applied, filtered, folded or expanded in.
AnswerCorrect == done => IsShortest(dist)

\* What --verify compares at the end of a run: the distances are the ones
\* serial_dijkstra() computes.
MatchesReference == done => dist = Reference

\* A vertex is expanded at most once at a distance: the relaxations of an
\* entry that is still current have never been created before.
NeverExpandedTwice ==
  \A u \in queued : Relaxations(u) \cap All(created) = {}

\* Distances only fall, and not at all once the end has been announced.
DistancesFall ==
  [][ /\ \A v \in Vertex : dist'[v] <= dist[v]
      /\ done => UNCHANGED pevars ]_vars

\* The run ends.
Terminates == <>done

\* The caller's view of the run.
Answer == INSTANCE ShortestPaths
AnswerSpec == Answer!Spec

=============================================================================
