-------------------------------- MODULE Acic --------------------------------
(***************************************************************************)
(* The solver with its scheduling: SsspChares under Main's rounds, without *)
(* --process-share, --control node and the optional filters.               *)
(*                                                                         *)
(* A PE charges every update it creates to a bucket of its histogram and   *)
(* the PE that retires the update takes the charge back.  A reduction      *)
(* carries W buckets to Main, which answers with thresholds: updates above *)
(* the heap threshold wait in pq_hold at the receiver, updates above the   *)
(* tram threshold in htram's hold at the sender.  A round may also merge   *)
(* buckets, while updates charged at the old scale are in flight and PEs   *)
(* apply the merge at different times.                                     *)
(*                                                                         *)
(* created and processed are sets, as in Solver; the controller is given   *)
(* cardinalities only.                                                     *)
(***************************************************************************)
EXTENDS WeightedGraph, Controller, Sequences, SequencesExt

CONSTANTS
  PE, Owner, NoEdge,
  InitialThreshold,  \* initial_threshold
  SkewDefer,         \* --skew-defer
  BatchFold          \* --batch-fold

ASSUME AcicAssumption ==
  /\ IsFiniteSet(PE)
  /\ Owner \in [Vertex -> PE]
  /\ NoEdge \notin Edge
  /\ InitialThreshold \in Nat /\ InitialThreshold + 2 \in Bucket
  /\ SkewDefer \in BOOLEAN /\ BatchFold \in BOOLEAN

VARIABLES
  pe,        \* [PE -> the state of the chare and of its htram hold]
  net,       \* sent: in a buffer or a message of htram
  clearing,  \* the PEs with a clear_pq_hold() message to themselves pending
  waiting,   \* the PEs that have not taken up, and not answered, the round
  round,     \* the broadcast the round began with
  reduction, \* what has been contributed to the round so far
  main,      \* Main's own state
  atRound    \* auxiliary: the counters when the broadcast was sent

vars == <<pe, net, clearing, waiting, round, reduction, main, atRound>>

Update == [via : Edge \cup {NoEdge}, to : Vertex, d : Nat, ovf : BOOLEAN]

All(counter) == UNION {counter[p] : p \in PE}
Nothing == [p \in PE |-> {}]
Flagged(us) == {u \in us : u.ovf}
NoCounts == [b \in Bucket |-> 0]
NoLists == [b \in Bucket |-> {}]

\* A chare after initialize_data() or reset_for_source().
NewPE(p) ==
  [dist |-> [v \in {w \in Vertex : Owner[w] = p} |-> Lmax],
   histogram |-> NoCounts, created |-> {}, processed |-> {},
   scale |-> 1, limit |-> B,
   heap |-> InitialThreshold, tram |-> InitialThreshold + 2,
   pq |-> {}, hold |-> NoLists, deferred |-> <<>>, tramHold |-> NoLists]

\* start_reductions() asks every PE to contribute from behind = 0, and Main's
\* window origin is 0.
FirstRound ==
  [first |-> TRUE, heap |-> 0, tram |-> 0, behind |-> 0, coarsen |-> 1,
   extend |-> FALSE]
NoReduction ==
  [window |-> [i \in Slot |-> 0], clamped |-> 0,
   created |-> Nothing, processed |-> Nothing]

Init ==
  /\ pe = [p \in PE |-> NewPE(p)]
  /\ net = {} /\ clearing = {}
  /\ waiting = PE /\ round = FirstRound /\ reduction = NoReduction
  /\ main = [origin |-> 0, scale |-> 1, stalled |-> 0, extendWait |-> 0, done |-> FALSE,
             created |-> {}, processed |-> {}]
  /\ atRound = [created |-> Nothing, processed |-> Nothing]

-----------------------------------------------------------------------------
(* One chare: operators from a PE's state to its next *)

BucketAt(s, u) == BucketOf(u, s.scale, s.limit)

\* charge_new_update()
Charged(s, u) == [u EXCEPT !.ovf = HistoBucket(u.d, s.scale, s.limit) = Top]

Charge(s, us) ==
  [s EXCEPT !.created = @ \cup us,
            !.histogram = [b \in Bucket |->
               @[b] + Cardinality({u \in us : BucketAt(s, u) = b})]]

\* The update's bucket is given back and it counts as processed.
Retire(s, u) ==
  [s EXCEPT !.processed = @ \cup {u}, !.histogram[BucketAt(s, u)] = @ - 1]

CreatedBeyondMyClamp(s, u) == ~u.ovf /\ Beyond(u.d, s.limit)
ChargedTopBySkew(s, u) == ~u.ovf /\ BucketAt(s, u) = Top

\* Mutant: only the clamp is compared.
MustDeferBeyondOnly(s, u) == CreatedBeyondMyClamp(s, u)

MustDefer(s, u) ==
  ChargedTopBySkew(s, u) /\ (SkewDefer \/ CreatedBeyondMyClamp(s, u))

Defer(s, u) == [s EXCEPT !.deferred = Append(@, u)]

QueueWorthy(v) == Out(v) # {}

\* process_update()
ProcessUpdate(s, u) ==
  IF MustDefer(s, u) THEN Defer(s, u)
  ELSE IF u.d >= s.dist[u.to] THEN Retire(s, u)
  ELSE LET t == [s EXCEPT !.dist[u.to] = u.d]
           b == BucketAt(s, u)
       IN  IF ~QueueWorthy(u.to) THEN Retire(t, u)
           ELSE IF b > s.heap THEN [t EXCEPT !.hold[b] = @ \cup {u}]
           ELSE [t EXCEPT !.pq = @ \cup {u}]

\* coarsen_buckets(), htram's coarsenBuckets() included.
CoarsenBuckets(s, k, extend) ==
  [s EXCEPT !.histogram = MergedCounts(@, k),
            !.hold = MergedLists(@, k),
            !.tramHold = MergedLists(@, k),
            !.scale = @ * k,
            !.limit = MergedLimit(@, s.scale, k, extend)]

\* Mutant: the deferred updates are left for later.
ReprocessNone(s) == s

\* The deferred updates go through process_update() again, before the new
\* thresholds are installed.
Reprocess(s) ==
  IF s.deferred = <<>> THEN s
  ELSE FoldLeft(ProcessUpdate, [s EXCEPT !.deferred = <<>>], s.deferred)

UpTo(lists, b) == UNION {lists[i] : i \in {i \in Bucket : i <= b}}

\* Mutant: one list too many is cleared.
ClearedPast(lists, b) == [i \in Bucket |-> IF i <= b + 1 THEN {} ELSE lists[i]]
Cleared(lists, b) == [i \in Bucket |-> IF i <= b THEN {} ELSE lists[i]]

\* current_thresholds() up to the contribution.  htram's changeThreshold() lets
\* go of what it holds at or below the new threshold.
TakeUp(s, r) ==
  LET merged == IF r.coarsen > 1 THEN CoarsenBuckets(s, r.coarsen, r.extend) ELSE s
  IN  [Reprocess(merged) EXCEPT !.heap = r.heap, !.tram = r.tram,
                                !.tramHold = Cleared(@, r.tram)]
Released(s, r) ==
  UpTo(IF r.coarsen > 1 THEN MergedLists(s.tramHold, r.coarsen) ELSE s.tramHold,
       r.tram)

\* contribute_histogram()
Contribution(s, behind, i) ==
  LET b == behind + 1 + i IN IF b \in Bucket THEN s.histogram[b] ELSE 0

-----------------------------------------------------------------------------
(* SsspChares: the handlers *)

\* start_algo()
Start(p) ==
  /\ p = Owner[Source]
  /\ pe[p].created = {}
  /\ LET u == Charged(pe[p], [via |-> NoEdge, to |-> Source, d |-> 0, ovf |-> FALSE])
     IN  pe' = [pe EXCEPT ![p] = ProcessUpdate(Charge(pe[p], {u}), u)]
  /\ UNCHANGED <<net, clearing, waiting, round, reduction, main, atRound>>

\* An update reaches its owner.
Deliver(p) ==
  /\ \E u \in net :
       /\ Owner[u.to] = p
       /\ pe' = [pe EXCEPT ![p] = ProcessUpdate(pe[p], u)]
       /\ net' = net \ {u}
  /\ UNCHANGED <<clearing, waiting, round, reduction, main, atRound>>

\* Of two updates for one vertex in a message, the one fold_batch() keeps.
WinnerLast(first, second) == second \* mutant
Winner(first, second) == IF second.d < first.d THEN second ELSE first

\* fold_batch() on a message with two updates for one vertex: the loser is
\* retired on the spot, unless one of them is beyond this PE's clamp.
FoldBatch(p) ==
  /\ BatchFold
  /\ \E u, w \in net :
       /\ u # w
       /\ Owner[u.to] = p /\ w.to = u.to
       /\ LET s == pe[p]
              Waits(x) == CreatedBeyondMyClamp(s, x)
              winner == Winner(u, w)
              loser == IF winner = u THEN w ELSE u
          IN  pe' = [pe EXCEPT ![p] =
                       IF Waits(u) \/ Waits(w)
                       THEN ProcessUpdate(ProcessUpdate(s, u), w)
                       ELSE ProcessUpdate(Retire(s, loser), winner)]
       /\ net' = net \ {u, w}
  /\ UNCHANGED <<clearing, waiting, round, reduction, main, atRound>>

\* The updates generate_updates() makes of a queue entry, none if it is stale.
Relaxations(s, u) ==
  IF u.d = s.dist[u.to]
  THEN {Charged(s, [via |-> e, to |-> To[e], d |-> u.d + Weight[e], ovf |-> FALSE]) :
          e \in Out(u.to)}
  ELSE {}

\* One pop of process_heap(), from a process_heap message or idle_triggered():
\* the pass stops at the first top above the heap threshold.
ProcessHeap(p) ==
  /\ \E u \in pe[p].pq :
       LET s == pe[p]
           sent == Relaxations(s, u)
           held(b) == {k \in sent : BucketAt(s, k) = b /\ b > s.tram}
       IN  /\ \A w \in s.pq : NotAfter(u, w)
           /\ BucketAt(s, u) <= s.heap
           /\ pe' = [pe EXCEPT ![p] =
                Retire([Charge(s, sent) EXCEPT
                          !.pq = @ \ {u},
                          !.tramHold = [b \in Bucket |-> @[b] \cup held(b)]], u)]
           /\ net' = net \cup {k \in sent : BucketAt(s, k) <= s.tram}
  /\ UNCHANGED <<clearing, waiting, round, reduction, main, atRound>>

\* clear_pq_hold(): what the heap threshold now admits moves to the queue.
ClearPqHold(p) ==
  /\ p \in clearing
  /\ clearing' = clearing \ {p}
  /\ pe' = [pe EXCEPT ![p].pq = @ \cup UpTo(pe[p].hold, pe[p].heap),
                      ![p].hold = Cleared(@, pe[p].heap)]
  /\ UNCHANGED <<net, waiting, round, reduction, main, atRound>>

Contribute(p, s) ==
  /\ waiting' = waiting \ {p}
  /\ reduction' =
       [window |-> [i \in Slot |->
                      reduction.window[i] + Contribution(s, round.behind, i)],
        clamped |-> reduction.clamped + s.histogram[Top],
        created |-> [reduction.created EXCEPT ![p] = s.created],
        processed |-> [reduction.processed EXCEPT ![p] = s.processed]]

\* The first contribution, asked for by start_reductions().
FirstContribution(p) ==
  /\ p \in waiting /\ round.first
  /\ Contribute(p, pe[p])
  /\ UNCHANGED <<pe, net, clearing, round, main, atRound>>

\* current_thresholds()
CurrentThresholds(p) ==
  /\ p \in waiting /\ ~round.first
  /\ LET s == TakeUp(pe[p], round)
     IN  /\ pe' = [pe EXCEPT ![p] = s]
         /\ Contribute(p, s)
  /\ net' = net \cup Released(pe[p], round)
  /\ clearing' = clearing \cup {p}
  /\ UNCHANGED <<round, main, atRound>>

-----------------------------------------------------------------------------
(* Main::reduce_histogram() *)

Sums ==
  [window |-> reduction.window,
   created |-> Cardinality(All(reduction.created)),
   processed |-> Cardinality(All(reduction.processed)),
   clamped |-> reduction.clamped,
   clampedCreated |-> Cardinality(Flagged(All(reduction.created)))]

\* Every PE has contributed.  Mutant: some PE has.
CompleteEarly == ~main.done /\ waiting # PE
Complete == ~main.done /\ waiting = {}

SameAsLastRound ==
  /\ Sums.created = Cardinality(main.created)
  /\ Sums.processed = Cardinality(main.processed)

\* Mutant: one matching pair of sums is enough.
ConvergedOnce == Sums.created > 0 /\ Sums.processed = Sums.created

Converged ==
  Sums.created > 0 /\ Sums.processed = Sums.created /\ SameAsLastRound

Finish ==
  /\ Complete
  /\ Converged
  /\ main' = [main EXCEPT !.done = TRUE]
  /\ UNCHANGED <<pe, net, clearing, waiting, round, reduction, atRound>>

\* Bound: rounds without progress are counted up to StallRescueRounds only.
Stalled ==
  IF SameAsLastRound THEN Min({main.stalled + 1, StallRescueRounds}) ELSE 0

NextRound ==
  /\ Complete
  /\ ~Converged
  /\ LET extend == Extension(Sums, main.scale, Cardinality(main.created),
                             Cardinality(Flagged(main.created)), main.extendWait)
         band == Coarsening(Sums, main.origin)
         k == IF extend /\ band < 2 THEN 2 ELSE band
         origin == Rescaled(FirstNonzero(Sums, main.origin), k)
     IN  /\ round' =
              [first |-> FALSE,
               heap |-> Rescaled(HeapThreshold(Sums, main.origin, Stalled), k),
               tram |-> Rescaled(TramThreshold(Sums, main.origin, Stalled), k),
               behind |-> origin - 1, coarsen |-> k, extend |-> extend]
         /\ main' =
              [main EXCEPT
                 !.origin = origin,
                 !.scale = @ * k,
                 !.stalled = IF Rescue(Sums, Stalled) THEN 0 ELSE Stalled,
                 !.extendWait = IF extend THEN 1 ELSE Max({@ - 1, 0}),
                 !.created = All(reduction.created),
                 !.processed = All(reduction.processed)]
  /\ waiting' = PE
  /\ reduction' = NoReduction
  /\ atRound' = [created |-> [p \in PE |-> pe[p].created],
                 processed |-> [p \in PE |-> pe[p].processed]]
  /\ UNCHANGED <<pe, net, clearing>>

Next ==
  \/ \E p \in PE :
       \/ Start(p) \/ Deliver(p) \/ FoldBatch(p) \/ ProcessHeap(p)
       \/ ClearPqHold(p) \/ FirstContribution(p) \/ CurrentThresholds(p)
  \/ Finish
  \/ NextRound

Spec == Init /\ [][Next]_vars

\* Charm++ delivers every message, a PE with admissible work runs its heap
\* when idle, and htram flushes its buffers when idle and every few rounds.
Fairness ==
  /\ \A p \in PE :
       /\ WF_vars(Start(p)) /\ WF_vars(Deliver(p)) /\ WF_vars(ProcessHeap(p))
       /\ WF_vars(ClearPqHold(p)) /\ WF_vars(FirstContribution(p))
       /\ WF_vars(CurrentThresholds(p))
  /\ WF_vars(Finish \/ NextRound)

FairSpec == Spec /\ Fairness

-----------------------------------------------------------------------------
(* Properties *)

AtPE(p) == (UNION {pe[p].hold[b] : b \in Bucket}) \cup pe[p].pq \cup ToSet(pe[p].deferred)
InFlight == net \cup UNION {pe[p].tramHold[b] : p \in PE, b \in Bucket}
LiveUpdates == InFlight \cup UNION {AtPE(p) : p \in PE}

TypeOK ==
  /\ \A p \in PE :
       LET s == pe[p] IN
       /\ s.dist \in [{v \in Vertex : Owner[v] = p} -> Distance]
       /\ s.histogram \in [Bucket -> Int]
       /\ s.created \subseteq Update /\ s.processed \subseteq Update
       /\ s.scale \in Nat \ {0} /\ s.limit \in Nat \ {0}
       /\ s.heap \in Bucket /\ s.tram \in Bucket
       /\ s.hold \in [Bucket -> SUBSET Update]
       /\ s.tramHold \in [Bucket -> SUBSET Update]
       /\ s.pq \subseteq Update /\ ToSet(s.deferred) \subseteq Update
  /\ net \subseteq Update
  /\ clearing \subseteq PE /\ waiting \subseteq PE
  /\ main.origin \in Bucket /\ main.scale \in Nat \ {0} /\ round.heap \in Bucket /\ round.tram \in Bucket

\* The merge a PE that has not taken up the round still has to apply.
Pending(p) == p \in waiting /\ round.coarsen > 1

\* p's histogram, and the scale and clamp, once the round is taken up.
Settled(p) ==
  IF Pending(p) THEN MergedCounts(pe[p].histogram, round.coarsen)
  ELSE pe[p].histogram
SettledScale(p) == IF Pending(p) THEN pe[p].scale * round.coarsen ELSE pe[p].scale
SettledLimit(p) ==
  IF Pending(p)
  THEN MergedLimit(pe[p].limit, pe[p].scale, round.coarsen, round.extend)
  ELSE pe[p].limit

\* PEs are at most one merge apart, the one being broadcast, and the scale they
\* are about to have is the one Main decides by.
OneMergeApart ==
  /\ \A p \in PE : SettledScale(p) = main.scale
  /\ \A p, q \in PE : SettledLimit(p) = SettledLimit(q)

\* Summed over the PEs, a bucket counts the live updates in it, whichever PE
\* charged them, at whichever scale, and retires them at whichever other.
LedgerExact ==
  \A b \in Bucket, p \in PE :
    MapThenSumSet(LAMBDA q : Settled(q)[b], PE) =
      Cardinality({u \in LiveUpdates :
                     BucketOf(u, SettledScale(p), SettledLimit(p)) = b})

\* What pq_hold keeps under a bucket is what a threshold reaching that bucket
\* is meant to release: a merge leaves nothing where its bucket is not.
HoldsIndexed ==
  \A p \in PE, b \in Bucket :
    \A u \in pe[p].hold[b] : BucketAt(pe[p], u) = b

\* process_heap() stops at the first top above the threshold, so nothing it
\* could admit may be behind such a top.
NothingHidden ==
  \A p \in PE : \A u, w \in pe[p].pq :
    (BucketAt(pe[p], u) > pe[p].heap /\ \A x \in pe[p].pq : NotAfter(u, x))
      => BucketAt(pe[p], w) > pe[p].heap

\* An update is deferred for one broadcast at most.
DeferredOneRound ==
  \A p \in PE : pe[p].deferred # <<>> => Pending(p)

\* When Main announces the end nothing is live anywhere: not in a hold, a
\* buffer, a queue or a deferral.
NoFalseTermination == main.done => LiveUpdates = {} /\ All([p \in PE |-> pe[p].created]) # {}

Dist == [v \in Vertex |-> pe[Owner[v]].dist[v]]

AnswerCorrect == main.done => IsShortest(Dist)

Terminates == <>main.done

\* Without the flags, every step is a step of Solver or none.
Unflagged(u) == [via |-> u.via, to |-> u.to, d |-> u.d]
UnflaggedAll(us) == {Unflagged(u) : u \in us}
PerPE(counter) == [p \in PE |-> UnflaggedAll(counter[p])]

SolverNet == UnflaggedAll(InFlight \cup UNION {ToSet(pe[p].deferred) : p \in PE})
SolverQueued ==
  UnflaggedAll(UNION {pe[p].pq \cup UNION {pe[p].hold[b] : b \in Bucket} : p \in PE})
SolverCreated == PerPE([p \in PE |-> pe[p].created])
SolverProcessed == PerPE([p \in PE |-> pe[p].processed])
SolverContributed == PE \ waiting
SolverSnapCreated == PerPE(reduction.created)
SolverSnapProcessed == PerPE(reduction.processed)
SolverPrevCreated == UnflaggedAll(main.created)
SolverPrevProcessed == UnflaggedAll(main.processed)
SolverRoundCreated == PerPE(atRound.created)
SolverRoundProcessed == PerPE(atRound.processed)
SolverDone == main.done

Unscheduled == INSTANCE Solver WITH
  Shares <- [v \in Vertex |-> {Owner[v]}],
  LeafPrune <- FALSE, SendFilter <- FALSE, Combine <- FALSE,
  dist <- Dist, net <- SolverNet, queued <- SolverQueued,
  created <- SolverCreated, processed <- SolverProcessed,
  contributed <- SolverContributed,
  snapCreated <- SolverSnapCreated, snapProcessed <- SolverSnapProcessed,
  prevCreated <- SolverPrevCreated, prevProcessed <- SolverPrevProcessed,
  roundCreated <- SolverRoundCreated, roundProcessed <- SolverRoundProcessed,
  done <- SolverDone

SolverSpec == Unscheduled!Spec
=============================================================================
