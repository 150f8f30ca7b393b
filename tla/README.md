# ACIC in TLA+

TLA+ models of ACIC, the asynchronous distributed single-source shortest-path
solver in `src/sssp_smp.cpp` (Charm++ chares, aggregated by the htram library),
and of the scripts that run it again and again and report on it
(`src/scripts/diagnose.sh`, `src/scripts/diag_report.py`), model-checked with TLC
and proved, in part, with TLAPS.

ACIC relaxes edges in no particular order. A PE applies an update that improves
a vertex it owns, queues the vertex, and later sends one update per outgoing
edge. A controller sums a histogram of the live updates over all PEs, round
after round, and answers with two thresholds that decide which updates may be
expanded and which may be sent now. The same sums tell it when the run is over.
What makes it hard is that nothing is ever looked at at one moment:
contributions to a sum are made at different times, a broadcast and a
point-to-point message are not ordered against each other, and the histogram's
buckets are merged while updates charged to the old ones are in flight.

## Inventory

| Component (source) | State | Operations | Interacts with | What makes it correct |
|---|---|---|---|---|
| Solver worker `SsspChares` (`sssp_smp.cpp` 3531-5841) | `distances`, `pq`, `pq_hold`, counters, histogram | `start_algo`, `process_update_caller`, `process_update`, `process_heap`, `clear_pq_hold`, `contribute_histogram`, `current_thresholds` | htram (sends, deliveries), Main (reductions, broadcasts), itself (messages) | every update accounted for once; the distances at the end are the shortest |
| Controller `Main` (2238-2807) | previous sums, window origin, scale, stall and extension counters | `reduce_histogram`, `choose_coarsening`, `choose_buffer_size`, `report_stall` | workers | never announces the end early; always lets something proceed |
| Buckets and overflow ledger (4410-4570) | `bucket_scale`, `bucket_limit`, flags carried by updates, `deferred_updates` | `get_histo_bucket`, `bucket_of`, `charge_new_update`, deferral, `coarsen_buckets` | worker, controller, htram's hold | a bucket's global count is the number of live updates in it |
| htram (outside the repository) | hold per bucket, buffers | send, `changeThreshold`, `coarsenBuckets`, flush | worker | no loss, no duplication |
| Process-shared queues (`process_work*.h`, 4881-5030) | bins per worker, hints, shared distances | `push`, `pop_batch`, `process_shared_update`, `process_shared_heap` | workers of one process, by locks and CAS | an item is popped once and is never stranded |
| `ControlNode` (3332-3428, 3791-3812) | accumulators, the latest round, its generation | `add`, `collect`, `thresholds`, `pickup_round` | workers of one process, Main | every PE applies every round once |
| `HubHints` (3443-3517) | table of (vertex, distance) words, outbox | `insert`, `covers`, `publish`, `flush`, `reset` | workers | a hint is a distance its vertex has had in this run |
| Lazy-heavy tokens (4577-4738) | token bounds, queue entries for edge ranges | `queue_token`, `release_token` | worker's queue and counters | every edge range is relaxed at the final distance |
| Send filter and combining (4298-4377, 4750-4855) | `sent_cache`, hold bitmap, fold table | `send_relaxations`, `absorb`, `fold_batch` | worker, htram | only updates that cannot matter are dropped, and each is counted |
| Certificate (5703-5808, 3180-3243) | parents, message counts | `certify_*` | Main, workers | accepts only shortest distances |
| Sources and run life cycle (2101-2224, 3143-3291, 4125-4174) | source index, epoch, flags | `start_source`, `finish_source`, `advance_source`, `reset_for_source`, `fast_exit` | everything | a run starts clean; a timeout hits its own run only |
| LiveSlack and buffer size (`live_slack.h`, 2345) | smoothed rates | `observe`, `threshold` | controller | a threshold within the window |
| graphlib (`graphlib/*.h`) | CSR arrays, partition, tiles | builders, `TileLayout`, generators | loading only | partitions and layouts are bijections |
| Wire format (`weighted_node_struct.h` 85-160) | none | `wire_pack`, `wire_unpack` | htram | the round trip is exact or the run stops |
| Diagnostics harness (`scripts/diagnose.sh`) | the directory of results, the position in its loops | experiments `h1`-`h4`, `ab`, `run`, `timed`, `field` | the solver's exit code and output, the report | every row cites the logs of its own attempt; repetitions stay interleaved |
| Report (`scripts/diag_report.py`) | none: a function of the directory | a table per hypothesis, the A/B comparison | the harness's files | the tables say of the files what their headings say |
| Test graphs (`tools/leafy_graph.py`) | none | tree, extra edges, offsets | the `--leaf-prune` gate | the last vertex is a leaf that reaches all |

`PROJECT.json` lists the same components with what is modelled of each, and the
hazards with the line where each bites.

## Modules

| Module | Models |
|---|---|
| `Multigraph` | the input graph, and what a correct answer for a source is: the greatest potential |
| `WeightedGraph` | the graph with the one source of a run |
| `SerialDijkstra` | the ground truth of `--verify`, `serial_dijkstra()` of `graphlib/reference.h`, as a recursive function over its pops |
| `ShortestPaths` | abstract specification of a run: distances fall, never below the answer, and are the answer once the end is announced |
| `Solver` | workers and termination test without scheduling: which step comes next is left open |
| `SolverProofs` | theorems about `Solver` |
| `MCSolver` | a graph for TLC; composes `Solver` and `LeafyGraph` as the `--leaf-prune` gate runs them |
| `Buckets` | bucket of an update, merge of arrays by a factor, clamp, order of the queue |
| `Controller` | what one reduction makes Main decide: pure operators |
| `Acic` | the solver with its scheduling: histogram, thresholds, holds, merges, deferral, rounds |
| `SumProofs` | induction by a least counterexample, sums over finite sets |
| `AcicProofs` | theorems about `Buckets` and `Acic` |
| `MCAcic` | two graphs for `Acic` |
| `ProcessShare` | continues `Solver` at the grain of memory accesses: shared distances, batches |
| `ProcessShareProofs` | theorems about `ProcessShare` |
| `WorkPool` | abstract specification of the shared queue: an item is in one place at a time |
| `ProcessWork` | the shared queue with its bins, locks, flags, and the drain cap |
| `ProcessWorkProofs` | theorems about `ProcessWork` |
| `Rounds` | abstract specification of the control rounds: one answer of every PE, then the next |
| `ControlNode` | `--control node`: rounds carried by one object per process |
| `ControlNodeProofs` | theorems about `ControlNode` |
| `Certificate` | what `--certify` checks of an answer, taken as a whole: pure operators |
| `Sources` | the run life cycle: one run per source, timeout, certificate by messages, reset, hub hints |
| `SourcesProofs` | theorems about `Certificate`, `Sources` and `LeafyGraph` |
| `Diagnose` | `scripts/diagnose.sh`: experiments, failed runs, kills, a second attempt into the same directory |
| `DiagReport` | `scripts/diag_report.py`: its tables as pure operators on that directory |
| `DiagnoseProofs` | theorems about `Diagnose` |
| `LeafyGraph` | `tools/leafy_graph.py`: the graphs it may write |
| `MCProcessShare`, `MCProcessWork`, `MCControlNode`, `MCSources`, `MCDiagnose` | instances for TLC |

`Acic` composes `Buckets` and `Controller`, and implements `Solver`
(`SolverSpec`), which implements `ShortestPaths` (`AnswerSpec`). `ProcessShare`
implements `Solver` too (`HandlersSpec`); what it calls `queued` is the pool that
`ProcessWork` keeps, which implements `WorkPool` (`PoolSpec`). `ControlNode`
implements `Rounds` (`LockstepSpec`), on which `Acic`'s and `Solver`'s rounds are
built. `Sources` takes from `Solver` that the end is announced when nothing is live,
and extends `Certificate`, whose verdict its own, counted by messages, is measured
against. `Diagnose` extends `DiagReport`:
what the harness leaves is what the report reads.

### Solver

| TLA+ | Code |
|---|---|
| `dist` | `distances[]` of all PEs together |
| `net` | updates created and not yet applied, wherever htram has them |
| `queued` | updates applied and waiting in `pq`, `pq_hold` or a shared queue |
| `created`, `processed` | `updates_created_locally`, `updates_processed_locally`, as the sets they count |
| `contributed`, `snap*` | the reduction in progress |
| `prev*`, `done` | `previous_updates_*` of Main, the announcement |
| `round*` | auxiliary: the counters when Main last broadcast; used by the proofs only |
| `Start`, `Receive`, `Absorb`, `Expand` | `start_algo`, one item of `process_update_caller`, a loser of `fold_batch` or `absorb`, one pop of `process_heap` |
| `Contribute`, `Finish`, `NextRound` | `contribute_histogram`, the two ways out of `reduce_histogram` |

Counters are sets because a cardinality alone would not tell an update counted
twice from two updates; Main's operators use cardinalities only, and
`CountedOnce` is what makes the cardinality of a union the sum the reduction
computes. `Covered` lets a send be filtered whenever *any* earlier send of the
PE, or a distance the target has had, is no larger. The code's cache and hint
table forget entries, so they filter less. `Shares[v]` is the set of PEs that may
apply or expand updates for `v`: its owner, or with `--process-share` all workers
of the owner's process.

### Acic

`pe[p]` is a record: the chare's `distances`, `histogram`, counters,
`bucket_scale`, `bucket_limit`, thresholds, `pq`, `pq_hold`,
`deferred_updates`, and htram's hold on that PE. An update carries its overflow
flag. `round` is the broadcast a PE takes up, `waiting` the PEs that have not
done so; `current_thresholds` contributes in the same handler, so one set serves
for both directions. `clearing` holds the `clear_pq_hold` messages that
`current_thresholds` sends and does not wait for. `main` is Main's state.

Merges (`CoarsenBuckets`), the reprocessing of deferred updates, the release of
htram's hold and the contribution are one action, as they are one handler.
`ProcessHeap` is a single pop where the code makes up to a hundred; every prefix
of such a pass is a reachable state here, and nothing but this PE's own handlers
can come between its pops. A message is delivered one update at a time for the
same reason, except that `FoldBatch` takes two at once.

`send_relaxations` applies an update for a vertex of its own PE at once when it is
below the tram threshold; `Acic` lets it be delivered at once or later. Left out
of `Acic`: the process-shared path, lazy-heavy tokens, send filter,
leaf pruning, hub hints, control through the node (`ControlNode`), LiveSlack,
buffer sizes and flush policies. htram's flush is assumed to happen.

### ProcessShare

With `--process-share` every worker of a process may lower a distance
(`process_shared_update`) and expand any entry of the process's queue
(`process_shared_heap`). `Solver` does each in one step; here a step is one access
to shared memory. `Call` loads the distance, `Attempt` is one turn of the
compare-and-swap loop, `Push` puts the winner in the queue; `Pop` takes a batch,
`Begin` compares an entry with the distance once, `Relax` sends one edge, `End`
retires the entry. `HandlersSpec` maps the batch and the winner to `queued`, the
edges an expansion still owes to updates in flight, and counts an entry as
processed when its expansion begins: that is the moment at which the whole
expansion happens in `Solver`. The clamp deferral is left out, as in `Solver`.

### ProcessWork

The queue as it is built by default (`process_work.h`). `Insert` and `Signal` are
`push()` around the store of the flag, `Look` reads a flag without the lock, `Miss`
is a `try_to_lock` that fails, `Try` one that succeeds, with the pops under it, and
`Unlock` the store of the flag and the release. A pop that finds the bin empty or its
head not admitted holds the lock for nothing and leaves the flag. A batch is asked for
with any capacity up to `Capacity`: near its end a pass over the heap asks for what
is left of `heap_slice`. Items are numbered in the queue's order, by which the entries a worker's
thresholds admit are those up to a number; `QueueOrderMonotone` of `AcicProofs`
is why that is so. Rounds are at most one apart (`Rounds`), and a worker may apply
one between two items of its batch, which then go back (`PutBack`).

### ControlNode

A contribution is a pair of PE and round, and a sum the set of its contributions:
the code adds numbers and counts arrivals, so that a sum of two rounds would go
unnoticed. `Stores` is the order in which `thresholds()` publishes. `MaybePickup` is
the check at every delivery, heap pass and idle pass, `PickupFallback` the message;
both continue with `Check` or `Get`, and `Add` is the end of `current_thresholds`.
Every PE is modelled as able to run beside the handlers of its process, those of
two rounds included.

### Sources

| TLA+ | Code |
|---|---|
| `main` | Main's `source_epoch` (`epoch`, from 1), `source_running`, `run_truncated`, `certify_parts`, the callback given to `CkStartQD` (`qd`), `CkExit`'s code |
| `timers` | `CcdCallFnAfter`: start of the reductions, `--timeout`, `--round-delay`; quiescence detection does not see them |
| `net` | messages, with the number of the run they belong to (a history variable but for `certify_batch`) |
| `red` | who has contributed to each reduction |
| `pe`, `dist`, `sent` | a chare's run, `pq` and distances, and its `hub_sent` |
| `table`, `outbox` | `HubHints` of a process |
| `cert` | the `certify_*` members of a chare; `cursor` counts the vertices scanned, in the order of `LocalVertex`, the chare's local indices |

The solver is reduced to what its reset has to clear: updates applied, queued and
expanded, rounds, and hub hints, which are the one thing of a run that is still
in flight when its end is announced. That the end is announced when no update is
live is `NoFalseTermination`; the wrong answers that the certificate is there for are
a fault, `Converge` changing one distance at most once (`MayFail`). A hint for a
vertex whose slots hold others may be dropped (`ReceiveHints`). The candidates of
the certificate are noted, buffered and sent as in `certify_step`, with slices and
full buffers of any size. `CkExit` ends the process at once.

Left out of `Sources`: the graph's loading before the first source, the candidate that
would overflow a distance (`certify_step` counts it as a violation), and the hook
that perturbs a distance for the tests (5730), which does so when a PE starts its
certificate: a candidate that arrived before was compared with the distance as it
was.

### Diagnose and DiagReport

A job is one iteration of the harness's innermost loop, or one `mkdir` or opening of a
summary. `setting` is the experiment and the number of repetitions, `at` the place in
the loops, `ran` the status of an A/B run between the run and its row. A run is one
of: completed with a compute time, crashed, or cut by `--timeout`, which prints a
compute time and exits with 1. A kill may come between any two jobs, and the next
invocation finds the directory as it is (`Rerun`). The report is a function of the directory:
tables that copy columns are left out, the others are operators (`HalfIn`,
`Concentration`, `TailRow`, `Imbalance`, `AB` and so on), on quotients kept as pairs.

`LeafyGraph` treats the random generator's draws as inputs: a parent before every vertex
but 0, the ends of the extra edges, a weight per edge. Edges are numbered as
`np.concatenate` puts them, an arc and its reverse `NumEdges` apart; the place of an arc
after `np.lexsort` is the number of arcs that do not come after it (`Position`), and
`Arcs` and `Offset` are the two arrays of the file that `WriteGraph` writes.

## Runs

| Run | Shows |
|---|---|
| `solver` | six vertices, eight edges (parallel edges, a tie, an unreachable vertex, a zero-weight leaf, a source that is a leaf), two PEs, filter, combining and leaf pruning on: accounting, no false termination, no double expansion, answer equal to the serial Dijkstra's, which is what `--verify` checks, distances only fall, refinement of `ShortestPaths`, and, under fairness, the end comes. After the run `leafy_graph.py` writes the graph of the gate's next one (`GateSpec`): every file of four vertices, one extra edge and two weights is one leaf pruning is sound for. Of this size the extra edge may be a loop, or double an edge of the tree with another weight |
| `acic_skew` | merges and range extensions with `--skew-defer` and `--window-follow`: exactness of the reduced histogram (`LedgerExact`), holds found where they are indexed, at most one merge of skew, deferral of one broadcast, no false termination |
| `acic_slice` | the default flags of a sparse graph, on which `--lazy-heavy auto` is off, and the stall rescue *off*: a flagged update and a longer unflagged one queue at one PE across a merge; with `--batch-fold`; nothing hides behind the head, the answer is right, and the run ends without being rescued |
| `acic_refines` | the default flags of a sparse graph: every step is a step of `Solver` |
| `process_share` | two workers of a process and one of another: every interleaving of their memory accesses is a run of `Solver`; nobody holds anything when the end is announced |
| `process_work` | two workers, two bins: no item lost or popped twice, flags honest for unlocked bins, everything consumed, with two drainers or with a drain cap of one |
| `control_node` | two processes with two and one workers, two rounds: pure totals, no round skipped, lockstep, and every round reaches every PE without `MaybePickup` being relied on |
| `sources` | two runs in a row with hints, delayed contributions, a timeout at any moment and at most one wrong answer: nothing of the first run reaches the second, a timeout hits its own run, exit code 0 means shortest distances, 1 means a timeout or a wrong answer, the verdict is the one of `Certificate`, and the process exits |
| `diagnose` | every experiment, with failing runs, kills and a second attempt: rows cite their own runs, repetitions stay interleaved, and the report's tables agree with what they are said to show |
| `acic_stuck`, `acic_fold_skew`, `diag_report` | expected violations: findings, below |

Bounds. Buckets: B = 4 instead of 2048, a window of W = 3 instead of 256. The
interesting places are the lowest bucket, one in the middle that moves when
buckets merge, the window's edge and the top bucket, which four buckets provide.
`BucketTarget` = 1 and `TwoTierLimit` = 0 let a merge happen with three updates
in flight. Two PEs are enough for every skew: one that has taken up a broadcast
and one that has not. `StallRescueRounds` = 2, and `main.stalled` is capped
there, which is the only comparison made with it. `ScaleCap` = 2 instead of 2^20 is the
scale from which `--range-extend` stops: in `acic_skew` the range is extended once, an
extension asked for at the cap is refused, and merges go on beyond it. The number of rounds, updates
and merges of `Solver`, `Acic` and `ProcessShare` is limited by the graph alone.
`ControlNode` opens `MaxRound` = 2 rounds: a publication may still be sending
fallback messages while the next one stores its record, which is all that
publications can do to each other. `ProcessWork` has three items and batches of
up to two, so that a batch may empty a bin, leave something, or stop at a head that is
not admitted; its thresholds fall from 2 to 1, so that items come back, and rise
to 3. With
`TramShare` = 9900 (`acic_skew` and the findings) the tram threshold may reach
the top of the window, as in the percentile sweeps of `scripts/diagnose.sh`; the
other runs use the default of 1%. `CHECK_DEADLOCK FALSE` because the system does
stop once the end has been announced.

`Sources` has two sources, the second one farther from the only hub than the first, so
that a hint left over would cut the only shortest path: 2 before 1 on a ring of
three with one chord. Both PEs are of one process, one of them without rank 0; a
third PE or process adds senders of the same messages. `Diagnose` allows two
invocations and a kill after at most `KillBound` = 5 jobs: a directory that was
left after any prefix of those is all that the next invocation finds, and the A/B
experiment has then been in its second repetition. Two graphs, two
variants, two worker counts and three repetitions make every median,
spread and ratio differ from its first row; each dump puts one boundary of the tables
(an empty class, a tie, a tail that starts in the first, a middle and the last
round, no settled counts) in the data.

Fairness. Weak fairness of each handler of each PE: Charm++ runs every message
it has delivered, and `idle_triggered` runs the heap of an idle PE. Delivery is
weakly fair per PE because htram's buffers are flushed when a PE is idle and
every few rounds. Of two updates for one PE either may be delivered first, any
number of times: no order is assumed. In `ProcessWork` a round's message is
applied between handlers, which end: strong fairness of `Install`. Nothing is
assumed of new pushes or of yielding. In `ControlNode` only messages are fair, not
the pick-up points. `FoldBatch` has no fairness. The
completion of a round is weakly fair because the reduction is. In `Sources` every
message, reduction, quiescence callback and short timer is weakly fair, the
timeout is not: the process exits without it. `Diagnose` has no fairness and no
liveness property, for the harness may be killed.

## Findings

- `acic_stuck`. With the shipped `skew_defer = false`, an update created on a
  PE that has merged its buckets and applied on a PE that has not can be charged
  to an ordinary bucket and taken out of the overflow slot. The source describes
  the race (lines 540-563) and leaves the guard off as never observed. It needs a
  tram threshold near the top bucket in the round of a merge. The count that no
  update stands for makes `above_window` 0 while one update is live above the
  window, so the stall rescue, which asks for `above_window > 0`, does not fire
  either, and the rounds repeat for ever.
- `acic_fold_skew`. `fold_batch` repeats only the clamp half of the skew check:
  with `--skew-defer` on, a loser is retired that `process_update` would have
  deferred. `process_shared_update` has the same omission; the deferral is not
  modelled there.
- `diag_report`. The report raises an exception and prints nothing more when a
  graph has a completed row at some bucket width and none, or a blank one, at
  multiplier 1, which it is compared with (`diag_report.py:148`): one failed run of the
  harness costs the whole report.

Three more were met while modelling and have no run of their own. `above_window` is
said not to be able to be negative (2465-2467); it can, for a round, with every
count exact, because contributions are of different moments. The first reduction
starts its window at bucket 1, Main reads it as starting at bucket 0. A row of the
harness takes its counters from the log of repetition 1 even if that run was cut
short, while `diagnose.sh:105` takes such a log to have no summary:
`CountersOfCompleted` of `Diagnose` states it, and does not hold.

## Proofs

`SolverProofs` proves for every graph, partition, number of PEs and setting of
the flags, from `GraphAssumption` (finite graph, weights in Nat),
`SolverAssumption` and `LeafAssumption` (with leaf pruning, what enters a leaf
comes from its only neighbour):

- `TypeCorrect`; then `AccountingCorrect` (`LiveAccounted`, `CountedOnce`), whose
  inductive invariant also says that an update in `net` is not counted by any PE
  as processed and that only the owner of an edge's origin creates its updates;
- `ExpansionCorrect`, hence `NoSecondExpansion`: a queued update's relaxations are
  new as long as it is current, since distances strictly fall between
  applications;
- `NeverBelow`: every update and every distance is at or above every potential;
- `NothingForgotten`: if an edge is not relaxed, its origin's improvement is
  queued, in flight, or was filtered for a send that is at least as good. This is
  where the filter, combining and pruning are justified;
- `SnapshotsCorrect`, hence `TerminationSafe`. The argument is the double
  snapshot: a PE contributes to a round after Main has broadcast it, and Main
  broadcasts after the last contribution of the round before. Counters are
  monotone, so equal sums in two rounds mean that no counter changed at any PE
  between its two contributions, in particular that at the broadcast between them
  all counters had the values both sums report. There created = processed, and by
  `LiveAccounted` nothing was live;
- `AnswerIsShortest` from the last three, `SolverImplementsAnswer` and
  `DistancesOnlyFall`;
- `ReferenceIsShortest`: the serial Dijkstra computes what `IsShortest` says, which also
  shows that the definition used everywhere is met by some function on every graph. A
  vertex is settled when it was expanded at the distance it has (`Settled`); settled
  vertices are no farther than any entry of the frontier and what leaves them is
  relaxed (`LoopInv`), so a pop is stale or settles one more, and an edge pushes at most
  once: pops run out within the number of edges plus one (`Left`). With
  `AnswerIsShortest` it gives `ReferenceMatched` (`MatchesReference`): `--verify` passes
  at every announced end.

`AcicProofs` first proves of `Buckets`: dividing by the scale and then by a merge's factor is dividing by
the product (`DivDiv`), so `MergeExact`: with the clamp frozen a merge moves every
charge where its retirement looks for it; `BucketInRange` and `MergeFits`: indices
stay in the array; `QueueOrderMonotone`: with flagged updates last the bucket never
falls along the queue. `InverseIsExact`: the division by the scale that
`get_histo_bucket` computes as a multiplication by a truncated inverse and a shift
(`QuotientByInverse`) is the division `HistoBucket` has, for every index of 32 bits
and every scale up to 2^31.

It then proves, from `GraphAssumption`, `BucketAssumption`,
`ControllerAssumption` and `AcicAssumption`, for any graph, PEs, number and
width of buckets, window and setting of the flags:

- `TypeCorrect`: thresholds, window origin and scales are what they should be whatever
  the sums are (`NextRoundType`), and each handler takes a chare with its types and a
  clamp that fits (`ChareOK`) to another. What `Reprocess` folds over is a sequence that
  only grows while it is worked on; `FoldSteps` and `Climb` prove of it what a handler
  keeps, by the least position at which it were lost;
- `SoundStep`: an update is in at most one queue, hold, buffer or deferral (`Places`), and
  what all PEs together have created, processed and hold is what `Solver`'s invariant says
  (`View`): live updates are created and not processed, no update is below a potential,
  and what an edge still owes is on its way. A merge and a released hold only move updates
  (`RearrangeSound`); deferral moves one from the network and reprocessing back, in the
  middle of a handler (`ReprocessSound`);
- `TerminationSafe` by the double snapshot of `SolverProofs` (`Snapshots`), here with the
  sums of cardinalities Main really compares, and `AnswerIsShortest` from it;
- `QueueHead` (`NothingHidden`), if flagged updates sort last;
- `AtMostOneMergeApart` (`OneMergeApart`: one clamp, and the scale Main decides the next
  extension by), from who has taken up the round, and
  `DeferredNoLonger` (`DeferredOneRound`): an update that its creator did not charge to
  the overflow slot has a place in every histogram at the scale and clamp that all PEs
  are about to reach (`Own`, `PlacedSettled`), so once the merge is taken up there is
  nothing left to defer. A PE defers only what was charged after a merge it has yet to
  take up.
- with `ClampFreeze` and `SkewDefer`, `HoldsStayIndexed` (`HoldsIndexed`), and without
  `BatchFold` also `LedgerStaysExact` (`LedgerExact`). Each chare's histogram is what it
  created less what it retired, every update at the bucket it belongs in now (`Ledger`).
  A merge keeps it (`MergeBooks`): by `MergeExact` the updates of a new bucket are those
  of the old ones its count is the sum of (`SumParts`). An update is created by one PE and
  retired by another (`Entries`), so the books of one chare say nothing of what is live,
  and their sum over all PEs, each after the merge it has yet to take up, does
  (`LedgerSums`).
- with `ClampFreeze`, and without `SkewDefer`, `RangeExtend` and `BatchFold`,
  `SolverImplemented` (`SolverSpec`): `Acic` implements `Solver`, under the mapping
  at the end of `Acic`. A delivery is a `Receive`, a pop an `Expand`, a contribution a
  `Contribute`; moving what a threshold releases is a stutter. Two facts make the
  mapping work. No update is ever deferred (`NoSkew`), for `current_thresholds` would
  otherwise apply several updates in one step, as a fold does. And no two updates
  differ in their flag alone (`Distinct`), so that forgetting the flags neither merges
  two updates nor changes a sum Main compares (`SumsAgree`): an edge is relaxed from a
  distance of its tail once.

`ProcessWorkProofs` proves, from `WorkAssumption`, for any number of workers, items,
caps, batch sizes and thresholds: `TypeCorrect`, with the exact count of the workers
inside the heap, whose inductive part is that who pops is inside (`PopsInside`);
`FlagsHonest`, from who holds which lock and that the flag is right behind a pop that
took nothing (`LocksHeld`); and `PoolImplemented`, that
the queue implements `WorkPool`, from items being in one place (`OnePlace`) and pops
looking with empty hands (`PopsEmptyHanded`).

`ControlNodeProofs` proves, from `ControlAssumption`, for any number of processes,
workers and rounds: `TotalsArePure`, `RoundsInOrder` (a PE neither skips a round nor
applies one twice) and `LockstepImplemented`, that the control path implements
`Rounds`. The inductive invariant has two halves. `RoundInv`: a PE and a process's
announcement are at most one round behind Main, and what is announced has been
recorded, which is the order of the stores. `Gathered`: a process that has not
forwarded its sum holds exactly the answers of its PEs that have answered, one that has
holds nothing, and process 0 holds the sums it was sent; with it, counting arrivals is
as good as looking at rounds.

`SourcesProofs` first proves of `Certificate`, for every graph with weights in Nat: `CertificateSound`, that
accepted distances are `IsShortest`, and `CertificateComplete`, that with positive
weights the shortest distances are accepted. For the first, accepted distances are a
potential by the absence of violations, and no potential is greater: of the vertices
where one were, that with the least distance has a tight predecessor with a smaller
one. For the second, a vertex without a tight predecessor could be raised by one and
the distances would not be the greatest potential.

It then proves, from `GraphAssumption` and `SourcesAssumption`, for any list of
sources, number of PEs and setting of the flags, slices, batches and full buffers of any
size, and with the wrong answer of `MayFail`:

- `LifeCycle`, the inductive invariant `LifeInv` of which the others are made. A PE's
  contribution is to be made in one way only, by the message or the timer that leads to
  it, or has been made (`OneToken`); between a run's end and the next start there is none
  (`Idle`), and what prints or certifies finds the run over (`Ended`). The reset is under
  way alone (`ResetAlone`), so every message is of the run Main is in and every PE is in
  it too, or has its reset coming (`SameRun`). `PrintOnce` and `NotStarted` lead from the
  end to the certificate: it begins with nothing counted for this source on any PE;
- `RunsApart` (`CleanStart`): a reset finds a PE with nothing queued, and no message or
  delayed contribution of one run reaches a PE that is in another. `TimeoutOfItsOwn`
  (`OnlyOwnTimeout`): a run is cut short by its own timer only, and not after its end;
- `VerdictIsExact` (`VerdictExact`): however starts, slices and batches are ordered, some
  PE is bad exactly when `Certificate`'s `Accepted` does not hold. While the certificate is
  counted, a scanned edge's candidate is noted, buffered or in a batch (`NoneLost`), what
  is noted is the candidate of an edge (`NoneInvented`), and a PE that is not to be
  started or continued has scanned all its vertices and holds nothing (`Scanning`); at
  quiescence no batch is left and the counts are exact. This is where it is needed
  that `certify_prepare` resets a PE once per source, whichever message comes first;
- `AcceptedAreShortest` (`AcceptedIsShortest`), under the assumption that `--certify` or
  `--verify` is given: exit code 0 means shortest distances, by `VerdictIsExact` and
  `CertificateSound`. Without either flag the program checks nothing and there is nothing
  to prove;
- `RunsEndRight`: when the end of a run is announced and no fault has changed a distance,
  the distances are the shortest ones, of this source. The invariant is that of a run
  which shares its PEs with the runs before it. A PE that has been reset holds nothing of
  the last run (`Cleared`); no distance, update or hint is below the shortest distance
  (`Sound`); a hint is a distance its vertex has had in this run (`HintsOfRun`), so a send
  that a hint suppresses was not needed; and every edge is relaxed, or its tail is queued,
  or its update is on its way (`Settling`), of which nothing is left at the end;
- `FailsForAReason` (`NoFalseAlarm`), for positive weights when `--certify` is given: exit
  code 1 means a timeout or a wrong answer. With the answer right by `RunsEndRight`,
  `CertificateComplete` and `VerdictIsExact` leave no PE bad. A weight that is not positive fails the
  certificate by itself, whatever the answer (3236), hence the assumption.

Last, of the test graphs, from `LeafyAssumption` (at least two vertices, any number of
extra edges, any weights): `LeafyGraphsAlwaysFit` (`LeafyGraphsFit`). The order of the
arcs is total, so that their places are a permutation (`Placed`) and the arcs of the
vertices before `u` are those up to `u`'s offset (`BehindOffset`). The last vertex has its
own tree edge and no other, because an extra edge's ends are drawn below it. An arc's
reverse is in the list of its end (`ReversePlaced`), so the only arc of a leaf is the
reverse of whatever enters it. And the least vertex reached from the last one is 0, since
any other has a parent; likewise there is no least vertex that is not reached.

`ProcessShareProofs` proves, from the assumptions of `SolverProofs` and from
`ShareAssumption`, for any processes, workers and size of a batch, the facts below.
`ShareAssumption` has leaf pruning, the send filter and combining off, the defaults for
the sparse graphs sharing is selected for; lazy-heavy tokens are off too, as the program
aborts with both (`begin()`). The clamp deferral of `process_shared_update()` is left
out, so the facts are those of a run in which no scale skew defers an update.

- `HandsInOrder`, the inductive invariant. It is `Solver`'s own invariant on the run as
  its handlers see it (`H`, with the batch and the winner of a compare-and-swap as queued
  and the edges an expansion still owes as in flight), and what the hands add: what a
  worker holds has the types of its program counter (`HandTypes`), belongs to an item it
  took (`Calls`, `Entries`), and is nowhere else (`Apart`). `Apart` needs
  `NeverExpandedTwice` of the handlers: two workers that expand entries of one vertex do
  so at different distances, hence create different updates;
- `HandlersImplemented` (`HandlersSpec`): a compare-and-swap that succeeds, or a call that
  finds the distance no worse, is a `Receive`; the comparison with which an expansion
  begins is an `Expand`; a contribution is made with empty hands and is a `Contribute`;
  loads, failed attempts, pushes, pops, single relaxations and the retirement of an entry
  are stutters. The distance may fall after the comparison: the expansion is then of the
  distance it began with, which is what `Solver`'s would have been a moment earlier;
- `SharedAnswerIsShortest`, from it and `SolverProofs`.

`DiagnoseProofs` proves, from `HarnessAssumption` and `DumpAssumption`, for any lists of
graphs, variants and knobs, any repetitions, any runs that fail and a kill between any two
jobs:

- `HarnessRight`, the inductive invariant. Of the experiment `ab` it says that the rows of
  `runs.tsv` are those of the plan's jobs that were done since it was opened
  (`RowsOfPlan`, `InStep`), so that a kill between a run and its row costs that row and no
  other, and the next invocation truncates before it runs; and that each row's log is of
  its attempt. No other experiment touches the file (`OtherJobs`), and the log a job
  writes is no other job's of the plan (`OwnLogs`);
- `CitationsRight` (`RowsCiteTheirRun`);
- `DriftShared` (`RepsBalanced`) and `BaselineRight` (`BaselineFirst`), from what the loops
  make the plan (`ABPlan`): each pair of graph and repetition has every variant once, the
  baseline first, and comes after all pairs of earlier repetitions. Of any prefix, then, a
  variant's r-th row has r - 1 rows of every other before it (`Interleaved`);
- `RunsCounted` (`EveryRunCounted`): the samples and failures of a cell of the table
  partition its rows;
- `HalfInCorrect` (`HalfInMinimal`): `Sorted` says that the places of `Descending` are a
  permutation, so that every set of buckets is as large as a set of places with the same
  sum, and of a list that never rises no set of places adds up to more than as many from
  the front (`FirstAreMost`);
- `ConcentrationTrue` (`BusiestFirst`): a row of the table is a sum over a set of classes
  above all others that have vertices (`ConcentrationSums`). From classes that are ordered
  by arrivals per vertex pairwise, two such sums are ordered (`TopHeavy`);
- `TailCounted` (`TailAddsUp`): differences of neighbours add up to that of the ends
  (`Telescope`), wherever the tail starts.

`DumpAssumption` is what the solver writes (`write_diag_files` in `sssp_smp.cpp`): counts
are not negative, and a class of the arrivals table is that of `degree_class`, a binary
logarithm, so that classes are ordered by arrivals per vertex. The last three theorems
are of every dump in the directory, also of one left by a run before (`DumpsKept`).
Recursion over a list is not needed: a fold of the report is a sum over the positions of
the list (`TotalIsSum`), and `SumProofs` has the laws of such sums.

Only model-checked: all liveness (`Terminates`, `EveryRoundApplied` and `Consumed`), which
needs ENABLED and fairness reasoning the provers do not have. Every invariant and every
safety property of the runs is stated by a theorem.

## Not modelled, and what is left

1. The chunk variants of the queue (`process_work_chunks.h`,
   `process_work_buckets.h`), alternatives to `process_work.h` chosen when building,
   against `WorkPool`; the clamp deferral in `ProcessShare`.
2. Lazy-heavy tokens, as a refinement of `Solver`'s `Expand`. `--lazy-heavy auto`, the
   default, uses them on graphs of average degree 8 or more whose degrees vary
   (`lazy_active()`); every model is of the runs in which they are off, the default on
   all other graphs.
3. The tables of `HubHints` and of the send filter at the grain of their slots: `Solver`
   and `Sources` only have what they may answer.
4. Pure operators: wire format, `TileLayout`, `EdgePartition`, `LiveSlack`. They are
   arithmetic at the width of machine words or on arrays, keep no state, and have unit
   tests in the repository.

Not planned: the other benchmarks, scripts and tools and profiling, which keep no
state of the solver; `dancingBars.py`, which draws a figure; and the Charm++ runtime
below the delivery of messages.
