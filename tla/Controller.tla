----------------------------- MODULE Controller -----------------------------
(***************************************************************************)
(* What Main::reduce_histogram() decides from one reduction: the two       *)
(* admission thresholds, the origin of the next window, and whether        *)
(* buckets are merged or the range extended.  Pure operators; the round    *)
(* protocol they are used in is module Acic.                               *)
(*                                                                         *)
(* A reduction is a record of sums over all PEs: window (W bucket counts), *)
(* created, processed, clamped (what is in the overflow slot) and          *)
(* clampedCreated (what has ever been put there).                          *)
(***************************************************************************)
EXTENDS Buckets

CONSTANTS
  W,                  \* histo_reduction_width
  HeapShare,          \* heap_percentile, in 1/10000
  TramShare,          \* tram_percentile, in 1/10000
  TwoTierLimit,       \* --two-tier-absolute (or N * --two-tier-per-pe)
  BucketTarget,       \* --bucket-target
  Adaptive,           \* --bucket-policy adaptive
  RangeExtend,        \* --range-extend
  ScaleCap,           \* the scale at which the range is not extended any more
  WindowFollow,       \* --window-follow
  StallRescueRounds   \* --stall-rescue-rounds, 0 is off

ASSUME ControllerAssumption ==
  /\ W \in 1..B
  /\ HeapShare \in 0..10000 /\ TramShare \in 0..10000
  /\ TwoTierLimit \in Nat /\ BucketTarget \in Nat \ {0}
  /\ Adaptive \in BOOLEAN /\ RangeExtend \in BOOLEAN
  /\ WindowFollow \in BOOLEAN
  /\ ScaleCap \in Nat \ {0}
  /\ StallRescueRounds \in Nat

Slot == 0..W-1

\* The counts of slots 0 to i.
Mass(window, i) == MapThenSumSet(LAMBDA j : window[j], 0..i)

WindowSum(r) == Mass(r.window, W - 1)
Live(r) == r.created - r.processed

\* The work the window does not show.
AboveWindow(r) == Live(r) - WindowSum(r)

Occupied(r) == {i \in Slot : r.window[i] > 0}

TwoTier(r) == WindowSum(r) <= TwoTierLimit

\* The first slot with the given share of the window at or below it.  The scan
\* leaves the threshold at 0 when no slot qualifies.
ShareBucket(r, origin, share) ==
  LET enough == {i \in Slot : Mass(r.window, i) * 10000 >= WindowSum(r) * share}
  IN  IF enough = {} THEN 0 ELSE Min({Min(enough) + origin, Top})

\* A stall the window cannot describe: work above it and no progress.
Rescue(r, stalled) ==
  /\ WindowSum(r) > 0
  /\ StallRescueRounds > 0 /\ stalled >= StallRescueRounds
  /\ AboveWindow(r) > 0 /\ Live(r) > 0

\* Mutant: an empty window does not open the thresholds.
AdmitAllRescueOnly(r, stalled) == Rescue(r, stalled)

AdmitAll(r, stalled) == WindowSum(r) <= 0 \/ Rescue(r, stalled)

HeapThreshold(r, origin, stalled) ==
  IF AdmitAll(r, stalled) THEN Top
  ELSE ShareBucket(r, origin, IF TwoTier(r) THEN 9999 ELSE HeapShare)

TramThreshold(r, origin, stalled) ==
  IF AdmitAll(r, stalled) THEN Top
  ELSE ShareBucket(r, origin, IF TwoTier(r) THEN 9999 ELSE TramShare)

\* Mutant: the window slides past the last bucket.
FirstNonzeroUnbounded(r, origin) ==
  IF Occupied(r) # {} THEN Min(Occupied(r)) + origin
  ELSE IF WindowFollow /\ AboveWindow(r) > 0 THEN origin + W ELSE origin

\* The lowest occupied bucket, or the old origin, or one window further up.
FirstNonzero(r, origin) ==
  IF Occupied(r) # {} THEN Min(Occupied(r)) + origin
  ELSE IF WindowFollow /\ AboveWindow(r) > 0 /\ origin + W < B
       THEN origin + W
       ELSE origin

\* choose_coarsening(): the factor k to merge by, 1 for none.  The band is
\* the middle 90% of the window's mass.
Coarsening(r, origin) ==
  LET sum == WindowSum(r)
      above == {i \in Slot : Mass(r.window, i) * 20 > sum}
      most  == {i \in Slot : Mass(r.window, i) * 20 >= 19 * sum}
      k == (Min(most) - Min(above)) \div BucketTarget
      last == origin + (IF Occupied(r) = {} THEN 0 ELSE Max(Occupied(r)))
  IN  IF /\ Adaptive
         /\ ~TwoTier(r)
         /\ sum > 0
         /\ ClampFreeze \/ r.clamped <= 0      \* --coarsen-clamped block
         /\ \E i \in above : i <= Min(most)
         /\ k >= 2
         /\ last \div k < Top
      THEN k ELSE 1

\* --range-extend: an eighth of the round's creations were out of range.
Extension(r, scale, prevCreated, prevClampedCreated, wait) ==
  /\ RangeExtend /\ ClampFreeze /\ Adaptive
  /\ scale < ScaleCap
  /\ r.clampedCreated > prevClampedCreated
  /\ r.created > prevCreated
  /\ wait = 0
  /\ (r.clampedCreated - prevClampedCreated) * 8 >= r.created - prevCreated

\* An index once buckets have merged; one on the frozen overflow slot stays.
Rescaled(i, k) == IF k > 1 THEN MergedIndex(i, k) ELSE i

=============================================================================
