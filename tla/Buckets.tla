------------------------------ MODULE Buckets ------------------------------
(***************************************************************************)
(* The histogram's arithmetic: which bucket an update is charged to, what  *)
(* a merge does to an array indexed by bucket, and the order of a PE's     *)
(* queue.  bucket_multiplier, a quotient of doubles in the source, is the   *)
(* exact 1 / Width.                                                        *)
(*                                                                         *)
(* The last bucket, Top, is two things at once.  It holds every update at  *)
(* or past the clamp (limit), and at scale 1 also the top width in range.  *)
(* An update charged to it is flagged at creation (UPDATE_OVERFLOW_BIT).   *)
(***************************************************************************)
EXTENDS Integers, FiniteSets, FiniteSetsExt

CONSTANTS
  B,              \* HISTO_BUCKET_COUNT
  Width,          \* initial_width: the width of a bucket at scale 1
  ClampFreeze,    \* --clamp-freeze: the clamp stays when buckets merge
  PqOverflowLast  \* --pq-overflow-last: flagged updates sort after all others

ASSUME BucketAssumption ==
  /\ B \in Nat /\ B >= 2
  /\ Width \in Nat \ {0}
  /\ ClampFreeze \in BOOLEAN
  /\ PqOverflowLast \in BOOLEAN

Top == B - 1
Bucket == 0..Top

\* Past the clamp: the overflow slot is the only place left.
Beyond(d, limit) == d \div Width >= limit

\* bucket_scale_inverse, and the quotient get_histo_bucket() takes with it, in
\* words of M values; QuotientByInverseIsExact says when it is the quotient.
ScaleInverse(scale, M) == (M - 1) \div scale + 1
QuotientByInverse(n, scale, M) == (ScaleInverse(scale, M) * n) \div M

\* get_histo_bucket(), on a PE with this bucket_scale and bucket_limit.
HistoBucket(d, scale, limit) ==
  IF Beyond(d, limit) THEN Top ELSE (d \div Width) \div scale

\* bucket_of(): a flagged update stays in the overflow slot.
BucketOf(u, scale, limit) ==
  IF u.ovf THEN Top ELSE HistoBucket(u.d, scale, limit)

\* Mutant: the overflow slot is merged with the rest.
MergedIndexUnfrozen(i, k) == i \div k

\* Where a merge by k sends bucket i; a frozen overflow slot is left out.
MergedIndex(i, k) == IF ClampFreeze /\ i = Top THEN Top ELSE i \div k

\* coarsen_buckets() on counts and on lists of updates.
MergedCounts(h, k) ==
  [j \in Bucket |->
     MapThenSumSet(LAMBDA i : h[i], {i \in Bucket : MergedIndex(i, k) = j})]
MergedLists(h, k) ==
  [j \in Bucket |-> UNION {h[i] : i \in {i \in Bucket : MergedIndex(i, k) = j}}]

\* The clamp after a merge by k, which may also be an extension of the range.
MergedLimit(limit, scale, k, extend) ==
  IF ~ClampFreeze THEN B * scale * k
  ELSE IF extend THEN limit * k ELSE limit

\* Mutant: by distance alone.
NotAfterByDistance(u, w) == u.d <= w.d

\* ComparePairs: u may be the top of a queue that also holds w.
NotAfter(u, w) ==
  IF PqOverflowLast /\ u.ovf # w.ovf THEN w.ovf ELSE u.d <= w.d

=============================================================================
