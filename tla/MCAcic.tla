------------------------------- MODULE MCAcic -------------------------------
(***************************************************************************)
(* Small graphs for Acic, with four buckets and a window of three.  They   *)
(* are chosen so that a merge is broadcast while updates on both sides of  *)
(* the top bucket are in flight.                                           *)
(***************************************************************************)
EXTENDS Acic

\* Updates in buckets 0 and 2 at once invite a merge; 3 is at the top of the
\* range at scale 1 and in bucket 1 at scale 2; 5 is out of range.
ForkArcs == <<
  [from |-> 1, to |-> 2, w |-> 0], [from |-> 1, to |-> 3, w |-> 2],
  [from |-> 2, to |-> 3, w |-> 3], [from |-> 3, to |-> 4, w |-> 3]>>
ForkEdge == DOMAIN ForkArcs
ForkFrom == [e \in ForkEdge |-> ForkArcs[e].from]
ForkTo == [e \in ForkEdge |-> ForkArcs[e].to]
ForkWeight == [e \in ForkEdge |-> ForkArcs[e].w]

\* Buckets of width 2.  1-4 is charged to the top bucket at scale 1 and keeps
\* its flag; 1-2-6, a little longer, is in bucket 1 once the scale is 2.  Both
\* queue at the same PE.
SliceArcs == <<
  [from |-> 1, to |-> 2, w |-> 2], [from |-> 1, to |-> 4, w |-> 6],
  [from |-> 2, to |-> 6, w |-> 5], [from |-> 4, to |-> 6, w |-> 2],
  [from |-> 6, to |-> 4, w |-> 2]>>
SliceEdge == DOMAIN SliceArcs
SliceFrom == [e \in SliceEdge |-> SliceArcs[e].from]
SliceTo == [e \in SliceEdge |-> SliceArcs[e].to]
SliceWeight == [e \in SliceEdge |-> SliceArcs[e].w]

OddEven == [v \in Vertex |-> v % 2]
=============================================================================
