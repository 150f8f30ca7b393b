--------------------------- MODULE SerialDijkstra ---------------------------
(***************************************************************************)
(* serial_dijkstra() of graphlib/reference.h, the ground truth --verify    *)
(* compares a run with.  The frontier is a set: an entry is only pushed    *)
(* below the distance its vertex has, so never twice.  Of the parallel     *)
(* edges to one vertex only the best one's entry is pushed: those of the   *)
(* others would be stale at once.  Entries at equal distance are popped in *)
(* any fixed order.                                                        *)
(***************************************************************************)
EXTENDS WeightedGraph, FiniteSetsExt

HeapEntry == [d : Nat, to : Vertex]

FirstPush ==
  [distances |-> [v \in Vertex |-> IF v = Source THEN 0 ELSE Lmax],
   frontier  |-> {[d |-> 0, to |-> Source]}]

Top(frontier) == CHOOSE x \in frontier : \A y \in frontier : x.d <= y.d

\* The candidates of the popped entry for v that improve its distance.
Candidates(s, top, v) ==
  {c \in {top.d + Weight[e] : e \in {f \in Out(top.to) : To[f] = v}} : c < s.distances[v]}

DropTop(s, top) ==
  [distances |-> s.distances, frontier |-> s.frontier \ {top}]

RelaxTop(s, top) ==
  LET nearer == {v \in Vertex : Candidates(s, top, v) # {}}
  IN  [distances |-> [v \in Vertex |-> IF v \in nearer THEN Min(Candidates(s, top, v))
                                                       ELSE s.distances[v]],
       frontier  |-> (s.frontier \ {top})
                       \cup {[d |-> Min(Candidates(s, top, v)), to |-> v] : v \in nearer}]

PopTop(s) ==
  LET top == Top(s.frontier)
  IN  IF s.frontier = {} THEN s
      ELSE IF top.d > s.distances[top.to] THEN DropTop(s, top) \* stale entry
      ELSE RelaxTop(s, top)

\* An edge pushes at most one entry: the loop has ended by then.
LoopBound == Cardinality(Edge) + 1

Popped[n \in 0..LoopBound] == IF n = 0 THEN FirstPush ELSE PopTop(Popped[n - 1])

\* serial_reference()
Reference == Popped[LoopBound].distances

=============================================================================
