------------------------------ MODULE MCSolver ------------------------------
(***************************************************************************)
(* Small graphs for Solver.  The weights are chosen so that a long cheap   *)
(* path competes with a direct dear edge: the direct update arrives first, *)
(* is expanded, and must be overtaken.                                     *)
(***************************************************************************)
EXTENDS Solver, LeafyGraph

\* The source 0 is a leaf at distance 0.  A detour: 1-3-2 is shorter than 1-2,
\* which ties with the parallel 3-2 edge, and the leaf 4 hangs off 2, so that 2
\* and 4 are lowered twice.  Nothing reaches 5.
DetourArcs == <<
  [from |-> 0, to |-> 1, w |-> 0],
  [from |-> 1, to |-> 2, w |-> 3], [from |-> 1, to |-> 3, w |-> 1],
  [from |-> 3, to |-> 2, w |-> 1], [from |-> 3, to |-> 2, w |-> 2],
  [from |-> 2, to |-> 4, w |-> 0], [from |-> 4, to |-> 2, w |-> 0],
  [from |-> 2, to |-> 1, w |-> 1]>>
DetourEdge == DOMAIN DetourArcs
DetourTail == [e \in DetourEdge |-> DetourArcs[e].from]
DetourHead == [e \in DetourEdge |-> DetourArcs[e].to]
DetourWeight == [e \in DetourEdge |-> DetourArcs[e].w]

\* Odd vertices on one PE, even ones on the other.
OddEven == [v \in Vertex |-> v % 2]
Alone == [v \in Vertex |-> {v % 2}]

\* The --leaf-prune gate: after the run on this graph the next one reads
\* whatever graph leafy_graph.py may have written.
GateInit == Init /\ GeneratorInit
Gate == (Next /\ UNCHANGED written) \/ (done /\ WriteGraph /\ UNCHANGED vars)
GateSpec == GateInit /\ [][Gate]_<<vars, written>> /\ Fairness

=============================================================================
