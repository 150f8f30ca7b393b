--------------------------- MODULE MCProcessShare ---------------------------
(***************************************************************************)
(* Two workers of one process and one of another.  Vertex 2 is lowered by  *)
(* two workers at once, and expanded while it is lowered.                  *)
(***************************************************************************)
EXTENDS ProcessShare

Arcs == <<
  [from |-> 1, to |-> 2, w |-> 2], [from |-> 1, to |-> 3, w |-> 1],
  [from |-> 3, to |-> 2, w |-> 0], [from |-> 2, to |-> 4, w |-> 1]>>
ArcEdge == DOMAIN Arcs
Tail_ == [e \in ArcEdge |-> Arcs[e].from]
Head_ == [e \in ArcEdge |-> Arcs[e].to]
ArcWeight == [e \in ArcEdge |-> Arcs[e].w]

\* PEs 0 and 1 are a process, 2 is another, with vertex 4.
OwnerOf == [v \in Vertex |-> IF v = 4 THEN 2 ELSE v % 2]
SharesOf == [v \in Vertex |-> IF v = 4 THEN {2} ELSE {0, 1}]
=============================================================================
