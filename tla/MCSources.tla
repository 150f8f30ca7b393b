------------------------------ MODULE MCSources ------------------------------
(***************************************************************************)
(* Two sources, the second farther from the hub 3 than the first, so that  *)
(* a hint of the first run would cut the only path of the second.  Both    *)
(* PEs are of one process, and only PE 0 sends hints.                      *)
(***************************************************************************)
EXTENDS Sources

Arcs == <<
  [from |-> 1, to |-> 2, w |-> 1], [from |-> 2, to |-> 3, w |-> 1],
  [from |-> 3, to |-> 1, w |-> 1], [from |-> 1, to |-> 3, w |-> 3]>>
MCEdge == DOMAIN Arcs
MCFrom == [e \in MCEdge |-> Arcs[e].from]
MCTo == [e \in MCEdge |-> Arcs[e].to]
MCWeight == [e \in MCEdge |-> Arcs[e].w]

MCSourceList == <<2, 1>>
MCOwner == [v \in Vertex |-> IF v = 3 THEN 1 ELSE 0]
MCLocalVertex == [p \in PE |-> IF p = 0 THEN <<1, 2>> ELSE <<3>>]
MCProcess == [p \in PE |-> 10]
=============================================================================
