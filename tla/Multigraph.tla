----------------------------- MODULE Multigraph -----------------------------
(***************************************************************************)
(* The input of the solver: a directed multigraph with non-negative        *)
(* integer weights (Edge, LongEdge and CsrGraph of the source), and the    *)
(* value lmax that stands for "not reached".                               *)
(*                                                                         *)
(* What a correct answer is, is stated without paths: the shortest         *)
(* distances are the greatest potential, that is the greatest function     *)
(* that is 0 at the source and grows by at most Weight[e] along every      *)
(* edge e.  It is the form a proof can use for every graph.                *)
(***************************************************************************)
EXTENDS Naturals, FiniteSets

CONSTANTS
  Vertex,      \* vertex ids
  Edge,        \* edge ids: parallel edges and self loops are allowed
  From, To,    \* [Edge -> Vertex]
  Weight,      \* [Edge -> Nat], the Edge::distance of the source
  Lmax         \* the initial distance, numeric_limits<cost>::max()

ASSUME GraphAssumption ==
  /\ IsFiniteSet(Vertex)
  /\ IsFiniteSet(Edge)
  /\ From \in [Edge -> Vertex]
  /\ To \in [Edge -> Vertex]
  /\ Weight \in [Edge -> Nat]
  /\ Lmax \in Nat \ {0}

Distance == 0..Lmax

Out(v) == {e \in Edge : From[e] = v}

PotentialFrom(source) ==
  {g \in [Vertex -> Distance] :
     /\ g[source] = 0
     /\ \A e \in Edge : g[To[e]] <= g[From[e]] + Weight[e]}

IsShortestFrom(source, d) ==
  /\ d \in PotentialFrom(source)
  /\ \A g \in PotentialFrom(source) : \A v \in Vertex : g[v] <= d[v]

=============================================================================
