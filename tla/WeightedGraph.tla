--------------------------- MODULE WeightedGraph ---------------------------
(* The graph with the one source vertex of a run. *)
EXTENDS Multigraph

CONSTANT Source  \* the vertex start_algo() injects the first update at

ASSUME SourceAssumption == Source \in Vertex

Potential == PotentialFrom(Source)

\* The distances of a vertex that are not below its shortest one.
NotBelow == [v \in Vertex |-> {d \in Distance : \A g \in Potential : g[v] <= d}]

IsShortest(d) == IsShortestFrom(Source, d)

=============================================================================
