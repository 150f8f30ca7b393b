----------------------------- MODULE LeafyGraph -----------------------------
(***************************************************************************)
(* tools/leafy_graph.py: a random recursive tree and a few random edges,   *)
(* written as an undirected .wsg, the input of the --leaf-prune gate.      *)
(*                                                                         *)
(* A draw is what the generator rng yields: the parent of every vertex     *)
(* but 0, the ends of the extra edges, and the weights.  An extra edge may *)
(* turn out to be a loop: it is dropped, and its weight never used.        *)
(***************************************************************************)
EXTENDS Integers, FiniteSets

CONSTANTS
  NumVertices,  \* V
  ExtraEdges,   \* k, the number of extra edges drawn
  Weights       \* the weights

VARIABLE written  \* the files written

ASSUME LeafyAssumption ==
  /\ NumVertices \in Nat \ {0, 1}
  /\ ExtraEdges \in Nat

Child == 1..(NumVertices - 1)

\* Mutant: rng.integers(0, V, k).
ExtraEndAnywhere == 0..(NumVertices - 1)

\* The ends of an extra edge: the upper bound of rng.integers() is excluded,
\* so the last vertex is none.
ExtraEnd == 0..(NumVertices - 2)

\* parent = (rng.random(V - 1) * child): a vertex before the child.
Parents == {p \in [Child -> 0..(NumVertices - 2)] : \A c \in Child : p[c] < c}

\* The undirected edges are numbered in the order of np.concatenate: those of
\* the tree by their child, then the extra ones.
NumEdges == NumVertices - 1 + ExtraEdges

Draws ==
  [parent : Parents, a : [1..ExtraEdges -> ExtraEnd], b : [1..ExtraEdges -> ExtraEnd],
   w : [1..NumEdges -> Weights]]

EdgeU(draw, i) == IF i \in Child THEN i ELSE draw.a[i - (NumVertices - 1)]
EdgeV(draw, i) == IF i \in Child THEN draw.parent[i] ELSE draw.b[i - (NumVertices - 1)]

\* Every edge that is no loop has an arc in each direction, the second numbered
\* NumEdges above the first.
EdgeOf(c) == IF c <= NumEdges THEN c ELSE c - NumEdges
Reverse(c) == IF c <= NumEdges THEN c + NumEdges ELSE c - NumEdges
Kept(draw) == {c \in 1..(2 * NumEdges) : EdgeU(draw, EdgeOf(c)) # EdgeV(draw, EdgeOf(c))}
Src(draw, c) == IF c <= NumEdges THEN EdgeU(draw, c) ELSE EdgeV(draw, EdgeOf(c))
Dst(draw, c) == Src(draw, Reverse(c))

\* np.lexsort((dst, src)): by source, then by end, and stable; an arc's place
\* is how many do not come after it.
NotAfter(draw, x, c) ==
  \/ Src(draw, x) < Src(draw, c)
  \/ /\ Src(draw, x) = Src(draw, c)
     /\ Dst(draw, x) < Dst(draw, c) \/ (Dst(draw, x) = Dst(draw, c) /\ x <= c)
Position(draw, c) == Cardinality({x \in Kept(draw) : NotAfter(draw, x, c)})
Order(draw, n) == CHOOSE c \in Kept(draw) : Position(draw, c) = n

\* The lists of the file, one after the other.
ArcAt(draw, c) == [from |-> Src(draw, c), to |-> Dst(draw, c), w |-> draw.w[EdgeOf(c)]]
Arcs(draw) == [n \in 1..Cardinality(Kept(draw)) |-> ArcAt(draw, Order(draw, n))]

\* offsets[u], the cumulated counts: the arcs of u begin after that many.
Offset(draw, u) == Cardinality({c \in Kept(draw) : Src(draw, c) < u})

FileOf(draw) == [arcs |-> Arcs(draw), offsets |-> [u \in 0..NumVertices |-> Offset(draw, u)]]

GeneratorInit == written = {}

WriteGraph == written = {} /\ \E draw \in Draws : written' = {FileOf(draw)}

GeneratorSpec == GeneratorInit /\ [][WriteGraph]_written

----------------------------------------------------------------------------
\* "vertex V - 1 is always a leaf and can serve as a degree-1 source".
LastIsLeaf(file) == file.offsets[NumVertices] - file.offsets[NumVertices - 1] = 1

\* The lists between the offsets are those of the vertices.
Indexed(file) ==
  \A n \in DOMAIN file.arcs, u \in 0..(NumVertices - 1) :
    file.arcs[n].from = u <=> n \in (file.offsets[u] + 1)..file.offsets[u + 1]

\* "every edge in both endpoints' lists", with one weight.
Undirected(file) ==
  \A n \in DOMAIN file.arcs : \E m \in DOMAIN file.arcs :
    file.arcs[m] = [from |-> file.arcs[n].to, to |-> file.arcs[n].from, w |-> file.arcs[n].w]

\* What --leaf-prune relies on: an arc into a vertex with one arc comes from
\* the other end of that arc.
LeavesHaveOneNeighbour(file) ==
  \A n, m \in DOMAIN file.arcs :
    /\ file.offsets[file.arcs[n].from + 1] - file.offsets[file.arcs[n].from] = 1
    /\ file.arcs[m].to = file.arcs[n].from
    => file.arcs[m].from = file.arcs[n].to

\* Every vertex but the root hangs on one before it, so the source reaches all.
Reaches(file) ==
  LET Closed(S) == \A n \in DOMAIN file.arcs : file.arcs[n].from \in S => file.arcs[n].to \in S
  IN  \A S \in SUBSET (0..(NumVertices - 1)) :
        NumVertices - 1 \in S /\ Closed(S) => S = 0..(NumVertices - 1)

\* Every graph leafy_graph.py writes is fit for the --leaf-prune gate: the
\* last vertex is a leaf and reaches all others, the lists are indexed by the
\* offsets, and a leaf is entered from its one neighbour only, which is what
\* LeafAssumption of Solver asks.
LeafyGraphsFit ==
  \A file \in written :
    /\ LastIsLeaf(file) /\ Indexed(file) /\ Undirected(file)
    /\ LeavesHaveOneNeighbour(file) /\ Reaches(file)

=============================================================================
