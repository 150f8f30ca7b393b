--------------------------- MODULE ShortestPaths ---------------------------
(***************************************************************************)
(* What one source's run promises its caller, with every queue, message    *)
(* and counter left out: tentative distances only fall, they are never     *)
(* below the shortest ones, and once the run is announced finished they    *)
(* are the shortest ones and never change again.                           *)
(***************************************************************************)
EXTENDS Naturals

CONSTANTS  \* all as in WeightedGraph
  Vertex, Lmax,
  NotBelow,   \* the distances of a vertex that are not below its answer
  Potential   \* the functions of which the answer is the greatest

VARIABLES
  dist,  \* the distances[] arrays of all PEs, taken together
  done   \* Main has announced the end of the run

vars == <<dist, done>>

Init ==
  /\ dist = [v \in Vertex |-> Lmax]
  /\ done = FALSE

\* A tentative distance falls, to something that is not below the answer.
Lower ==
  /\ ~done
  /\ \E v \in Vertex : \E d \in NotBelow[v] :
       /\ d < dist[v]
       /\ dist' = [dist EXCEPT ![v] = d]
  /\ UNCHANGED done

\* A potential that is nowhere below the answer is the answer.
Announce ==
  /\ ~done /\ done' = TRUE
  /\ UNCHANGED dist
  /\ dist \in Potential
  /\ \A v \in Vertex : dist[v] \in NotBelow[v]

Next == Lower \/ Announce

Spec == Init /\ [][Next]_vars

=============================================================================
