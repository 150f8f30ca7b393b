---------------------------- MODULE Certificate ----------------------------
(***************************************************************************)
(* What --certify checks of an answer, taken as a whole: the conditions    *)
(* whose parts certify_step(), certify_note() and certify_collect() count  *)
(* on every PE.  How they are counted, by messages, is in Sources.         *)
(***************************************************************************)
EXTENDS Multigraph

\* Edges of unreached vertices give no candidate.
Candidates(d, v) ==
  {d[From[e]] + Weight[e] : e \in {f \in Edge : To[f] = v /\ d[From[f]] # Lmax}}

\* No edge can still improve its end.
NoViolation(d) == \A v \in Vertex : \A c \in Candidates(d, v) : c >= d[v]

\* Every reached vertex but the source has a tight predecessor.
Tight(source, d) == \A v \in Vertex \ {source} : d[v] # Lmax => d[v] \in Candidates(d, v)

\* A zero-weight cycle could make vertices tight with no path behind them.
Positive == \A e \in Edge : Weight[e] > 0

Accepted(source, d) == NoViolation(d) /\ Tight(source, d) /\ d[source] = 0 /\ Positive

=============================================================================
