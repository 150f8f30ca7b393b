----------------------------- MODULE MCDiagnose -----------------------------
(* A few small dumps in which the largest buckets are not the first ones,    *)
(* the tail starts in the first, a middle or the last round, the build does  *)
(* or does not count settled vertices, and the classes of vertices by        *)
(* arrivals may be empty.                                                    *)
EXTENDS Diagnose

Round(t, done, noted, heap, first) ==
  [t |-> t, done_vertices |-> done, updates_noted |-> noted,
   heap_threshold |-> heap, first_nonzero |-> first, occupied |-> 1]

Buckets(created) == [i \in DOMAIN created |-> [created |-> created[i]]]

Class(v, a) == [vertices |-> v, arrivals |-> a, rejects |-> a \div 2]

Dump(created, rounds, classes) ==
  [buckets |-> Buckets(created), rounds |-> rounds,
   vcount |-> <<[bucket |-> 0, vertices |-> 1], [bucket |-> "unreached", vertices |-> 1]>>,
   degree |-> classes, arrivals |-> classes]

MCDumps ==
  {Dump(<<1, 4, 2>>, <<Round(1, 0, 2, 1, 0), Round(3, 100, 5, -1, 1), Round(4, 100, 7, 2, 2)>>,
        <<Class(1, 0), Class(2, 2), Class(0, 0), Class(1, 5)>>),
   Dump(<<2, 2, 2>>, <<Round(1, 0, 50, 0, 0), Round(2, 0, 99, 1, 0), Round(5, 0, 100, 1, 1)>>,
        <<Class(0, 0), Class(3, 3)>>),
   Dump(<<0, 1, 3>>, <<Round(2, 98, 1, 1, 1), Round(3, 90, 2, 1, 1), Round(7, 100, 2, 2, 1)>>,
        <<Class(2, 0), Class(1, 1), Class(1, 2)>>)}

Line(edges, processed, idle, rounds) ==
  [edges |-> edges, updates_processed |-> processed, idle_rounds |-> idle, rounds |-> rounds]

MCPeLogs ==
  [n \in 1..2 |->
     {<<>>, <<Line(3, 2, 1, 4)>>}
     \cup IF n = 1 THEN {} ELSE {<<Line(4, 0, 2, 2), Line(0, 0, 3, 3)>>}]

MCPercentiles == <<"0.005">>
MCMultipliers == <<"0.5", "1">>
MCBufsizes == <<"128", "512">>
MCPeCounts == <<1, 2>>
MCJitters == <<"0", "40">>
MCIntervals == <<"1", "5">>
MCDelays == <<"0">>
MCVariants == <<"plain", "defer">>
MCGraphList == <<"uniform", "mesh">>
MCOneGraph == <<"mesh">>

MCCounts == {<<4, 1>>, <<None, None>>}

Once(e) == [experiment |-> e, reps |-> 1]
MCSettings == {Once("h1"), Once("h2"), Once("h3"), Once("h4"), [experiment |-> "ab", reps |-> 3]}
MCWidth == {Once("h1")}

=============================================================================
