----------------------------- MODULE DiagReport -----------------------------
(* scripts/diag_report.py: the tables it makes of a directory of results.    *)
(* The directory is a record: dirs, the subdirectories there are; dump, the  *)
(* CSV files a diagnosis run of a graph leaves; tsv, the summaries the       *)
(* harness appends to; pe_log and jitter_log, the DIAG_PE lines of those     *)
(* logs; log, the logs of the A/B runs.  An absent file, a blank field and a *)
(* "-" of a table are None.  A quotient is the pair <<above, below>>.        *)
(* Columns that are copied as they stand are left out, and so is formatting. *)
EXTENDS Integers, Sequences, FiniteSets, SequencesExt, FiniteSetsExt

CONSTANT None

Total(s) == FoldSeq(LAMBDA x, y : x + y, 0, s)
Column(rows, field) == [i \in DOMAIN rows |-> rows[i][field]]

\* A list comprehension: what passes the test, in order.  (SelectSeq is no
\* different, but the proofs need its definition.)
Nth(positions, n) == CHOOSE i \in positions : Cardinality({j \in positions : j <= i}) = n

Select(rows, Test(_)) ==
  LET kept == {i \in DOMAIN rows : Test(rows[i])}
  IN  [n \in 1..Cardinality(kept) |-> rows[Nth(kept, n)]]

(* A file that is absent and one that has no row are alike: "if not rows". *)
Empty(rows) == rows = None \/ rows = <<>>
Rows(rows) == IF rows = None THEN <<>> ELSE rows

Mean(s) == IF s = <<>> THEN None ELSE <<Total(s), Len(s)>>
Share(part, whole) == IF whole = 0 THEN None ELSE <<part, whole>>
Ratio(t, base) == IF t = None \/ base = None THEN None ELSE <<t, base>>

Median(s) ==
  LET x == SortSeq(s, <)
      n == Len(x)
  IN  IF n = 0 THEN None
      ELSE IF n % 2 = 1 THEN x[n \div 2 + 1]
      ELSE (x[n \div 2] + x[n \div 2 + 1]) \div 2

GraphsOf(rows) == ToSet(Column(rows, "graph"))
Completed(rows) == Select(rows, LAMBDA r : r.compute_s # None)
TimesOf(rows, g) == Column(Select(Completed(rows), LAMBDA r : r.graph = g), "compute_s")

----------------------------------------------------------------------------
\* Mutant: from the smallest bucket up.
HalfInUpwards(created) ==
  LET up == SortSeq(created, <)
  IN  Min({n \in 0..Len(created) : 2 * Total(SubSeq(up, 1, n)) >= Total(created)})

\* sorted(reverse=True): an element's place is how many do not come after it.
Place(s, i) == Cardinality({j \in DOMAIN s : s[j] > s[i] \/ (s[j] = s[i] /\ j <= i)})
Ranked(s, n) == CHOOSE i \in DOMAIN s : Place(s, i) = n
Descending(s) == [n \in DOMAIN s |-> s[Ranked(s, n)]]

(* H1, bucket resolution.  The buckets are taken from the largest down until *)
(* they hold half of all updates.                                            *)
HalfIn(created) ==
  LET down == Descending(created)
  IN  Min({n \in 0..Len(created) : 2 * Total(SubSeq(down, 1, n)) >= Total(created)})

Occupancy(dump) ==
  LET created == Column(dump.buckets, "created")
      used  == {i \in DOMAIN created : created[i] > 0}
      cut   == Select(dump.rounds, LAMBDA r : r.heap_threshold >= 0)
      reach == [i \in DOMAIN cut |-> cut[i].heap_threshold - cut[i].first_nonzero]
      none  == Select(dump.vcount, LAMBDA r : r.bucket = "unreached")
  IN  [updates  |-> Total(created),
       used     |-> Cardinality(used),
       range    |-> IF used = {} THEN None ELSE <<Min(used) - 1, Max(used) - 1>>,
       half_in  |-> HalfIn(created),
       occupied |-> Mean(Column(dump.rounds, "occupied")),
       reach    |-> Mean(reach),
       no_reach |-> Share(Len(Select(reach, LAMBDA x : x <= 0)), Len(reach)),
       thresholds |-> Cardinality(ToSet(Column(dump.rounds, "heap_threshold"))),
       rounds   |-> Len(dump.rounds),
       unreached |-> IF none = <<>> THEN None ELSE Last(none).vertices]

Profiled(d, sub) == {g \in DOMAIN d.dump[sub] : d.dump[sub][g] # None}

(* Slowest over fastest of a graph across the percentile knob. *)
Spread(rows) ==
  [g \in GraphsOf(Completed(rows)) |-> LET t == ToSet(TimesOf(rows, g)) IN Ratio(Max(t), Min(t))]

(* The width sweep: the fastest row of each graph that has one, against the  *)
(* row of the rule the code uses, multiplier 1.                              *)
AtRule(rows, g) == Select(rows, LAMBDA r : r.graph = g /\ r.knob = "1")

Fastest(rows, g) ==
  LET t == TimesOf(rows, g)
      own == Select(Completed(rows), LAMBDA r : r.graph = g)
  IN  own[Min({i \in DOMAIN own : own[i].compute_s = Min(ToSet(t))})]

Best(rows) ==
  [g \in GraphsOf(Completed(rows)) |->
     LET b == Fastest(rows, g)
     IN  [knob |-> b.knob, speedup |-> Ratio(AtRule(rows, g)[1].compute_s, b.compute_s)]]

(* next() finds no row, or float() gets a blank one: the script stops there. *)
BestRaises(rows) ==
  \E g \in GraphsOf(Completed(rows)) :
    AtRule(rows, g) = <<>> \/ AtRule(rows, g)[1].compute_s = None

H1(d) ==
  [profile |-> [g \in Profiled(d, "h1") |-> Occupancy(d.dump["h1"][g])],
   spread  |-> Spread(Rows(d.tsv["percentile"])),
   best    |-> Best(Rows(d.tsv["sweep"]))]

----------------------------------------------------------------------------
(* H2, where the redundant traffic goes: by out-degree of the destination,   *)
(* then by arrivals, walking down from the busiest class.                    *)
ByDegree(deg) ==
  LET rejects == Total(Column(deg, "rejects"))
      seen == Select(deg, LAMBDA c : c.vertices # 0 \/ c.arrivals # 0)
  IN  [i \in DOMAIN seen |-> [rate  |-> Share(seen[i].rejects, seen[i].arrivals),
                              share |-> Share(seen[i].rejects, rejects)]]

\* Mutant: from the least busy class up.
ConcentrationUpwards(arr) ==
  LET least == Select(arr, LAMBDA c : c.vertices # 0)
      Up(field, i) == Total(SubSeq(Column(least, field), 1, i))
      All(field) == Total(Column(arr, field))
  IN  [i \in DOMAIN least |->
         [vertices |-> <<Up("vertices", i), All("vertices")>>,
          arrivals |-> <<Up("arrivals", i), All("arrivals")>>]]

Concentration(arr) ==
  LET busy == Select(Reverse(arr), LAMBDA c : c.vertices # 0)
      Down(field, i) == Total(SubSeq(Column(busy, field), 1, i))
      All(field) == Total(Column(arr, field))
  IN  [i \in DOMAIN busy |->
         [vertices |-> <<Down("vertices", i), All("vertices")>>,
          arrivals |-> <<Down("arrivals", i), All("arrivals")>>]]

(* The rows of a class divide by all arrivals. *)
ConcentrationRaises(arr) ==
  Total(Column(arr, "arrivals")) = 0 /\ \E i \in DOMAIN arr : arr[i].vertices # 0

(* The dump of a graph is looked for under h2, then h1, then h4; a graph is  *)
(* looked for when h2 or h1 has one.                                         *)
DegreeGraphs(d) == Profiled(d, "h2") \cup Profiled(d, "h1")
DumpOf(d, g) == d.dump[IF g \in Profiled(d, "h2") THEN "h2" ELSE "h1"][g]

AbsorbRate(rows) ==
  LET Count(x) == IF x = None THEN 0 ELSE x
  IN  [i \in DOMAIN rows |-> Share(Count(rows[i].absorbable), Count(rows[i].items))]

H2(d) ==
  [degree   |-> [g \in DegreeGraphs(d) |-> ByDegree(DumpOf(d, g).degree)],
   arrivals |-> [g \in DegreeGraphs(d) |-> Concentration(DumpOf(d, g).arrivals)],
   absorb   |-> AbsorbRate(Rows(d.tsv["absorb"]))]

----------------------------------------------------------------------------
(* H3, partition balance: the largest value of a PE over the mean of all. *)
Imbalance(values) ==
  IF values = <<>> THEN None
  ELSE IF Total(values) = 0 THEN <<1, 1>>
  ELSE <<Max(ToSet(values)) * Len(values), Total(values)>>

Balance(pes) ==
  LET idle   == Column(pes, "idle_rounds")
      rounds == Max(ToSet(Column(pes, "rounds")))
  IN  [rows      |-> Len(pes),
       edges     |-> Imbalance(Column(pes, "edges")),
       processed |-> Imbalance(Column(pes, "updates_processed")),
       mean_idle |-> Share(Total(idle), Len(pes) * rounds),
       worst_idle |-> Share(Max(ToSet(idle)), rounds)]

(* A row per calibration run, against the first of them. *)
Calibration(rows, log) ==
  [i \in DOMAIN rows |->
     LET pes == Rows(log[rows[i].knob])
     IN  [edges     |-> Imbalance(Column(pes, "edges")),
          processed |-> Imbalance(Column(pes, "updates_processed")),
          slowdown  |-> Ratio(rows[i].compute_s, rows[1].compute_s)]]

H3(d) ==
  [balance |-> [c \in {c \in DOMAIN d.pe_log : ~Empty(d.pe_log[c])} |-> Balance(d.pe_log[c])],
   jitter  |-> Calibration(Rows(d.tsv["jitter"]), d.jitter_log)]

----------------------------------------------------------------------------
(* H4, the tail: what follows the first round that holds 99% of the final    *)
(* progress, counted in settled vertices or, in a build that cannot count    *)
(* them, in updates noted.  Rounds are numbered from 0.                      *)
Progress(rounds) ==
  IF Last(rounds).done_vertices = 0 THEN Column(rounds, "updates_noted")
  ELSE Column(rounds, "done_vertices")

TailStart(rounds) ==
  LET done == Progress(rounds)
      late == {i \in DOMAIN done : 100 * done[i] >= 99 * Last(done)}
  IN  IF late = {} THEN Len(rounds) - 1 ELSE Min(late) - 1

Periods(rounds) == [i \in 1..(Len(rounds) - 1) |-> rounds[i + 1].t - rounds[i].t]

\* Mutant: the periods after the first round of the tail.
TailPeriodsLate(rounds) == SubSeq(Periods(rounds), TailStart(rounds) + 2, Len(rounds) - 1)

TailPeriods(rounds) == SubSeq(Periods(rounds), TailStart(rounds) + 1, Len(rounds) - 1)

TailRow(rounds) ==
  [start |-> TailStart(rounds),
   rounds |-> Len(rounds) - TailStart(rounds),
   time  |-> Last(rounds).t - rounds[TailStart(rounds) + 1].t,
   total |-> Last(rounds).t,
   tail_mean |-> IF TailPeriods(rounds) = <<>> THEN <<0, 1>> ELSE Mean(TailPeriods(rounds)),
   mean  |-> Mean(Periods(rounds))]

(* The flush sweep is read against interval 5, the delay sweep against 0;    *)
(* when a graph has several such rows the last that completed counts.        *)
BaseTime(rows, g, knob) ==
  LET base == Select(Completed(rows), LAMBDA r : r.graph = g /\ r.knob = knob)
  IN  IF base = <<>> THEN None ELSE Last(base).compute_s

Speedups(rows) ==
  [i \in DOMAIN rows |-> Ratio(BaseTime(rows, rows[i].graph, "5"), rows[i].compute_s)]
Slowdowns(rows) ==
  [i \in DOMAIN rows |-> Ratio(rows[i].compute_s, BaseTime(rows, rows[i].graph, "0"))]

H4(d) ==
  [tail  |-> [g \in {g \in Profiled(d, "h4") : Len(d.dump["h4"][g].rounds) >= 2} |->
                TailRow(d.dump["h4"][g].rounds)],
   flush |-> Speedups(Rows(d.tsv["flush"])),
   delay |-> Slowdowns(Rows(d.tsv["delay"]))]

----------------------------------------------------------------------------
\* The rows that name a variant no row before them does.
Firsts(runs) ==
  {i \in DOMAIN runs : \A j \in 1..(i - 1) : runs[j].variant # runs[i].variant}

\* Mutant: a run that failed does not name its variant.
OrderOfCompleted(runs) ==
  LET ok == Select(runs, LAMBDA r : r.status = "ok")
  IN  [n \in 1..Cardinality(Firsts(ok)) |-> ok[Nth(Firsts(ok), n)].variant]

(* A/B.  The variants in the order the rows name them; the first of them is  *)
(* the baseline.  A row that failed is counted, one that did not gives the   *)
(* metrics its log has, of which the compute time stands for all.            *)
Order(runs) == [n \in 1..Cardinality(Firsts(runs)) |-> runs[Nth(Firsts(runs), n)].variant]

Baseline(runs) == Order(runs)[1]

Of(runs, g, v) == Select(runs, LAMBDA r : r.graph = g /\ r.variant = v)
Failed(runs, g, v) == Len(Select(Of(runs, g, v), LAMBDA r : r.status # "ok"))

\* Mutant: whatever log has a compute time gives a sample.
SamplesOfAll(runs, log, g, v) ==
  LET timed == Select(Of(runs, g, v), LAMBDA r : log[r.log].compute_s # None)
  IN  [i \in DOMAIN timed |-> log[timed[i].log].compute_s]

Samples(runs, log, g, v) ==
  LET done == Select(Of(runs, g, v), LAMBDA r : r.status = "ok" /\ log[r.log].compute_s # None)
  IN  [i \in DOMAIN done |-> log[done[i].log].compute_s]

Compare(runs, log, g, v) ==
  LET t == Samples(runs, log, g, v)
  IN  [compute_s |-> Median(t),
       spread    |-> IF t = <<>> THEN None ELSE <<Min(ToSet(t)), Max(ToSet(t))>>,
       speedup   |-> Ratio(Median(Samples(runs, log, g, Baseline(runs))), Median(t)),
       failed    |-> Failed(runs, g, v)]

AB(d) ==
  LET runs == Rows(d.tsv["runs"])
  IN  [g \in GraphsOf(runs) |->
         [i \in DOMAIN Order(runs) |-> Compare(runs, d.log, g, Order(runs)[i])]]

----------------------------------------------------------------------------
(* main(): the sections that are asked for and whose directory exists, in    *)
(* order, up to the first one that raises.                                   *)
Sections == <<"h1", "h2", "h3", "h4", "ab">>

Raises(d, section) ==
  \/ section = "h1" /\ BestRaises(Rows(d.tsv["sweep"]))
  \/ section = "h2" /\ \E g \in DegreeGraphs(d) : ConcentrationRaises(DumpOf(d, g).arrivals)

Asked(d, which) == Select(Sections, LAMBDA x : which \in {x, "all"} /\ x \in d.dirs)

Printed(d, which) ==
  LET asked == Asked(d, which)
      stops == {i \in DOMAIN asked : Raises(d, asked[i])}
  IN  IF stops = {} THEN asked ELSE SubSeq(asked, 1, Min(stops) - 1)

=============================================================================
