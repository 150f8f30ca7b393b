------------------------------ MODULE Diagnose ------------------------------
(* scripts/diagnose.sh: the harness that runs the solver over and over and   *)
(* leaves the directory of results diag_report.py reads.  It may be killed   *)
(* at any moment and run again into the same directory, and the report may   *)
(* be asked for at any moment.                                               *)
EXTENDS DiagReport

CONSTANTS GraphList,   \* the names of GRAPHS, in order
          Wanted,      \* SSSP_GRAPHS, for ab
          Variants,    \* the names in the variants file, in order
          Percentiles, Multipliers, Bufsizes, PeCounts, Jitters, Intervals, Delays,
          Settings,    \* experiments, with SSSP_REPS, an invocation may be given
          RunTimes,       \* compute times of a run that completes
          TimedOut,    \* a run cut by --timeout: it prints its summary, exits 1
          Dumps,       \* contents of the CSV files of a diagnosis run
          Counts,      \* items and absorbable items of a run, as <<items, absorbable>>
          PeLogs,      \* DIAG_PE lines a log of n workers may have
          MaxInvocations, KillBound  \* bounds: invocations; jobs done before a kill

\* A row of ab/runs.tsv.  The log it cites is named by the first three.
RunRow == [graph : STRING, variant : STRING, rep : Nat, status : {"ok", "failed"},
           log : STRING \X STRING \X Nat, inv : Nat]

(* The report tells variants apart by name only, and a median of two times   *)
(* is a whole number here.                                                   *)
ASSUME HarnessAssumption ==
  /\ Variants \in Seq(STRING) /\ GraphList \in Seq(STRING)
  /\ IsInjective(Variants) /\ IsInjective(GraphList)
  /\ \A knobs \in {Percentiles, Multipliers, Bufsizes, Jitters, Intervals, Delays} :
       knobs \in Seq(STRING)
  /\ PeCounts \in Seq(Nat)
  /\ Settings \subseteq [experiment : {"h1", "h2", "h3", "h4", "all", "ab"}, reps : Nat]
  /\ IsFiniteSet(RunTimes) /\ RunTimes \subseteq Nat /\ RunTimes # {}
  /\ \A t \in RunTimes : t > 0 /\ t % 2 = 0
  /\ None \notin RunTimes /\ TimedOut \notin RunTimes /\ None \notin Seq(RunRow)

\* Rows of the CSV files of a diagnosis run.
BucketRow == [created : Nat]
RoundRow == [t : Int, done_vertices : Int, updates_noted : Int,
             heap_threshold : Int, first_nonzero : Int, occupied : Int]
ClassRow == [vertices : Nat, arrivals : Nat, rejects : Nat]

(* A vertex is in the class of the binary logarithm of its arrivals: those   *)
(* of a higher class have no fewer on average, and one without vertices none.*)
ASSUME DumpAssumption ==
  /\ None \notin Dumps
  /\ \A dump \in Dumps :
       /\ dump.buckets \in Seq(BucketRow) /\ dump.rounds \in Seq(RoundRow)
       /\ dump.arrivals \in Seq(ClassRow)
       /\ \A i, j \in DOMAIN dump.arrivals :
            LET low == dump.arrivals[i]
                high == dump.arrivals[j]
            IN  /\ i <= j => low.arrivals * high.vertices <= high.arrivals * low.vertices
                /\ low.vertices = 0 => low.arrivals = 0

VARIABLES outdir,  \* the directory of results
          setting, \* this invocation's experiment and repetitions
          inv,     \* number of the invocation (history)
          at,      \* the next job of the experiment
          ran      \* status of an A/B run whose row is not yet written

vars == <<outdir, setting, inv, at, ran>>

----------------------------------------------------------------------------
(* The jobs of an experiment, in the order of the script's loops. *)
Each(s, Jobs(_)) == FlattenSeq([i \in DOMAIN s |-> Jobs(s[i])])

Mkdir(sub) == <<[op |-> "mkdir", sub |-> sub]>>
Open(file) == <<[op |-> "open", file |-> file]>>
Profiles(sub) == Each(GraphList, LAMBDA g : <<[op |-> "dump", sub |-> sub, graph |-> g]>>)
Sweep(file, knobs) ==
  Open(file) \o
  Each(GraphList, LAMBDA g : Each(knobs, LAMBDA k :
    <<[op |-> "row", file |-> file, graph |-> g, knob |-> k]>>))

H1Jobs == Mkdir("h1") \o Profiles("h1") \o Sweep("percentile", Percentiles)
          \o Sweep("sweep", Multipliers)

H2Jobs == Mkdir("h2") \o Open("absorb") \o
  Each(GraphList, LAMBDA g : Each(Bufsizes, LAMBDA b :
    <<[op |-> "absorb", graph |-> g, knob |-> b]>>))

H3Jobs == Mkdir("h3") \o
  Each(GraphList, LAMBDA g : Each(PeCounts, LAMBDA n :
    <<[op |-> "pes", graph |-> g, pes |-> n]>>))
  \o Open("jitter") \o Each(Jitters, LAMBDA j : <<[op |-> "jitter", knob |-> j]>>)

H4Jobs == Mkdir("h4") \o Profiles("h4") \o Sweep("flush", Intervals) \o Sweep("delay", Delays)

\* Mutant: all repetitions of a variant, then the next variant.
ABJobsByVariant(reps) == Mkdir("ab") \o Open("runs") \o
  Each(Select(GraphList, LAMBDA g : g \in Wanted), LAMBDA g :
    Each(Variants, LAMBDA v :
      Each([r \in 1..reps |-> r], LAMBDA r :
        <<[op |-> "ab", graph |-> g, variant |-> v, rep |-> r]>>)))

(* Repetitions are interleaved across variants. *)
ABJobs(reps) == Mkdir("ab") \o Open("runs") \o
  Each([r \in 1..reps |-> r], LAMBDA r :
    Each(Select(GraphList, LAMBDA g : g \in Wanted), LAMBDA g :
      Each(Variants, LAMBDA v :
        <<[op |-> "ab", graph |-> g, variant |-> v, rep |-> r]>>)))

JobsOf(s) ==
  CASE s.experiment = "h1" -> H1Jobs
    [] s.experiment = "h2" -> H2Jobs
    [] s.experiment = "h3" -> H3Jobs
    [] s.experiment = "h4" -> H4Jobs
    [] s.experiment = "all" -> H1Jobs \o H2Jobs \o H3Jobs \o H4Jobs
    [] s.experiment = "ab" -> ABJobs(s.reps)

LogOf(job) == <<job.graph, job.variant, job.rep>>

----------------------------------------------------------------------------
Files == {"percentile", "sweep", "absorb", "jitter", "flush", "delay", "runs"}

Init ==
  /\ setting \in Settings
  /\ outdir = [dirs |-> {},
               dump |-> [sub \in {"h1", "h2", "h4"} |-> [g \in ToSet(GraphList) |-> None]],
               tsv  |-> [f \in Files |-> None],
               pe_log |-> [c \in ToSet(GraphList) \X ToSet(PeCounts) |-> None],
               jitter_log |-> [j \in ToSet(Jitters) |-> None],
               log |-> [l \in {LogOf(j) : j \in {j \in UNION {ToSet(JobsOf(s)) : s \in Settings} :
                                                  j.op = "ab"}} |-> None]]
  /\ inv = 1 /\ at = 1 /\ ran = None

Job == JobsOf(setting)[at]
Doing(op) == at <= Len(JobsOf(setting)) /\ Job.op = op
Step(op) == Doing(op) /\ at' = at + 1 /\ UNCHANGED <<setting, inv, ran>>

AppendRow(d, file, row) == [d EXCEPT !.tsv[file] = Append(@, row)]

(* run(): it succeeds when the solver exits with 0 and printed its compute   *)
(* time.  A run that crashed is None, one cut short TimedOut.                *)
Outcomes == RunTimes \cup {None, TimedOut}
Succeeds(outcome) == outcome \in RunTimes

(* timed(): the median of the repetitions that succeed, blank without one.   *)
(* The other columns of the row are read from the log of repetition 1.       *)
MedianOf(reps) == Median(Select(reps, Succeeds))
Counters(outcome) ==
  IF outcome = None THEN None ELSE IF Succeeds(outcome) THEN "complete" ELSE "partial"

----------------------------------------------------------------------------
MakeDirectory == Step("mkdir") /\ outdir' = [outdir EXCEPT !.dirs = @ \cup {Job.sub}]

\* Mutant: a summary of an earlier invocation is continued.
OpenAppends == Step("open") /\ outdir' = [outdir EXCEPT !.tsv[Job.file] = Rows(@)]

(* A summary is truncated to its header before its first row. *)
OpenSummary == Step("open") /\ outdir' = [outdir EXCEPT !.tsv[Job.file] = <<>>]

(* The solver writes its CSV files when it ends; a run that crashes leaves   *)
(* those of the run before it.                                               *)
Profile ==
  /\ Step("dump")
  /\ \/ \E dump \in Dumps : outdir' = [outdir EXCEPT !.dump[Job.sub][Job.graph] = dump]
     \/ UNCHANGED outdir

TimedRow ==
  /\ Step("row")
  /\ \E reps \in [1..setting.reps -> Outcomes] :
       outdir' = AppendRow(outdir, Job.file,
                           [graph |-> Job.graph, knob |-> Job.knob,
                            compute_s |-> MedianOf(reps), counters |-> Counters(reps[1])])

(* A run that fails gives no row. *)
AbsorbRow ==
  /\ Step("absorb")
  /\ \/ UNCHANGED outdir
     \/ \E c \in Counts :
          outdir' = AppendRow(outdir, "absorb", [graph |-> Job.graph, knob |-> Job.knob,
                                                 items |-> c[1], absorbable |-> c[2]])

PeRun ==
  /\ Step("pes")
  /\ \E lines \in PeLogs[Job.pes] : outdir' = [outdir EXCEPT !.pe_log[<<Job.graph, Job.pes>>] = lines]

JitterRow ==
  /\ Step("jitter")
  /\ \E reps \in [1..setting.reps -> Outcomes], lines \in PeLogs[Last(PeCounts)] :
       outdir' = AppendRow([outdir EXCEPT !.jitter_log[Job.knob] = lines], "jitter",
                           [knob |-> Job.knob, compute_s |-> MedianOf(reps),
                            counters |-> Counters(reps[1])])

(* An A/B run writes its log, then the harness writes its row.  A run cut    *)
(* short prints a compute time too, though it failed.                        *)
ABRun ==
  /\ Doing("ab") /\ ran = None
  /\ \E outcome \in Outcomes :
       /\ outdir' = [outdir EXCEPT !.log[LogOf(Job)] =
                       [inv |-> inv,
                        compute_s |-> IF outcome = TimedOut THEN Max(RunTimes) + 2 ELSE outcome]]
       /\ ran' = IF Succeeds(outcome) THEN "ok" ELSE "failed"
  /\ UNCHANGED <<setting, inv, at>>

ABRow ==
  /\ Doing("ab") /\ ran # None
  /\ outdir' = AppendRow(outdir, "runs",
                         [graph |-> Job.graph, variant |-> Job.variant, rep |-> Job.rep,
                          status |-> ran, log |-> LogOf(Job), inv |-> inv])
  /\ ran' = None /\ at' = at + 1
  /\ UNCHANGED <<setting, inv>>

(* Killed, and run again with the same arguments. *)
Rerun ==
  /\ inv < MaxInvocations /\ at <= KillBound
  /\ inv' = inv + 1 /\ at' = 1 /\ ran' = None
  /\ UNCHANGED <<outdir, setting>>

Next == \/ MakeDirectory \/ OpenSummary \/ Profile \/ TimedRow \/ AbsorbRow
        \/ PeRun \/ JitterRow \/ ABRun \/ ABRow \/ Rerun

Spec == Init /\ [][Next]_vars

----------------------------------------------------------------------------
Runs == Rows(outdir.tsv["runs"])
Dumped == UNION {{outdir.dump[sub][g] : g \in Profiled(outdir, sub)} : sub \in {"h1", "h2", "h4"}}

(* Every row of ab/runs.tsv cites the log of the run it is about, also when  *)
(* the harness was killed and run again over the logs of the first attempt.  *)
RowsCiteTheirRun ==
  \A i \in DOMAIN Runs :
    LET log == outdir.log[Runs[i].log]
    IN  log.inv = Runs[i].inv /\ (Runs[i].status = "ok" <=> log.compute_s \in RunTimes)

(* "a drift in the node over the course of the job lands on every variant    *)
(* alike": at no moment, also that of a kill, has one variant of a graph     *)
(* more than one repetition more than another.                               *)
RepsBalanced ==
  \A g \in GraphsOf(Runs), v, w \in ToSet(Variants) :
    Len(Of(Runs, g, v)) <= Len(Of(Runs, g, w)) + 1

(* "the first line is the baseline the report takes every ratio against",    *)
(* whichever runs fail and wherever the harness was stopped.                 *)
BaselineFirst ==
  Runs # <<>> => Order(Runs) # <<>> /\ Baseline(Runs) = Variants[1]

(* Every A/B run is in its row of the table once, as a sample of the median  *)
(* or as a failure; a run cut short, which prints a time too, is a failure.  *)
EveryRunCounted ==
  \A g \in GraphsOf(Runs), v \in ToSet(Order(Runs)) :
    LET samples == Samples(Runs, outdir.log, g, v)
    IN  /\ Len(samples) + Failed(Runs, g, v) = Len(Of(Runs, g, v))
        /\ ToSet(samples) \subseteq RunTimes

(* "half in": no smaller set of buckets holds half of all updates. *)
HalfInMinimal ==
  \A dump \in Dumped :
    LET created == Column(dump.buckets, "created")
        Holds(S) == 2 * FoldFunctionOnSet(LAMBDA x, y : x + y, 0, created, S) >= Total(created)
        enough == {Cardinality(S) : S \in {S \in SUBSET DOMAIN created : Holds(S)}}
    IN  HalfIn(created) = Min(enough)

(* "busiest vertices first": from the top, any part of the vertices has at   *)
(* least that part of the arrivals, and all of them have all.                *)
BusiestFirst ==
  \A dump \in Dumped :
    LET rows == Concentration(dump.arrivals)
    IN  \A i \in DOMAIN rows :
          LET v == rows[i].vertices
              a == rows[i].arrivals
          IN  /\ a[1] * v[2] >= v[1] * a[2]
              /\ i = Len(rows) => v[1] = v[2] /\ a[1] = a[2]

(* The tail's time is that of its rounds: two columns that are computed from *)
(* the round times in different ways agree.                                  *)
TailAddsUp ==
  \A dump \in Dumped : Len(dump.rounds) >= 2 =>
    TailRow(dump.rounds).tail_mean[1] = TailRow(dump.rounds).time

(* "Nothing here decides anything: it reads the CSVs and logs the harness    *)
(* wrote and prints them" (diag_report.py:5): when the harness has ended     *)
(* every section whose directory exists is printed, whatever runs failed.    *)
ReportComplete ==
  at > Len(JobsOf(setting)) => Printed(outdir, "all") = Asked(outdir, "all")

(* "Prints nothing if the line is absent, which is what a crashed or         *)
(* timed-out run looks like" (diagnose.sh:105): the counters of a row are of *)
(* a run that completed.                                                     *)
CountersOfCompleted ==
  \A f \in {"percentile", "sweep", "jitter", "flush", "delay"} :
    \A i \in DOMAIN Rows(outdir.tsv[f]) : outdir.tsv[f][i].counters # "partial"

=============================================================================
