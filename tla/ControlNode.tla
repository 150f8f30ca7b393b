----------------------------- MODULE ControlNode -----------------------------
(***************************************************************************)
(* --control node: a round is carried by one object per process instead of *)
(* a reduction and a broadcast over all PEs.                               *)
(*                                                                         *)
(* A PE adds its contribution to its process's accumulator; the last one   *)
(* forwards the sum to process 0, whose last one hands the total to Main.  *)
(* The answer is published in shared memory, in three stores, and a PE     *)
(* picks it up where it happens to run, or from a message sent in case it  *)
(* does not.  The accumulators count arrivals and do not look at what they *)
(* add: nothing but the order of events keeps rounds apart.                *)
(*                                                                         *)
(* A contribution is <<p, g>>, g the round it answers.                     *)
(***************************************************************************)
EXTENDS Naturals, FiniteSets

CONSTANTS
  PE, Node, NodeOf,
  MaxRound   \* bound on the rounds Main opens

ASSUME ControlAssumption ==
  /\ IsFiniteSet(PE) /\ IsFiniteSet(Node)
  /\ NodeOf \in [PE -> Node]
  /\ \A n \in Node : \E p \in PE : NodeOf[p] = n
  /\ MaxRound \in Nat

VARIABLES
  latest,      \* the record of the round last stored at a process (its gen)
  generation,  \* the atomic that announces it
  queued,      \* the PEs with fallback_queued set
  messages,    \* the PEs with a pickup_fallback() message pending
  publishing,  \* the thresholds() handlers running or to be run
  pc, applied, \* a PE: where it is, and the round it applied last
  acc, accCount,    \* a process's sum, and how many have added to it
  collecting,       \* sums on their way to process 0
  root, rootCount,  \* process 0's sum, and how many have added to it
  ready,            \* a total that waits out --control-interval
  opened            \* control_generation of Main

vars == <<latest, generation, queued, messages, publishing, pc, applied, acc,
          accCount, collecting, root, rootCount, ready, opened>>

Round == 0 .. MaxRound
PEsOf(n) == {p \in PE : NodeOf[p] = n}

\* start_reductions() asks every PE for the first contribution.
Init ==
  /\ latest = [n \in Node |-> 0] /\ generation = [n \in Node |-> 0]
  /\ queued = {} /\ messages = {} /\ publishing = {}
  /\ pc = [p \in PE |-> "contribute"] /\ applied = [p \in PE |-> 0]
  /\ acc = [n \in Node |-> {}] /\ accCount = [n \in Node |-> 0]
  /\ collecting = {}
  /\ root = {} /\ rootCount = 0 /\ ready = {}
  /\ opened = 0

-----------------------------------------------------------------------------
(* ControlNode::thresholds(), run by some worker of the process beside the *)
(* others; two rounds' handlers may overlap *)

\* The stores of thresholds(), in order.  Mutant: the generation first.
StoresSwapped == <<"generation", "record", "fallback">>
Stores == <<"record", "generation", "fallback">>

StoreRecord(h) ==
  /\ Stores[h.step] = "record"
  /\ latest' = [latest EXCEPT ![h.node] = h.gen]
  /\ publishing' = (publishing \ {h}) \cup {[h EXCEPT !.step = @ + 1]}
  /\ UNCHANGED <<generation, queued, messages>>

StoreGeneration(h) ==
  /\ Stores[h.step] = "generation"
  /\ generation' = [generation EXCEPT ![h.node] = h.gen]
  /\ publishing' = (publishing \ {h}) \cup {[h EXCEPT !.step = @ + 1]}
  /\ UNCHANGED <<latest, queued, messages>>

\* fallback_queued[r].exchange(1) for one PE, and its message if none is queued.
SendFallback(h) ==
  /\ Stores[h.step] = "fallback"
  /\ \E p \in h.left :
       /\ queued' = queued \cup {p}
       /\ messages' = IF p \in queued THEN messages ELSE messages \cup {p}
       /\ publishing' = (publishing \ {h}) \cup
                          (IF h.left = {p} THEN {}
                           ELSE {[h EXCEPT !.left = @ \ {p}]})
  /\ UNCHANGED <<latest, generation>>

Publish ==
  /\ \E h \in publishing : StoreRecord(h) \/ StoreGeneration(h) \/ SendFallback(h)
  /\ UNCHANGED <<pc, applied, acc, accCount, collecting, root, rootCount, ready, opened>>

-----------------------------------------------------------------------------
(* SsspChares *)

controller == <<publishing, acc, accCount, collecting, root, rootCount, ready, opened>>

\* maybe_pickup(), from a delivery, a heap pass or an idle pass.
MaybePickup(p) ==
  /\ pc[p] = "idle"
  /\ generation[NodeOf[p]] # applied[p]
  /\ pc' = [pc EXCEPT ![p] = "get"]
  /\ UNCHANGED <<latest, generation, queued, messages, applied, controller>>

\* Mutant: the flag is left set.
PickupFallbackKeepsFlag(p) ==
  /\ pc[p] = "idle" /\ p \in messages
  /\ messages' = messages \ {p}
  /\ pc' = [pc EXCEPT ![p] = "check"]
  /\ UNCHANGED <<latest, generation, queued, applied, controller>>

\* pickup_fallback(): the flag first, then pickup_round().
PickupFallback(p) ==
  /\ pc[p] = "idle" /\ p \in messages
  /\ messages' = messages \ {p}
  /\ queued' = queued \ {p}
  /\ pc' = [pc EXCEPT ![p] = "check"]
  /\ UNCHANGED <<latest, generation, applied, controller>>

\* pickup_round() reads the generation ...
Check(p) ==
  /\ pc[p] = "check"
  /\ pc' = [pc EXCEPT ![p] =
              IF generation[NodeOf[p]] = applied[p] THEN "idle" ELSE "get"]
  /\ UNCHANGED <<latest, generation, queued, messages, applied, controller>>

\* ... and then the record, and calls current_thresholds(), which ends with
\* the PE's contribution.
Get(p) ==
  /\ pc[p] = "get"
  /\ applied' = [applied EXCEPT ![p] = latest[NodeOf[p]]]
  /\ pc' = [pc EXCEPT ![p] = "contribute"]
  /\ UNCHANGED <<latest, generation, queued, messages, controller>>

\* A process's sum is complete.  Mutant: one PE too early.
FullEarly(n, count) == count + 1 >= Cardinality(PEsOf(n))
Full(n, count) == count = Cardinality(PEsOf(n))

\* ControlNode::add(); the accumulator is swapped out under its lock.
Add(p) ==
  LET n == NodeOf[p]
      sum == acc[n] \cup {<<p, applied[p]>>}
  IN  /\ pc[p] = "contribute"
      /\ pc' = [pc EXCEPT ![p] = "idle"]
      /\ IF Full(n, accCount[n] + 1)
         THEN /\ acc' = [acc EXCEPT ![n] = {}]
              /\ accCount' = [accCount EXCEPT ![n] = 0]
              /\ collecting' = collecting \cup {[node |-> n, sum |-> sum]}
         ELSE /\ acc' = [acc EXCEPT ![n] = sum]
              /\ accCount' = [accCount EXCEPT ![n] = @ + 1]
              /\ UNCHANGED collecting
      /\ UNCHANGED <<latest, generation, queued, messages, publishing, applied,
                     root, rootCount, ready, opened>>

-----------------------------------------------------------------------------
(* Process 0 and Main *)

worker == <<latest, generation, queued, messages, pc, applied, acc, accCount>>

\* ControlNode::collect()
Collect ==
  \E m \in collecting :
    /\ collecting' = collecting \ {m}
    /\ IF rootCount + 1 = Cardinality(Node)
       THEN ready' = root \cup m.sum /\ root' = {} /\ rootCount' = 0
       ELSE root' = root \cup m.sum /\ rootCount' = rootCount + 1 /\ UNCHANGED ready
    /\ UNCHANGED <<worker, publishing, opened>>

\* release_ready(), at once or after --control-interval, and what
\* reduce_histogram() does last: the thresholds go out to every process.
\* Bound: Main opens MaxRound rounds.
Release ==
  /\ ready # {}
  /\ ready' = {}
  /\ opened < MaxRound
  /\ opened' = opened + 1
  /\ publishing' = publishing \cup
       {[node |-> n, gen |-> opened + 1, step |-> 1, left |-> PEsOf(n)] : n \in Node}
  /\ UNCHANGED <<worker, collecting, root, rootCount>>

Next ==
  \/ Publish
  \/ \E p \in PE : MaybePickup(p) \/ PickupFallback(p) \/ Check(p) \/ Get(p) \/ Add(p)
  \/ Collect
  \/ Release

Spec == Init /\ [][Next]_vars

\* Messages are delivered, a worker finishes the handler it is in, and the
\* timer fires.  Nothing is assumed of MaybePickup: a PE that receives no
\* update and is never idle runs none of the places it is called from.
Fairness ==
  /\ WF_vars(Publish) /\ WF_vars(Collect) /\ WF_vars(Release)
  /\ \A p \in PE : WF_vars(PickupFallback(p)) /\ WF_vars(Check(p) \/ Get(p) \/ Add(p))

FairSpec == Spec /\ Fairness

-----------------------------------------------------------------------------
(* Properties *)

\* What Main is handed is one contribution of every PE, each an answer to the
\* round Main opened last, although nobody looked at what was added.
TotalsPure == ready # {} => ready = {<<p, opened>> : p \in PE}

\* Rounds as the rest of the program knows them: one answer of every PE, then
\* the next.
Lockstep == INSTANCE Rounds WITH
  round <- opened,
  waiting <- {p \in PE : ~(applied[p] = opened /\ pc[p] # "contribute")}
LockstepSpec == Lockstep!Spec

\* Every round is applied by every PE, the fallback alone being relied on.
EveryRoundApplied == <>(\A p \in PE : applied[p] = MaxRound)
=============================================================================
