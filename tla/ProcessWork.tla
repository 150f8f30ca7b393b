---------------------------- MODULE ProcessWork ----------------------------
(***************************************************************************)
(* The shared queue of a process as it is built by default: a bin per      *)
(* worker, a mutex and a nonempty flag per bin.  A worker pushes to its    *)
(* own bin and pops from any.  A pop reads flags without a lock, only      *)
(* tries locks, and looks at the head of a bin only: it may find nothing   *)
(* although there is work, and process_shared_heap() tries again.          *)
(*                                                                         *)
(* Items are numbers in the order of the queue (QueueOrderMonotone of      *)
(* AcicProofs), so that what a worker's thresholds admit is what is at     *)
(* most some number.  The nearest-first hints choose which bin is tried    *)
(* first; here any order is possible.                                      *)
(***************************************************************************)
EXTENDS Integers, FiniteSets, Sequences

CONSTANTS
  Worker, NoOne,
  Item,        \* numbered in the queue's order
  Capacity,    \* --process-queue-batch
  DrainCaps,   \* the values of --process-drain-cap; no cap is one that is never reached
  Thresholds   \* what the rounds admit, one after the other

ASSUME WorkAssumption ==
  /\ IsFiniteSet(Worker) /\ NoOne \notin Worker
  /\ Item \subseteq Nat /\ IsFiniteSet(Item)
  /\ Capacity \in Nat \ {0} /\ DrainCaps \subseteq Nat \ {0}
  /\ Thresholds \in Seq(Nat) /\ Thresholds # <<>>

VARIABLES
  bin,       \* [Worker -> the items in the worker's bin]
  holder,    \* [Worker -> who has the bin's lock]
  nonempty,  \* [Worker -> the bin's flag]
  pc,        \* [Worker -> where the worker is]
  at,        \* [Worker -> the bin it is trying]
  left,      \* [Worker -> the bins a pop has still to try]
  hand,      \* [Worker -> the items popped and not yet dealt with]
  inside,    \* the workers inside process_shared_heap() ...
  drainers,  \* ... how many it counts there, and how many it lets in
  drainCap,
  round,     \* [Worker -> the round whose thresholds it applies]
  spent      \* the items consumed

vars == <<bin, holder, nonempty, pc, at, left, hand, inside, drainers,
          drainCap, round, spent>>

Pooled == UNION {bin[b] : b \in Worker}
InHand == UNION {hand[w] : w \in Worker}
New == Item \ (Pooled \cup InHand \cup spent)

Admitted(w, i) == i <= Thresholds[round[w]]

Init ==
  /\ bin = [w \in Worker |-> {}] /\ nonempty = [w \in Worker |-> FALSE]
  /\ holder = [w \in Worker |-> NoOne]
  /\ pc = [w \in Worker |-> "free"] /\ at = [w \in Worker |-> w]
  /\ left = [w \in Worker |-> {}] /\ hand = [w \in Worker |-> {}]
  /\ inside = {} /\ drainers = 0 /\ drainCap \in DrainCaps
  /\ round = [w \in Worker |-> 1] /\ spent = {}

-----------------------------------------------------------------------------
(* push() *)

\* Under the lock of its own bin, which it waits for.
Insert(w, i) ==
  /\ pc[w] = "free" /\ holder[w] = NoOne
  /\ holder' = [holder EXCEPT ![w] = w]
  /\ bin' = [bin EXCEPT ![w] = @ \cup {i}]
  /\ pc' = [pc EXCEPT ![w] = "signal"]
  /\ UNCHANGED <<nonempty, at, left, inside, drainers, round, spent>>

\* An update that has won its vertex, in an expansion or from a message.
PushNew(w) == \E i \in New : Insert(w, i) /\ UNCHANGED hand

\* An item a new round no longer admits goes back.
PutBack(w) ==
  \E i \in hand[w] :
    /\ ~Admitted(w, i)
    /\ Insert(w, i)
    /\ hand' = [hand EXCEPT ![w] = @ \ {i}]

\* Mutant: the flag is left to the next pop.
SignalNothing(w) ==
  /\ pc[w] = "signal"
  /\ holder' = [holder EXCEPT ![w] = NoOne]
  /\ pc' = [pc EXCEPT ![w] = "free"]
  /\ UNCHANGED <<bin, nonempty, at, left, hand, inside, drainers, round, spent>>

Signal(w) ==
  /\ pc[w] = "signal"
  /\ nonempty' = [nonempty EXCEPT ![w] = TRUE]
  /\ holder' = [holder EXCEPT ![w] = NoOne]
  /\ pc' = [pc EXCEPT ![w] = "free"]
  /\ UNCHANGED <<bin, at, left, hand, inside, drainers, round, spent>>

-----------------------------------------------------------------------------
(* process_shared_heap() and pop_batch() *)

\* Mutant: the cap is looked up and not claimed with it.
EnterUncapped(w) ==
  /\ pc[w] = "free" /\ w \notin inside
  /\ inside' = inside \cup {w} /\ drainers' = drainers + 1
  /\ left' = [left EXCEPT ![w] = Worker]
  /\ UNCHANGED <<bin, holder, nonempty, pc, at, hand, round, spent>>

\* A drain slot, unless all are taken.
Enter(w) ==
  /\ pc[w] = "free" /\ w \notin inside
  /\ drainers < drainCap
  /\ inside' = inside \cup {w} /\ drainers' = drainers + 1
  /\ left' = [left EXCEPT ![w] = Worker]
  /\ UNCHANGED <<bin, holder, nonempty, pc, at, hand, round, spent>>

\* heap_slice items have been processed, a batch at least.
Yield(w) ==
  /\ pc[w] = "free" /\ w \in inside /\ hand[w] = {}
  /\ left[w] # Worker
  /\ inside' = inside \ {w} /\ drainers' = drainers - 1
  /\ UNCHANGED <<bin, holder, nonempty, pc, at, left, hand, round, spent>>

Scan(w) ==
  /\ pc[w] = "free" /\ w \in inside /\ hand[w] = {}
  /\ pc' = [pc EXCEPT ![w] = "scan"]
  /\ left' = [left EXCEPT ![w] = Worker]
  /\ UNCHANGED <<bin, holder, nonempty, at, hand, inside, drainers, round, spent>>

\* A bin whose flag is down is passed over.
Look(w) ==
  /\ pc[w] = "scan"
  /\ \E b \in left[w] :
       /\ left' = [left EXCEPT ![w] = @ \ {b}]
       /\ at' = [at EXCEPT ![w] = b]
       /\ pc' = [pc EXCEPT ![w] = IF nonempty[b] THEN "try" ELSE "scan"]
  /\ UNCHANGED <<bin, holder, nonempty, hand, inside, drainers, round, spent>>

\* Mutant: the slot is not given back on this path.
GiveUpKeepsSlot(w) ==
  /\ pc[w] = "scan" /\ left[w] = {}
  /\ pc' = [pc EXCEPT ![w] = "free"]
  /\ inside' = inside \ {w}
  /\ UNCHANGED <<bin, holder, nonempty, at, left, hand, drainers, round, spent>>

\* The pop returns nothing, and the pass over the heap ends.
GiveUp(w) ==
  /\ pc[w] = "scan" /\ left[w] = {}
  /\ pc' = [pc EXCEPT ![w] = "free"]
  /\ inside' = inside \ {w} /\ drainers' = drainers - 1
  /\ UNCHANGED <<bin, holder, nonempty, at, left, hand, round, spent>>

\* What pop_bin() takes: the admitted items from the head on, up to capacity.
Batch(w, b, capacity) ==
  {i \in bin[b] : /\ Admitted(w, i)
                  /\ Cardinality({j \in bin[b] : j < i}) < capacity}

\* What it leaves.  Mutant: the item is read and not popped.
RestUnpopped(w, b, capacity) == bin[b]
Rest(w, b, capacity) == bin[b] \ Batch(w, b, capacity)

\* A lock another worker holds is not waited for.
Miss(w) ==
  /\ pc[w] = "try" /\ holder[at[w]] # NoOne
  /\ pc' = [pc EXCEPT ![w] = "scan"]
  /\ UNCHANGED <<bin, holder, nonempty, at, left, hand, inside, drainers, round, spent>>

\* Capacity items are asked for, or what is left of heap_slice.  If the bin has
\* become empty or its head is not admitted, the lock is held for nothing.
Try(w) ==
  /\ pc[w] = "try" /\ holder[at[w]] = NoOne
  /\ holder' = [holder EXCEPT ![at[w]] = w]
  /\ \E capacity \in 1..Capacity :
       /\ hand' = [hand EXCEPT ![w] = Batch(w, at[w], capacity)]
       /\ bin' = [bin EXCEPT ![at[w]] = Rest(w, at[w], capacity)]
  /\ pc' = [pc EXCEPT ![w] = "taken"]
  /\ UNCHANGED <<nonempty, at, left, inside, drainers, round, spent>>

\* The flag after a pop.  Mutant: it is cleared whatever is left.
FlagCleared(b) == FALSE
Flag(b) == bin[b] # {}

\* A pop that took nothing leaves the flag and tries the next bin.
Unlock(w) ==
  /\ pc[w] = "taken"
  /\ nonempty' = IF hand[w] = {} THEN nonempty ELSE [nonempty EXCEPT ![at[w]] = Flag(at[w])]
  /\ holder' = [holder EXCEPT ![at[w]] = NoOne]
  /\ pc' = [pc EXCEPT ![w] = IF hand[w] = {} THEN "scan" ELSE "free"]
  /\ UNCHANGED <<bin, at, left, hand, inside, drainers, round, spent>>

\* The item is expanded, or found stale; its pushes are PushNew.
Consume(w) ==
  /\ pc[w] = "free"
  /\ \E i \in hand[w] :
       /\ Admitted(w, i)
       /\ hand' = [hand EXCEPT ![w] = @ \ {i}]
       /\ spent' = spent \cup {i}
  /\ UNCHANGED <<bin, holder, nonempty, pc, at, left, inside, drainers, round>>

\* current_thresholds(), between two items as well: rounds are one apart.
Install(w) ==
  /\ pc[w] = "free"
  /\ round[w] < Len(Thresholds)
  /\ \A q \in Worker : round[q] >= round[w]
  /\ round' = [round EXCEPT ![w] = @ + 1]
  /\ UNCHANGED <<bin, holder, nonempty, pc, at, left, hand, inside, drainers,
                 drainCap, spent>>

Step(w) ==
  /\ \/ PutBack(w) \/ Signal(w) \/ Enter(w) \/ Scan(w) \/ Look(w)
     \/ GiveUp(w) \/ Miss(w) \/ Try(w) \/ Unlock(w) \/ Consume(w)
  /\ UNCHANGED drainCap

Next ==
  \E w \in Worker :
    \/ (PushNew(w) \/ Yield(w)) /\ UNCHANGED drainCap
    \/ Install(w)
    \/ Step(w)

Spec == Init /\ [][Next]_vars

\* A worker goes on with what it is doing and is called again when idle.  A
\* round waits for the handler that is running, and the handlers end.
Fairness == \A w \in Worker : WF_vars(Step(w)) /\ SF_vars(Install(w))

FairSpec == Spec /\ Fairness

-----------------------------------------------------------------------------
(* Properties *)

\* The types; and no more workers drain at once than the cap allows.
TypeOK ==
  /\ bin \in [Worker -> SUBSET Item]
  /\ holder \in [Worker -> Worker \cup {NoOne}]
  /\ nonempty \in [Worker -> BOOLEAN]
  /\ pc \in [Worker -> {"free", "signal", "scan", "try", "taken"}]
  /\ at \in [Worker -> Worker] /\ left \in [Worker -> SUBSET Worker]
  /\ hand \in [Worker -> SUBSET Item]
  /\ inside \subseteq Worker /\ drainCap \in DrainCaps
  /\ drainers = Cardinality(inside) /\ drainers <= drainCap
  /\ round \in [Worker -> 1 .. Len(Thresholds)]
  /\ spent \subseteq Item

\* A bin nobody is changing says truly whether it has anything: a pop that
\* trusts the flag passes over nothing, and empty() is right at the end.
FlagHonest ==
  \A b \in Worker : holder[b] = NoOne => (nonempty[b] <=> bin[b] # {})

\* Nothing is popped twice or lost, whatever locks are missed.
Where(i) ==
  {w \in Worker : i \in hand[w]}
    \cup (IF i \in Pooled THEN {"pool"} ELSE {})
    \cup (IF i \in spent THEN {"spent"} ELSE {})
PlaceMap == [i \in Item |-> Where(i)]
Pool == INSTANCE WorkPool WITH places <- PlaceMap
PoolSpec == Pool!Spec

\* What is pushed is consumed in the end: neither a missed lock, nor a head
\* that is not admitted, nor a drain cap strands it.
Consumed == \A i \in Item : i \in Pooled ~> i \in spent
=============================================================================
