------------------------------ MODULE WorkPool ------------------------------
(***************************************************************************)
(* What the workers of a process are promised of their shared queue: an    *)
(* item is in one place at a time, and is handed to one worker at a time.  *)
(* In what order, and how soon, is left open.                              *)
(***************************************************************************)
CONSTANTS Worker, Item

VARIABLE places  \* [Item -> where it is: the pool, workers, or "spent"]

InPool == {"pool"}

Init == places = [i \in Item |-> {}]

\* A new item, or one the worker gives back.
Put(w, i) ==
  /\ places[i] \in {{}, {w}}
  /\ places' = [places EXCEPT ![i] = InPool]

Take(w, items) ==
  /\ items # {} /\ \A i \in items : places[i] = InPool
  /\ places' = [i \in Item |-> IF i \in items THEN {w} ELSE places[i]]

Spend(w, i) ==
  /\ places[i] = {w}
  /\ places' = [places EXCEPT ![i] = {"spent"}]

Next ==
  \E w \in Worker : \/ \E i \in Item : Put(w, i) \/ Spend(w, i)
                    \/ \E items \in SUBSET Item : Take(w, items)

Spec == Init /\ [][Next]_places
=============================================================================
