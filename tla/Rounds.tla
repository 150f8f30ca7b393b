------------------------------- MODULE Rounds -------------------------------
(***************************************************************************)
(* What the workers and Main rely on, whichever way rounds are carried:    *)
(* a round is answered by every PE exactly once, and the next one begins   *)
(* when all have answered.  Acic takes this for granted; ControlNode       *)
(* implements it.                                                          *)
(***************************************************************************)
EXTENDS Naturals

CONSTANTS PE, Round

VARIABLES
  round,   \* the round that is open
  waiting  \* the PEs that have not answered it

Init == round = 0 /\ waiting = PE

Answer(p) ==
  /\ p \in waiting
  /\ waiting' = waiting \ {p}
  /\ UNCHANGED round

Open ==
  /\ waiting = {}
  /\ round + 1 \in Round
  /\ round' = round + 1
  /\ waiting' = PE

Next == Open \/ \E p \in PE : Answer(p)

Spec == Init /\ [][Next]_<<round, waiting>>
=============================================================================
