---------------------------- MODULE MCControlNode ----------------------------
(* Two processes, one with two workers. *)
EXTENDS ControlNode, TLC
CONSTANTS p1, p2, p3, n0, n1
NodeOfPE == (p1 :> n0) @@ (p2 :> n0) @@ (p3 :> n1)
=============================================================================
