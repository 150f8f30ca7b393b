CONSTANTS
  p1 = p1
  p2 = p2
  p3 = p3
  n0 = n0
  n1 = n1
  PE = {p1, p2, p3}
  Node = {n0, n1}
  NodeOf <- NodeOfPE
  MaxRound = 2
SPECIFICATION FairSpec
INVARIANT TotalsPure
PROPERTY LockstepSpec
PROPERTY EveryRoundApplied
CHECK_DEADLOCK FALSE
