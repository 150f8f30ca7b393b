SPECIFICATION Spec
CONSTANTS
  Vertex = {1, 2, 3, 4}
  Edge <- ForkEdge
  From <- ForkFrom
  To <- ForkTo
  Weight <- ForkWeight
  Source = 1
  Lmax = 9
  PE = {0, 1}
  Owner <- OddEven
  NoEdge = NoEdge
  B = 4
  Width = 1
  ClampFreeze = TRUE
  PqOverflowLast = TRUE
  W = 3
  HeapShare = 100
  TramShare = 9900
  TwoTierLimit = 0
  BucketTarget = 1
  Adaptive = TRUE
  ScaleCap = 2
  RangeExtend = FALSE
  WindowFollow = FALSE
  StallRescueRounds = 2
  InitialThreshold = 0
  SkewDefer = TRUE
  BatchFold = TRUE
INVARIANTS
  LedgerExact
CHECK_DEADLOCK FALSE
