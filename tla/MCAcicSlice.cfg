SPECIFICATION FairSpec
CONSTANTS
  Vertex = {1, 2, 4, 6}
  Edge <- SliceEdge
  From <- SliceFrom
  To <- SliceTo
  Weight <- SliceWeight
  Source = 1
  Lmax = 12
  PE = {0, 1}
  Owner <- OddEven
  NoEdge = NoEdge
  B = 4
  Width = 2
  ClampFreeze = TRUE
  PqOverflowLast = TRUE
  W = 3
  HeapShare = 100
  TramShare = 100
  TwoTierLimit = 0
  BucketTarget = 1
  Adaptive = TRUE
  ScaleCap = 2
  RangeExtend = FALSE
  WindowFollow = FALSE
  StallRescueRounds = 0
  InitialThreshold = 0
  SkewDefer = FALSE
  BatchFold = TRUE
INVARIANTS
  NothingHidden
  AnswerCorrect
PROPERTIES
  Terminates
CHECK_DEADLOCK FALSE
