SPECIFICATION GateSpec
CONSTANTS
  Vertex = {0, 1, 2, 3, 4, 5}
  Edge <- DetourEdge
  From <- DetourTail
  To <- DetourHead
  Weight <- DetourWeight
  Source = 0
  Lmax = 5
  PE = {0, 1}
  Owner <- OddEven
  Shares <- Alone
  NoEdge = NoEdge
  LeafPrune = TRUE
  SendFilter = TRUE
  Combine = TRUE
  NumVertices = 4
  ExtraEdges = 1
  Weights = {1, 2}
INVARIANTS
  TypeOK
  LiveAccounted
  NoFalseTermination
  NeverExpandedTwice
  MatchesReference
  LeafyGraphsFit
PROPERTIES
  DistancesFall
  AnswerSpec
  Terminates
CHECK_DEADLOCK FALSE
