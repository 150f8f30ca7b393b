SPECIFICATION ShareSpec
CONSTANTS
  Vertex = {1, 2, 3, 4}
  Edge <- ArcEdge
  From <- Tail_
  To <- Head_
  Weight <- ArcWeight
  Source = 1
  Lmax = 9
  PE = {0, 1, 2}
  Owner <- OwnerOf
  Shares <- SharesOf
  NoEdge = NoEdge
  LeafPrune = FALSE
  SendFilter = FALSE
  Combine = FALSE
  Batch = 2
PROPERTY
  HandlersSpec
CHECK_DEADLOCK FALSE
