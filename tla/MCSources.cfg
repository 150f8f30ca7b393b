SPECIFICATION FairSpec
CONSTANTS
  Vertex = {1, 2, 3}
  Edge <- MCEdge
  From <- MCFrom
  To <- MCTo
  Weight <- MCWeight
  Lmax = 5
  SourceList <- MCSourceList
  PE = {0, 1}
  Owner <- MCOwner
  LocalVertex <- MCLocalVertex
  Process <- MCProcess
  First = {0}
  Hub = {3}
  RoundDelay = TRUE
  Timeout = TRUE
  Certify = TRUE
  Verify = FALSE
  None = None
  MayFail = TRUE
INVARIANTS
  CleanStart
  AcceptedIsShortest
  NoFalseAlarm
  VerdictExact
PROPERTIES
  OnlyOwnTimeout
  Terminates
CHECK_DEADLOCK FALSE
