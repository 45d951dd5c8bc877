SPECIFICATION Spec
CONSTANTS
  Requests <- MCRequests
  Sent <- MCSent
INVARIANTS
  TypeOK
  PiecesInRequest
  ParsesMessages
PROPERTIES
  NeverSpins
  Finishes
CHECK_DEADLOCK FALSE
