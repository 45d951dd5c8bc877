SPECIFICATION Spec
CONSTANTS
  ChunkParts = 2
  MaxContent = 2
  MaxParts = 4
INVARIANT AppendsData
CHECK_DEADLOCK FALSE
