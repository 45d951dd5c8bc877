SPECIFICATION FairSpec
CONSTANTS
  ChunkParts = 2
  MaxContent = 2
  MaxParts = 4
INVARIANTS
  StreamIntact
  NothingLeaks
  ClientInStep
PROPERTIES
  ImplementsExchange
  ExchangeProgresses
CHECK_DEADLOCK FALSE
