SPECIFICATION FairSpec
CONSTANTS
  WordBits = 8
  UIntRange = 64
  NumPlugins = 1
  MaxFds = 3
  MaxListen = 1
  MaxReply = 2
  MaxConnects = 2
  MaxAcceptErrs = 0
PROPERTIES
  ReadableIsRead
  ReplyGetsOut
  ImplementsExchange
CHECK_DEADLOCK FALSE
