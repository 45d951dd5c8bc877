SPECIFICATION Spec
CONSTANTS
  WordBits = 3
  UIntRange = 64
  NumPlugins = 2
  MaxFds = 4
  MaxListen = 1
  MaxReply = 1
  MaxConnects = 3
  MaxAcceptErrs = 1
INVARIANTS
  TypeOK
  DescriptorsOwned
  NullHandlerNeverFreed
CHECK_DEADLOCK FALSE
