SPECIFICATION Spec
CONSTANTS
  WordBits = 8
  UIntRange = 64
  NumPlugins = 1
  MaxFds = 3
  MaxListen = 1
  MaxReply = 1
  MaxConnects = 3
  MaxAcceptErrs = 1
INVARIANT SelectCovers
CHECK_DEADLOCK FALSE
