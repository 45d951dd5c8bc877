SPECIFICATION Spec
CONSTANTS
  WordBits = 3
  UIntRange = 64
  NumPlugins = 1
  MaxFds = 3
  MaxListen = 2
  MaxReply = 2
  MaxConnects = 3
  MaxAcceptErrs = 1
INVARIANTS
  SelectCoversUntilAcceptFails
  ReadsOnlyIdle
  ReadsDontBlock
  SendsOnlyOwed
  RunGoesOn
PROPERTY ReplyKept
CHECK_DEADLOCK FALSE
