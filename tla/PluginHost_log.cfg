SPECIFICATION Spec
CONSTANTS
  Files = {f1}
  Libs = {l1}
  Ports = {0, 80}
  MaxHandlers = 1
INVARIANT AllOutputLogged
CHECK_DEADLOCK FALSE
