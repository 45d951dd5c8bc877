SPECIFICATION Spec
CONSTANTS
  Files = {f1, f2}
  Libs = {l1, l2}
  Ports = {0, 80, 81}
  MaxHandlers = 1
INVARIANTS
  TypeOK
  HandlesOwned
  CallsLand
  LoggerOutlivesPlugins
  AllLoaded
  OneLog
CHECK_DEADLOCK FALSE
