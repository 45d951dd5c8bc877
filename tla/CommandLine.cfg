SPECIFICATION Spec
CONSTANTS
  Others = {"a"}
  MaxChars = 4
  MaxArgs = 2
INVARIANT SwitchesAsGiven
CHECK_DEADLOCK FALSE
