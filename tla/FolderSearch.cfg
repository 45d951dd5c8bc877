SPECIFICATION Spec
CONSTANTS
  MaxEntries = 4
  MaxRemoved = 1
INVARIANTS
  SearchComplete
  TriedInOrder
\* LoadAll returns.
CHECK_DEADLOCK FALSE
