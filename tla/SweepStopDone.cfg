SPECIFICATION Spec
CONSTANTS
  N = 3
  MaxSweeps = 1
  Faults = {"stop"}
INVARIANTS
  DoneIsComplete
