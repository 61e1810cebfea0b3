SPECIFICATION Spec
CONSTANTS
  o1 = o1
  o2 = o2
  s1 = s1
  None = None
  Ops = {o1, o2}
  Pollers = {}
  Stoppers = {s1}
  Kinds = {"single", "gated", "dcr"}
  PileModes = {FALSE}
  MaxSteps = 2
  RefOutcomes = {"ok", "error"}
INVARIANTS
  BusyIsHeld
PROPERTY
  OperationsEnd
