SPECIFICATION Spec
CONSTANTS
  o1 = o1
  o2 = o2
  p1 = p1
  s1 = s1
  None = None
  Ops = {o1, o2}
  Pollers = {}
  Stoppers = {s1}
  Kinds = {"gated", "calib"}
  PileModes = {TRUE, FALSE}
  MaxSteps = 3
  RefOutcomes = {"ok"}
INVARIANT
  SingleHolder
