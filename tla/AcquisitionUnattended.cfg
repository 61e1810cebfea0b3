SPECIFICATION UnattendedSpec
CONSTANTS
  o1 = o1
  o2 = o2
  p1 = p1
  None = None
  Ops = {o1, o2}
  Pollers = {p1}
  Stoppers = {}
  Kinds = {"single", "batched", "live", "gated", "paced", "flim", "calib"}
  PileModes = {TRUE, FALSE}
  MaxSteps = 3
  RefOutcomes = {"ok", "error", "raise"}
INVARIANTS
  TypeOK
  OneOperation
  IdleIsClean
  StopTakesEffect
  PileupMatches
PROPERTY
  ResultIsOwn
  
  ImplementsLease
