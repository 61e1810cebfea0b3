SPECIFICATION Spec
CONSTANTS
  c1 = c1
  c2 = c2
  w1 = w1
  w2 = w2
  k1 = k1
  k2 = k2
  None = None
  Callers = {c1, c2}
  Acquirers = {c1}
  Watchers = {w1, w2}
  Conns = {k1, k2}
  MaxStream = 0
  Faults = {"close", "timeout"}
  WaitForSpawns = TRUE
PROPERTIES
  CallsEnd
  LossIsNoticed
  Heals
