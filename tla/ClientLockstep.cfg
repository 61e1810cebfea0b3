SPECIFICATION Spec
CONSTANTS
  c1 = c1
  c2 = c2
  c3 = c3
  w1 = w1
  w2 = w2
  k1 = k1
  k2 = k2
  None = None
  Callers = {c1, c2, c3}
  Acquirers = {c1, c2}
  Watchers = {w1, w2}
  Conns = {k1, k2}
  MaxStream = 1
  Faults = {"close", "error", "silence", "hung_ws"}
  WaitForSpawns = TRUE
SYMMETRY Symmetry
INVARIANTS
  TypeOK
  AnswersAreOwn
  Lockstep
