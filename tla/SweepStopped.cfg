SPECIFICATION Spec
CONSTANTS
  N = 2
  MaxSweeps = 2
  Faults = {"error", "outlast", "stop", "impatient", "client", "crash"}
PROPERTIES
  NoPointTwice
  SweepEnds
