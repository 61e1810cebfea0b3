SPECIFICATION Spec
CONSTANTS
  N = 3
  MaxSweeps = 3
  Faults = {"error", "raise", "client", "crash"}
INVARIANTS
  TypeOK
  RecordedIsAcquired
PROPERTIES
  ImplementsLedger
