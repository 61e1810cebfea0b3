SPECIFICATION Spec
CONSTANTS
  None = None
  MaxItems = 2
  MaxSeries = 1
  Jobs = {j1}
  Clients = {k1}
  Modes = {"batched", "paced"}
  OtherModes = {"single"}
  Faults = {"timeout", "outlast", "stop", "hot", "log"}
INVARIANTS
  TypeOK
  OutcomeIsOwn
PROPERTIES
  StopEndsSeries
  RefusedByOthers
  SeriesEnds
  JobsEnd
  ImplementsSeries
