SPECIFICATION Spec
CONSTANTS
  MaxVex = 2
  Readers = {"reader"}
  MaxUpsets = 2
  Faults = {"refused", "lost"}
INVARIANTS
  TypeOK
  InterventionIsShown
  AnnouncedOnce
PROPERTIES
  OverBiasEnds
