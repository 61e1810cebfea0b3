SPECIFICATION Spec
CONSTANTS
  Rows <- MCRows
  Light <- MCLight
  Widths <- MCWidths
  DataRoot <- MCDataRoot
  LocalPaths <- MCLocalPaths
  SavePaths <- MCSavePaths
  BATCH_SIZE = 2
  IntensityBodies <- MCIntensityBodies
  Raw1BitBodies <- MCRaw1BitBodies
  GatedBodies <- MCGatedBodies
  IntensityReferenceBodies <- MCIntensityReferenceBodies
  GatedReferenceBodies <- MCGatedReferenceBodies
  FlimBodies <- MCFlimBodies
  LiveBodies <- MCLiveBodies
  ScheduledJobs <- MCScheduledJobs
  CalibrationKinds <- MCCalibrationKinds
  Overrides <- MCOverrides
  MaxRuns = 2
  MaxEvents = 2
INVARIANTS TypeOK OwnFolder FilesAreMeasured CurvesAreMeasured CorrectionFits LoggedIsSaved RerunReproduces
CHECK_DEADLOCK FALSE
