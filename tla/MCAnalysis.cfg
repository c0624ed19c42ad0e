SPECIFICATION AnalysisSpec
CONSTANTS
  Programs <- MCPrograms
  MaxIter = 2
  Fixtures <- MCFixtures
  SemgrepOutputs <- MCSemgrepOutputs
  BenchRequests = {"request"}
  Reports <- RunReports
  MaxRowErrors = 0
  MaxBenchRestarts = 0
INVARIANTS
  NoMissedFlow
  PathIsProvenance
  MetricsAreRight
  EngineAgreesWithGroundTruth
CHECK_DEADLOCK FALSE
