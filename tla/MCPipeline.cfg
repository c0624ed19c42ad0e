SPECIFICATION PipelineSpec
CONSTANTS
  w1 = w1
  w2 = w2
  Severities <- MCSeverities
  SeverityWeights <- MCSeverityWeights
  ValidatedBonus = 10
  ProofBonus = 10
  ProofIncreasesPriority = TRUE
  Thresholds <- MCThresholds
  Findings = {1, 2, 3}
  Project = {1}
  Staged = {1}
  Batches = {{1, 3}, {2}}
  Shape <- MCShape
  Workers = {w1, w2}
  MaxRequests = 4
  MaxDbErrors = 1
  MaxCrashes = 1
INVARIANTS
  DeletionLeavesNoRecord
  RegistryIsDurable
  GroupsAreComplete
  ProofNeedsConfirmation
  HarnessesDecide
  StoredScoresExplained
  EvidenceMovesOneWay
SYMMETRY WorkerSymmetry
CHECK_DEADLOCK FALSE
