SPECIFICATION Spec
CONSTANTS
  w1 = w1
  w2 = w2
  Findings = {"f1"}
  Actions = {"remediation", "other"}
  Workers = {w1, w2}
  AllowReRequest = FALSE
  MaxRequests = 3
  MaxHandlers = 4
  MaxDbErrors = 1
  MaxCrashes = 1
SYMMETRY WorkerSymmetry
CONSTRAINT FailuresWithOneAction
INVARIANTS
  TypeOK
  OneActiveRequestWhenSerial
  AuditExplainsStatus
  TrailReplaysRequest
  ReRequestNeedsAnotherAction
PROPERTIES
  DecisionIsFinalWhenSerial
CHECK_DEADLOCK FALSE
