SPECIFICATION Spec
CONSTANTS
  w1 = w1
  w2 = w2
  Findings = {"f1"}
  Actions = {"remediation", "other"}
  Workers = {w1}
  AllowReRequest = FALSE
  MaxRequests = 3
  MaxHandlers = 6
  MaxDbErrors = 0
  MaxCrashes = 0
PROPERTIES
  NoReRequestAfterDecision
CHECK_DEADLOCK FALSE
