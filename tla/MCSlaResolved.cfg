SPECIFICATION Spec
CONSTANTS
  w1 = w1
  w2 = w2
  evaluator = evaluator
  Findings = {"f1"}
  Workers = {w1, w2}
  Priorities = {"P0"}
  Deadline <- MCDeadline
  Ops = {"start", "resolve"}
  MaxTime = 1
  MaxSlas = 1
  MaxDbErrors = 0
  MaxCrashes = 0
PROPERTIES
  ResolvedNeverReactivates
CHECK_DEADLOCK FALSE
