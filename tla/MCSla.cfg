SPECIFICATION Spec
CONSTANTS
  w1 = w1
  w2 = w2
  evaluator = evaluator
  Findings = {"f1"}
  Workers = {w1, w2}
  Priorities = {"P0", "P4"}
  Deadline <- MCDeadline
  Ops = {"start", "check", "resolve"}
  MaxTime = 1
  MaxSlas = 2
  MaxDbErrors = 0
  MaxCrashes = 0
SYMMETRY WorkerSymmetry
INVARIANTS
  TypeOK
  AtMostOneEscalation
  NoLostEscalation
  EscalationTrailDurable
CHECK_DEADLOCK FALSE
