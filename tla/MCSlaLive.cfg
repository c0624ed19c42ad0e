SPECIFICATION FairCrashSpec
CONSTANTS
  w1 = w1
  w2 = w2
  evaluator = evaluator
  Findings = {"f1"}
  Workers = {w1}
  Priorities = {"P0"}
  Deadline <- MCDeadline
  Ops = {"start", "check", "resolve", "delete"}
  MaxTime = 1
  MaxSlas = 2
  MaxDbErrors = 1
  MaxCrashes = 1
PROPERTIES
  OverdueEscalates
  OverdueNeverStaysActive
CHECK_DEADLOCK FALSE
