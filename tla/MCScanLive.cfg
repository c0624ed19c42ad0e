SPECIFICATION FairSpec
CONSTANTS
  w1 = w1
  w2 = w2
  Findings = {"f1"}
  UserStages = {"VALIDATE"}
  Workers = {w1, w2}
  MaxRuns = 3
  MaxExecs = 4
  MaxRepeats = 0
  MaxDbErrors = 0
  MaxCrashes = 0
  MayDelete = FALSE
PROPERTIES
  RunFinishes
CHECK_DEADLOCK FALSE
