SPECIFICATION Spec
CONSTANTS
  w1 = w1
  w2 = w2
  Findings = {"f1"}
  UserStages = {"VALIDATE"}
  Workers = {w1, w2}
  MaxRuns = 3
  MaxExecs = 4
  MaxRepeats = 1
  MaxDbErrors = 1
  MaxCrashes = 1
  MayDelete = TRUE
CONSTRAINT Explored
SYMMETRY WorkerSymmetry
INVARIANTS
  TypeOK
  NeverFalselyCompleted
  CountNeverExceedsHistory
  CountsAreReal
  DeletionLeavesNothing
PROPERTIES
  OutcomeIsFinal
CHECK_DEADLOCK FALSE
