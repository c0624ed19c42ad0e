SPECIFICATION Spec
CONSTANTS
  w1 = w1
  w2 = w2
  Program <- Mixed
  HasImport = FALSE
  Workers = {w1, w2}
  MaxLines = 4
  MaxHandlers = 5
  MaxDbErrors = 1
  MaxCrashes = 1
SYMMETRY WorkerSymmetry
INVARIANTS
  AppliedFixIsInFile
  ProgramPreserved
  FixIsOfTheFinding
PROPERTIES
  FixesAreKept
  RemediationRefinesFixes
CHECK_DEADLOCK FALSE
