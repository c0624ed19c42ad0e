SPECIFICATION Spec
CONSTANTS
  w1 = w1
  w2 = w2
  Program <- ThreeCommands
  HasImport = FALSE
  Workers = {w1}
  MaxLines = 5
  MaxHandlers = 6
  MaxDbErrors = 0
  MaxCrashes = 0
INVARIANTS
  VerifiedMeansFixed
CHECK_DEADLOCK FALSE
