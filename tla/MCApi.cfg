SPECIFICATION ApiSpec
CONSTANTS
  Users = {"ada", "bob"}
  Sessions = {"s1", "s2"}
  Requests = {"r1", "r2"}
  AskedFor = {"approve", "view_findings"}
  RoleOf <- MCRoleOf
  Lifetime = 1
  MaxTime = 2
  FindingList <- MCFindingList
  DojoWorkers = {"w1", "w2"}
  MaxCalls = 3
  MaxFaults = 2
  Readers = {"ada", "bob"}
  ReadWorkers = {"w1", "w2"}
  Reviewed = {"f1"}
  MaxLevel = 2
  MaxEvents = 2
  MaxMarks = 3
  BenchRequests = {"q1", "q2", "q3"}
  Reports = {"one", "another"}
  MaxRowErrors = 1
  MaxBenchRestarts = 2
INVARIANTS
  DuplicatesHaveACause
  TicketsTellTheTruth
  OkMeansRead
  AnsweredReportsSurvive
PROPERTIES
  SessionRefinesLifecycle
CHECK_DEADLOCK FALSE
