SPECIFICATION Spec
CONSTANTS
  n1 = n1  n2 = n2  p1 = p1  p2 = p2  p3 = p3  r1 = r1  r2 = r2
  Names = {n1}
  Pids = {p1, p2}
  Needs <- NoNeeds
  ApiThreads = {a1, a2}
  BootThreads = {}
  RestartThreads = {r1, r2}
  ShutdownThreads = {s1}
  Main = Main
  Monitor = Monitor
  MaxRestarts = 1
  MaxRequests = 2
  MaxCrashes = 1
  MaxMigrations = 0
  MayShutDown = TRUE
  NoPid = NoPid  NoName = NoName  NoThread = NoThread
CHECK_DEADLOCK FALSE
SYMMETRY Interchangeable
INVARIANTS TypeOK ChildrenTracked StoppedStaysStopped RestartBudget
PROPERTIES ExitDuringStopPlanned
