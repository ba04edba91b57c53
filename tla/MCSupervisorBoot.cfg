SPECIFICATION Spec
CONSTANTS
  n1 = n1  n2 = n2  p1 = p1  p2 = p2  p3 = p3  r1 = r1  r2 = r2
  Names = {n1}
  Pids = {p1, p2, p3}
  Needs <- NoNeeds
  ApiThreads = {a1}
  BootThreads = {b1}
  RestartThreads = {r1}
  ShutdownThreads = {}
  Main = Main
  Monitor = Monitor
  MaxRestarts = 1
  MaxRequests = 2
  MaxCrashes = 1
  MaxMigrations = 1
  MayShutDown = FALSE
  NoPid = NoPid  NoName = NoName  NoThread = NoThread
CHECK_DEADLOCK FALSE
SYMMETRY Interchangeable
PROPERTIES AdmissionHonoured
