SPECIFICATION FairSpec
CONSTANTS
  s1 = s1  s2 = s2  m1 = m1
  Stores = {s1}
  Media = {m1}
  Readers <- AllRead
  ApiThreads = {a1}
  UpdateThreads = {}
  OutageThreads = {o1}
  Monitor = Monitor
  MaxIncidents = 2
  MaxFaults = 1
  MaxOutages = 1
  MaxCrashes = 1
  MaxMigrations = 1
  CrashAt <- SafeCrash
  PartialGuards = FALSE
  NoStore = NoStore  NoMedia = NoMedia  NoThread = NoThread
CHECK_DEADLOCK FALSE
PROPERTIES EventuallyRecovered
