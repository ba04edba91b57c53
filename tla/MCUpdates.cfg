SPECIFICATION Spec
CONSTANTS
  arr = arr
  frontend = frontend
  seerr = seerr
  emby = emby
  Services = {arr, frontend, seerr, emby}
  Family <- MCFamily
  Candidates = {frontend}
  Unprotected = {emby}
  DataInTarget = {arr}
  RuntimeElsewhere = {arr}
  Dependencies <- Nothing
  Mounts <- Nothing
  Boots = {b1}
  Requests = {r1}
  Scheduler = scheduler
  Nobody = nobody
  Asked = {"update", "override", "prerelease", "configured", "stop", "start"}
  Choices <- MCChoices
  Configured <- MCConfigured
  Modes = {"check_only", "install"}
  MaxVersion = 2
  MaxWrites = 1
  MaxSaves = 1
  MaxRequests = 1
  MaxFaults = 1
  Down = down
  Torn = torn
  Api = api
INVARIANTS TypeOK OverrideIsTemporary
PROPERTIES PinnedNotUpdated FailedUpdateKeepsService
CHECK_DEADLOCK FALSE
