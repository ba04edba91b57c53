CONSTANTS
  Provider = provider
  Prowlarrs = {prowlarr}
  Requesters = {seerr}
  Arrs = {arr}
  Media = {plex}
  Paths = 2
  FaultAt <- StepFaults
  MaxFaults = 1
  MaxCrashes = 1
  MaxPreflights = 2
  MaxRequests = 2
  RemindAt = {"idle"}
SPECIFICATION Spec
CHECK_DEADLOCK FALSE
INVARIANTS
  UnsafeIsFrozen
  RecoveryHasBundle
  PauseIsRecorded
PROPERTIES
  CutoverIsQuiet
  CleanRollbackRestores
  CompletionIsWhole
  AdmissionHonoured
