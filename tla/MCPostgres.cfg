CONSTANTS
  Kinds = {"infinidysk", "arr", "plain"}
  Jobs = {1, 2, 3}
  OpenKinds = {}
  CrashKinds = {"infinidysk", "plain"}
  FaultAt <- StepFaults
  MaxFaults = 1
  MaxCrashes = 1
  MaxUpgrades = 1
SPECIFICATION Spec
CONSTRAINT Sound
CHECK_DEADLOCK FALSE
INVARIANTS
  TypeOK
  NoSplitBrain
  OneWorker
PROPERTIES
  BootsOnItsData
  CutoverKeepsWrites
  RolledBackIsSqlite
