CONSTANTS
  Kinds = {"arr"}
  Jobs = {1}
  OpenKinds = {}
  CrashKinds = {"arr"}
  FaultAt <- StepFaults
  MaxFaults = 0
  MaxCrashes = 1
  MaxUpgrades = 0
SPECIFICATION Spec
CHECK_DEADLOCK FALSE
PROPERTY
  BootsOnItsData
