SPECIFICATION Spec
CONSTANTS
  Services <- Studied
  AutoUpdated = {"cli_debrid", "zurg", "authelia", "mediastorm", "bazarr", "decypharr"}
  MaxVersion = 2
  MaxSetups = 3
  MaxFaults = 1
  MaxKills = 1
  Nothing = Nothing
  Torn = Torn
  Channel = Channel
CHECK_DEADLOCK FALSE
INVARIANTS
  RestoredIsBefore
  PinIsInstalled
  PatchesAreBuilt
