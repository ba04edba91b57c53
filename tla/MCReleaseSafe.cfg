SPECIFICATION Spec
CONSTANTS
  Last = 3
  Absent = Absent
  Torn = Torn
  MaxFaults = 3
  MaxCrashes = 3
  FaultAt <- Survivable
INVARIANTS
  TypeOK
  KnownGoodRecoverable
  BackupsJournaled
  RecoveredBeforeWork
  RolledBackMeansRestored
PROPERTY
  ImplementsAtomicInstall
CHECK_DEADLOCK FALSE
