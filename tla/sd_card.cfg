\* The SD card comes and goes while dockerd keeps its data on it.
SPECIFICATION SdFairSpec
CONSTANTS
  InitParams <- IpcOnSdCard
  InitCerts <- AllCerts
  InitStatus = {"NOT STARTED"}
  Changeable = {}
  WithCompose = FALSE
  TimeToSigkill = 1
  StopCauses = {"ok"}
  CrashCauses = {"signal"}
  MaxStops = 9
  Budget <- SdBudget
  CardMoves <- InAndOut
  MaxMoves = 3
  Faults = {}
INVARIANTS
  SdTypeOK
  DataRootOnMountedCard
  StatusTracksDockerd
  IdleStatusTruth
PROPERTIES
  UnmountFindsCardUnused
  ReleasedAfterUse
  CardBecomesKnown
  StopReturns
\* The application may end, and waits forever once no more events come.
CHECK_DEADLOCK FALSE
