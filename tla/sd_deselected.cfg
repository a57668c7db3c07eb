\* SDCardSupport is set to no, then the card is removed.
SPECIFICATION Spec
CONSTANTS
  InitParams <- IpcOnSdCard
  InitCerts <- AllCerts
  InitStatus = {"NOT STARTED"}
  Changeable = {"SDCardSupport"}
  WithCompose = FALSE
  TimeToSigkill = 2
  StopCauses = {"ok"}
  CrashCauses = {}
  MaxStops = 1
  Budget <- OneChange
INVARIANTS
  DataRootOnMountedCard
\* The application may end, and waits forever once no more events come.
CHECK_DEADLOCK FALSE
