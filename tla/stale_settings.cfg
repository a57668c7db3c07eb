\* A parameter changes during the wait for the SD card.
SPECIFICATION FairSpec
CONSTANTS
  InitParams <- IpcOnSdCard
  InitCerts <- AllCerts
  InitStatus = {"NOT STARTED"}
  Changeable = {"TCPSocket"}
  WithCompose = FALSE
  TimeToSigkill = 2
  StopCauses = {"ok"}
  CrashCauses = {}
  MaxStops = 1
  Budget <- OneChange
PROPERTIES
  AppliesChanges
\* The application may end, and waits forever once no more events come.
CHECK_DEADLOCK FALSE
