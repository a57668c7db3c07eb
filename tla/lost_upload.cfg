\* The missing certificate is uploaded while the settings are being read.
SPECIFICATION Spec
CONSTANTS
  InitParams <- TlsSelected
  InitCerts <- LacksOne
  InitStatus = {"NOT STARTED"}
  Changeable = {}
  WithCompose = FALSE
  TimeToSigkill = 2
  StopCauses = {"ok"}
  CrashCauses = {}
  MaxStops = 0
  Budget <- OneUpload
INVARIANTS
  IdleStatusTruth
\* The application may end, and waits forever once no more events come.
CHECK_DEADLOCK FALSE
