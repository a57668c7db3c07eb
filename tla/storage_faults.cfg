\* Every call that may fail fails once, and the device may lose power, while the SD card
\* comes and goes.
SPECIFICATION SdSpec
CONSTANTS
  InitParams <- IpcOnSdCard
  InitCerts <- AllCerts
  InitStatus = {"RUNNING"}
  Changeable = {}
  WithCompose = TRUE
  TimeToSigkill = 1
  StopCauses = {"ok", "signal"}
  CrashCauses = {}
  MaxStops = 9
  Budget <- FailuresBudget
  CardMoves <- InAndOut
  MaxMoves = 2
  Faults = {"subscribe", "event", "status", "ask", "setup", "path"}
INVARIANTS
  StorageControl
  StatusTracksDockerd
\* The application may end, and waits forever once no more events come.
CHECK_DEADLOCK FALSE
