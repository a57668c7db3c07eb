\* Every call that may fail fails once, and the device may lose power.
SPECIFICATION Spec
CONSTANTS
  InitParams <- IpcOnSdCard
  InitCerts <- AllCerts
  InitStatus = {"RUNNING"}
  Changeable = {}
  WithCompose = TRUE
  TimeToSigkill = 1
  StopCauses = {"ok", "signal"}
  CrashCauses = {}
  MaxStops = 2
  Budget <- FailuresBudget
INVARIANTS
  IpcSocketIsShared
  SignalledIsWatched
PROPERTIES
  ImplementsLifecycle
\* The application may end, and waits forever once no more events come.
CHECK_DEADLOCK FALSE
