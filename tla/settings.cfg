\* The operator changes the settings; dockerd obeys SIGTERM, late or never.
SPECIFICATION FairSpec
CONSTANTS
  InitParams <- TcpOnly
  InitCerts <- LacksOne
  InitStatus = {"NOT STARTED"}
  Changeable = {"TCPSocket", "UseTLS", "IPCSocket"}
  WithCompose = FALSE
  TimeToSigkill = 2
  StopCauses = {"ok", "signal"}
  CrashCauses = {}
  MaxStops = 0
  Budget <- SettingsBudget
INVARIANTS
  IdleStatusTruth
  IdleIsUpToDate
PROPERTIES
  StopReturns
  SignalExits
  ChangeIsTried
  AppliesChanges
\* The application may end, and waits forever once no more events come.
CHECK_DEADLOCK FALSE
