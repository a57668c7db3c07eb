\* dockerd fails within a second of a parameter change.
SPECIFICATION FairSpec
CONSTANTS
  InitParams <- TcpOnly
  InitCerts <- AllCerts
  InitStatus = {"NOT STARTED"}
  Changeable = {"DockerdLogLevel"}
  WithCompose = FALSE
  TimeToSigkill = 2
  StopCauses = {"ok"}
  CrashCauses = {"error"}
  MaxStops = 0
  Budget <- ChangeAndExit
PROPERTIES
  ChangeIsTried
\* The application may end, and waits forever once no more events come.
CHECK_DEADLOCK FALSE
