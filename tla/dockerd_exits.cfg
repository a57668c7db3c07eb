\* dockerd ends by itself, in every way, also while it is being stopped, while a
\* certificate is uploaded and while the application ends.
SPECIFICATION FairSpec
CONSTANTS
  InitParams <- TlsSelected
  InitCerts <- LacksOneOrMore
  InitStatus = {"NOT STARTED"}
  Changeable = {"DockerdLogLevel"}
  WithCompose = FALSE
  TimeToSigkill = 2
  StopCauses = {"ok", "error", "signal"}
  CrashCauses = {"ok", "error", "signal"}
  MaxStops = 0
  Budget <- ExitsBudget
INVARIANTS
  TypeOK
  SignalledIsWatched
  StopsBeforeExit
PROPERTIES
  ReportedErrorWaitsForOperator
  EndIsNoticed
  SignalExits
\* The application may end, and waits forever once no more events come.
CHECK_DEADLOCK FALSE
