\* Clients upload and delete certificates while dockerd is started, the application ends
\* and calls fail.
SPECIFICATION FcgiFairSpec
CONSTANTS
  InitParams <- TlsSelected
  InitCerts <- LacksKey
  InitStatus = {"NOT STARTED"}
  Changeable = {}
  WithCompose = FALSE
  TimeToSigkill = 1
  StopCauses = {"ok"}
  CrashCauses = {}
  MaxStops = 0
  Budget <- FcgiBudget
  CertBody = {"cert"}
  KeyBody = {"key"}
  OtherBody = {"junk"}
  InitFiles <- KeyIsMissing
  Requests <- SomeRequests
  MaxRequests = 2
  FcgiFaults = {"upload", "copy", "remove"}
INVARIANTS
  FcgiTypeOK
  ThreadEndsFirst
  LeavesNoTempFile
PROPERTIES
  ImplementsStore
  RequestsAreServed
  ServerStops
\* The application may end, and waits forever once no more events come.
CHECK_DEADLOCK FALSE
