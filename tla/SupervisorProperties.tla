------------------------- MODULE SupervisorProperties -------------------------
(***************************************************************************)
(* What the supervisor of app/dockerdwrapper.c promises its operator, its  *)
(* SD card and its child process.                                          *)
(***************************************************************************)
EXTENDS Supervisor

DeviceType == param \in [Param -> BOOLEAN] /\ certs \in [CertFile -> BOOLEAN]
ChildType ==
  /\ proc \in {"none", "alive", "zombie", "reaped"}
  /\ exitCause \in Cause /\ waitStatus \in Cause
  /\ sig \in {"none", "term", "kill"}
SourcesType ==
  /\ signal \in BOOLEAN /\ paramQueue \in Nat
  /\ timers \in Nat /\ waitTimer \in BOOLEAN
MainloopType ==
  /\ isRunning \in BOOLEAN /\ batch \subseteq Source
  /\ stops \in Seq(0 .. TimeToSigkill + 1)
ReadingType == settings \in [Setting -> BOOLEAN] /\ certIdx \in 1 .. 3
AppType ==
  /\ allow \in BOOLEAN /\ sdArea \in BOOLEAN
  /\ exitCode \in {"keep", "ok", "software", "crash"}
  /\ debugLog \in BOOLEAN /\ ipcShared \in BOOLEAN
ReportType == status \in Status /\ reported \in BOOLEAN

\* Every variable has its type; in particular Status is only ever set to an
\* entry of status_code_strs[].
TypeOK ==
  /\ DeviceType /\ ChildType /\ SourcesType /\ MainloopType /\ ReadingType
  /\ AppType /\ ReportType
  /\ left \in [Event -> Nat]
  /\ pc \in Label
  /\ req \in {"idle", "copying", "stored", "allowed"}
  /\ pendingChange \in BOOLEAN

-------------------------------------------------------------------------------
\* Safety

\* dockerd has been told to end if and only if a stop_dockerd() on the stack has a monitor
\* for it: none returns before dockerd is dead, whatever quits its loop, which would
\* leave the monitor with a pointer into a frame that is gone and nobody to send SIGKILL;
\* and no monitor survives to kill the next dockerd.
SignalledIsWatched ==
  proc = "alive" => (sig # "none" <=> \E i \in DOMAIN stops : stops[i] # 0)

\* main() frees the SD card, stops the FCGI server and returns only when dockerd
\* has ended, however the loop was left.
StopsBeforeExit == pc \in Ending => proc # "alive"

\* A running dockerd is reported as RUNNING, and once this run of the application
\* has written Status, RUNNING means that a child has been spawned whose end has
\* not yet been handled.
StatusTracksDockerd ==
  /\ proc = "alive" => status = "RUNNING"
  /\ status = "RUNNING" /\ reported => proc # "none"

\* A dockerd that keeps its data on the SD card runs only while the card is
\* mounted: sd_card_callback(NULL) does not return before dockerd has ended
\* (sd_disk_storage.h: unmounting fails if the area contains open files).
DataRootOnMountedCard ==
  proc = "alive" /\ settings["SDCardSupport"] => sdArea

\* With an IPC socket to offer, the build with compose has opened the directory
\* of the socket for the other applications for as long as dockerd runs.
IpcSocketIsShared ==
  WithCompose /\ proc = "alive" /\ settings["IPCSocket"] => ipcShared

\* The main loop of main() has nothing left to do.
Idle ==
  /\ pc = "looping" /\ stops = <<>> /\ isRunning /\ batch = {}
  /\ ReadySources \subseteq {"sd"} /\ req = "idle" /\ proc \in {"none", "alive"}

\* Has an event of kind e happened?
Spent(e) == left[e] < Budget[e]

\* What README.md says a value of Status means.
Means(s) ==
  /\ s \notin {"NOT STARTED", "DOCKERD STOPPED"}
  /\ s = "RUNNING" => proc = "alive"
  /\ s = "DOCKERD RUNTIME ERROR" => proc = "none" /\ ~allow
  /\ s = "TLS CERT MISSING" =>
       param["TCPSocket"] /\ param["UseTLS"] /\ \E f \in CertFile : ~certs[f]
  /\ s = "NO SOCKET" => ~param["TCPSocket"] /\ ~param["IPCSocket"]
  /\ s = "NO SD CARD" => param["SDCardSupport"] /\ (~sdArea \/ Spent("setup_failure"))
  /\ s \in {"SD CARD WRONG FS", "SD CARD WRONG PERMISSION"} =>
       param["SDCardSupport"] /\ sdArea /\ Spent("setup_failure")

\* When the application waits for the next event, the reason that Status gives
\* for dockerd's running or not running is the present one: whatever changed
\* since it was written has led to another attempt.
IdleStatusTruth == Idle => Means(status)

\* Has dockerd been started with the present values?
UpToDate ==
  /\ \A p \in {"TCPSocket", "IPCSocket", "SDCardSupport", "DockerdLogLevel"} :
       settings[p] = param[p]
  /\ settings["UseTLS"] = (param["TCPSocket"] /\ param["UseTLS"])

\* When the application waits for the next event, a dockerd that runs has been started
\* with the present settings: no change is forgotten, however it arrived (the part of
\* AppliesChanges that does not need fairness).
IdleIsUpToDate == Idle /\ proc = "alive" => UpToDate

\* After GLib has reported that dockerd ended with an error code, it is not started
\* again before a parameter change or an upload has been announced: no timer, SD
\* card event or stop in progress restarts it (README.md, status 2).
ReportedErrorWaitsForOperator ==
  [][pc = "top" /\ pc' = "read_tcp" => waitStatus # "error" \/ pendingChange]_vars

-------------------------------------------------------------------------------
\* Liveness

\* Every stop_dockerd() returns, with a dockerd that ignores SIGTERM as well:
\* each is inside the main loop that other callbacks quit and re-enter.
StopReturns == \A n \in 1 .. 4 : Len(stops) = n ~> Len(stops) < n

\* Once quit_program() has been called, the application ends.
SignalExits == exitCode # "keep" ~> pc = "done"

Exiting == exitCode # "keep" \/ pc = "done"

\* Every announced change or upload is followed by an attempt to start dockerd.
ChangeIsTried == pendingChange ~> ~pendingChange \/ Exiting \/ pc = "boot"

\* When the changes have come to an end, dockerd runs with the last values or
\* does not run at all.
AppliesChanges == <>[](proc = "alive" => UpToDate \/ Exiting)

-------------------------------------------------------------------------------
\* The inductive invariant behind the safety properties

\* While main() reads the settings and spawns dockerd no earlier dockerd exists,
\* not even one whose end has not been noticed, and starting is allowed.
StartsAlone == pc \in Starting => proc = "none" /\ allow

\* A stop is under way if dockerd has been told to end, and a new one has not been.
Signalled ==
  /\ proc = "alive" => (sig # "none" <=> stops # <<>>)
  /\ pc \in Starting => sig = "none"

\* The call stack: stop_dockerd() is active only inside a main loop, and main()
\* waits for a stop only while its own is.
CallStack ==
  /\ stops # <<>> => pc \in {"looping", "stopping"}
  /\ pc = "stopping" => stops # <<>>

\* monitor_dockerd_termination() has ended a stop only after the child callback
\* has cleared rootlesskit_pid, and no other dockerd has been started since.
EndedStops == \A i \in DOMAIN stops : stops[i] = 0 => proc = "none"

\* GLib dispatches the child watch once for each dockerd.
ChildWatch == "child" \in batch => proc = "reaped"

\* main() starts over, or closes down, only when stop_dockerd() found or made
\* dockerd dead.
DeadAtTop ==
  /\ pc = "top" => proc # "alive"
  /\ pc = "boot" => proc = "none"

\* fcgi_stop() has joined the thread of a request in progress before main() returns.
UploadsEnd == req # "idle" => pc \notin {"boot", "done"}

\* A reported error forbids the next start until the operator has done something.
ErrorForbids == proc = "none" /\ allow => waitStatus # "error" \/ pendingChange

\* The directory of the IPC socket is opened before dockerd is spawned, and closed
\* only when its end is handled.
IpcPrepared ==
  /\ WithCompose /\ settings["IPCSocket"]
  /\ pc \in {"check_sd", "waiting", "data_root", "spawn"} \/ proc = "alive"
  => ipcShared

\* The operator does not change SDCardSupport, and every read of it succeeds.
SdCardIsDecided == "SDCardSupport" \notin Changeable /\ Budget["read_failure"] = 0

\* Then a dockerd that is about to be spawned, or runs, was given the present
\* SDCardSupport, and the area that this takes is there.
RootPrepared ==
  /\ left["read_failure"] = 0
  /\ pc = "spawn" \/ proc = "alive" =>
       /\ settings["SDCardSupport"] = param["SDCardSupport"]
       /\ settings["SDCardSupport"] => sdArea

\* Every attempt to start dockerd writes Status or meets no obstacle, nobody uploads a
\* file, and no runtime error is overwritten by what happens to the SD card.
AttemptsReport ==
  /\ \A e \in {"upload", "read_failure", "chmod_failure", "spawn_failure"} :
       Budget[e] = 0
  /\ MaxStops = 0 \/ "error" \notin StopCauses \cup CrashCauses

\* main() waits in its own loop, or is about to enter it.
Settled == pc = "run" \/ (pc = "looping" /\ stops = <<>> /\ isRunning)

\* A parameter change that has been announced will quit the loop.
Announced == paramQueue > 0 \/ timers > 0

\* What AttemptsReport excludes does not happen.
NoFaults ==
  /\ \A e \in {"upload", "read_failure", "chmod_failure", "spawn_failure"} :
       left[e] = 0
  /\ left["setup_failure"] <= Budget["setup_failure"]
  /\ req = "idle"

\* On a product without a card slot no storage callback runs.
WithoutSlot == MaxStops = 0 => "sd" \notin batch /\ ~InSdCardCallback /\ ~sdArea

\* On the others there are no errors.
NoErrors == MaxStops > 0 => exitCause # "error" /\ waitStatus # "error" /\ allow

\* A dockerd that may not be started has been reported as failed.
ErrorIsShown == ~allow /\ pc \notin Ending => status = "DOCKERD RUNTIME ERROR"

\* While the settings are read, a value that has been read is the present one unless
\* a change of it is announced.
TcpIsPresent ==
  /\ pc \in {"read_tls", "check_certs"} => settings["TCPSocket"]
  /\ pc \in {"read_tls", "check_certs", "read_ipc"} =>
       Announced \/ settings["TCPSocket"] = param["TCPSocket"]
  /\ pc = "check_certs" => Announced \/ param["UseTLS"]

\* What main() has not been told to reconsider is the reason for its waiting.
StatusExplained ==
  Settled /\ proc \in {"none", "alive"} => Announced \/ Means(status)

StatusInv ==
  NoFaults /\ WithoutSlot /\ NoErrors /\ ErrorIsShown /\ TcpIsPresent /\ StatusExplained

\* The operator neither selects nor deselects the SD card, so that the wait for it
\* either never takes place or never ends in a start; and parameters can be read.
NeverWaitsForCard ==
  /\ "SDCardSupport" \notin Changeable /\ Budget["read_failure"] = 0
  /\ MaxStops = 0 \/ \A p \in InitParams : ~p["SDCardSupport"]

\* Then dockerd is started only when the card is not wanted, and nothing has waited ...
CardNotUsed ==
  /\ left["read_failure"] = 0
  /\ param["SDCardSupport"] => MaxStops = 0 /\ pc # "spawn" /\ proc = "none"
  /\ ~param["SDCardSupport"] => pc # "waiting"

\* ... and what has been read so far is present, unless a change of it is announced.
ReadSoFar ==
  LET Known(labels) == pc \in labels \/ proc = "alive" IN
  /\ Known(Starting \ {"read_tcp"}) => settings["TCPSocket"] = param["TCPSocket"]
  /\ pc = "read_tls" => settings["TCPSocket"]
  /\ Known(Starting \ {"read_tcp", "read_tls"})
       => settings["UseTLS"] = (param["TCPSocket"] /\ param["UseTLS"])
  /\ Known({"share_ipc", "check_sd", "data_root", "spawn"})
       => settings["IPCSocket"] = param["IPCSocket"]
  /\ Known({"spawn"}) => settings["SDCardSupport"] = param["SDCardSupport"]
  /\ Known({}) => settings["DockerdLogLevel"] = param["DockerdLogLevel"]

SettingsArePresent ==
  pc \in Starting \/ (Settled /\ proc = "alive") =>
    Announced \/ param["SDCardSupport"] \/ ReadSoFar

SettingsInv == WithoutSlot /\ CardNotUsed /\ SettingsArePresent

Control ==
  /\ CallStack /\ EndedStops /\ ChildWatch /\ DeadAtTop /\ UploadsEnd
  /\ StartsAlone /\ StopsBeforeExit /\ StatusTracksDockerd

-------------------------------------------------------------------------------
\* The abstract life cycle of dockerd, and how the supervisor's state maps to it

Daemon ==
  IF proc = "none" THEN "absent" ELSE IF proc = "alive" THEN "up" ELSE "dead"

Phase ==
  IF pc = "boot" THEN "booting"
  ELSE IF pc = "done" THEN "ended"
  ELSE IF pc \in Ending THEN "closing" ELSE "serving"

Lifecycle == INSTANCE DockerdLifecycle
               WITH daemon <- Daemon, permitted <- allow, phase <- Phase

\* The supervisor implements the life cycle: it never starts a second dockerd, one
\* that is not permitted or one while an earlier end is unnoticed, and it does
\* not close down over a running one.
ImplementsLifecycle == Lifecycle!Spec

\* The end of dockerd is noticed, whichever main loop runs when it happens and
\* whoever collects its wait status.
EndIsNoticed == Lifecycle!EndIsNoticed

===============================================================================
