------------------------------ MODULE Supervisor ------------------------------
(***************************************************************************)
(* The supervisor of app/dockerdwrapper.c: the main thread that reads the  *)
(* settings, starts rootlesskit/dockerd, waits in a GLib main loop for a   *)
(* reason to restart it, stops it and starts over, together with           *)
(* everything that interleaves with it: the operator's parameter changes,  *)
(* the SD card's events, the FCGI thread that stores certificates,         *)
(* termination signals, and dockerd itself.                                *)
(*                                                                         *)
(* The one GMainLoop is run from four places: main(), the wait for the SD  *)
(* card in read_settings(), stop_dockerd() called by main(), and           *)
(* stop_dockerd() called by sd_card_callback(), which is itself dispatched *)
(* by one of the other three.  All of them share one is_running flag: that *)
(* sharing is what most properties below are about.                        *)
(***************************************************************************)
EXTENDS Naturals, Sequences, FiniteSets, SequencesExt

CONSTANTS
  InitParams,      \* the parameter values the application may find at start
  InitCerts,       \* the certificate files it may find in localdata
  InitStatus,      \* the Status values a previous run may have left behind
  Changeable,      \* the parameters the operator changes
  WithCompose,     \* is APP_NAME "dockerdwrapperwithcompose"?
  TimeToSigkill,   \* time_to_wait_before_sigkill (13 in the code)
  StopCauses,      \* how dockerd may end when it is asked to
  CrashCauses,     \* how dockerd may end by itself
  MaxStops,        \* how deep sd_card_callback() nests calls of stop_dockerd();
                   \* 0: the product has no SD card slot
  Budget           \* how often each outside event happens: bounds the model

\* params_that_restart_dockerd: a change of any of them calls back.  "yes" of a
\* Boolean parameter and "debug" of a log level are TRUE.
Param == {"ApplicationLogLevel", "DockerdLogLevel", "IPCSocket",
          "SDCardSupport", "TCPSocket", "UseTLS"}

\* What dockerd is started with: struct settings and the --log-level argument.
Setting == Param \ {"ApplicationLogLevel"}

\* tls_certs[], in the order in which tls_missing_certs() looks for them.
CertFiles == <<"ca.pem", "server-cert.pem", "server-key.pem">>
CertFile == {"ca.pem", "server-cert.pem", "server-key.pem"}

\* status_code_strs[]
Status == {"NOT STARTED", "RUNNING", "DOCKERD STOPPED", "DOCKERD RUNTIME ERROR",
           "TLS CERT MISSING", "NO SOCKET", "NO SD CARD", "SD CARD WRONG FS",
           "SD CARD WRONG PERMISSION"}

\* How a process ends: exit code 0, another exit code, or a signal.
Cause == {"ok", "error", "signal"}

\* Everything that happens to the application without its doing.
Event == {"param", "upload", "delete", "signal", "exit", "power_loss",
          "read_failure", "chmod_failure", "setup_failure", "resolve_failure",
          "spawn_failure", "boot_failure", "copy_failure"}

\* The kinds of GSource attached to the main context.
Source == {"signal", "param", "sd", "timer", "wait", "monitor", "child"}

\* The control points of the main thread: inside read_settings() and
\* start_dockerd(), inside g_main_loop_run(), and after the loop of main().
Starting == {"read_tcp", "read_tls", "check_certs", "read_ipc", "share_ipc",
             "check_sd", "waiting", "data_root", "spawn"}
Loops == {"looping", "waiting", "stopping"}
Ending == {"teardown", "join", "done"}
Label == {"boot", "top", "run", "stop"} \cup Starting \cup Loops \cup Ending

ASSUME ConstantsAssumption ==
  /\ InitParams \subseteq [Param -> BOOLEAN]
  /\ InitCerts \subseteq [CertFile -> BOOLEAN]
  /\ InitStatus \subseteq Status
  /\ Changeable \subseteq Param
  /\ WithCompose \in BOOLEAN
  /\ TimeToSigkill \in Nat \ {0}
  /\ StopCauses \subseteq Cause
  /\ CrashCauses \subseteq Cause
  /\ MaxStops \in Nat
  /\ Budget \in [Event -> Nat]
  /\ Budget["signal"] <= 1  \* handle_signals() is one-shot

VARIABLES
  \* outside the process
  param,         \* the parameter server's values
  status,        \* the Status parameter
  certs,         \* which certificate files exist in localdata
  left,          \* how much of Budget is left
  \* the child process
  proc,          \* none (rootlesskit_pid = 0), alive, zombie, or reaped
  exitCause,     \* how it really ended; "ok" again once a new one is attempted
  waitStatus,    \* the wait status that GLib hands to the callback; likewise
  sig,           \* the strongest signal sent to it; likewise
  \* the sources of the main context
  signal,        \* a SIGTERM or SIGINT waits to be handled
  paramQueue,    \* queued calls of restart_dockerd_when_parameter_changed()
  timers,        \* armed 1 s timers of quit_main_loop()
  waitTimer,     \* the 5 s timer of read_settings()
  \* the main loop
  isRunning,     \* GMainLoop.is_running
  batch,         \* sources the current iteration still has to dispatch
  stops,         \* time_since_sigterm of each stop_dockerd() on the stack
  \* the main thread
  pc,
  settings,      \* struct settings; afterwards, what dockerd was started with
  certIdx,       \* the loop variable of tls_missing_certs()
  allow,         \* app_state.allow_dockerd_to_start_atomic
  sdArea,        \* is app_state.sd_card_area set?
  exitCode,      \* application_exit_code
  debugLog,      \* debug_log_enabled of log.c
  ipcShared,     \* may other applications enter the XDG runtime directory?
  \* the FCGI thread
  req,           \* idle, copying (a new file is being written to localdata), stored,
                 \* allowed
  \* history, for the properties only
  pendingChange, \* an announced change or upload not yet followed by an attempt
  reported       \* has this run of the application written Status?

device == <<param, certs>>
child == <<proc, exitCause, waitStatus, sig>>
sources == <<signal, paramQueue, timers, waitTimer>>
mainloop == <<isRunning, batch, stops>>
reading == <<settings, certIdx>>
app == <<allow, sdArea, exitCode, debugLog, ipcShared>>
report == <<status, reported>>

vars == <<device, left, child, sources, mainloop, pc, reading, app, req,
          report, pendingChange>>

-------------------------------------------------------------------------------
\* Helpers.  A definition whose name ends in _Bug is what a plausible mistake in the
\* code would make of the one that follows it; no action uses it.

Spend(e) == left[e] > 0 /\ left' = [left EXCEPT ![e] = @ - 1]

set_status_parameter(s) == status' = s /\ reported' = TRUE

main_loop_quit == isRunning' = FALSE

quit_program_Bug(code) == exitCode' = code /\ UNCHANGED isRunning
quit_program(code) == exitCode' = code /\ main_loop_quit

\* The calls of g_main_loop_run() dropped: the loop returns at once.
main_loop_run_Bug == isRunning' = FALSE /\ batch' = {}

\* g_main_loop_run() forgets any main_loop_quit() that came before it.
main_loop_run == isRunning' = TRUE /\ batch' = {}

\* The loop that is innermost has been quit and its last iteration is over.
LoopIsOver == ~isRunning /\ batch = {}

\* A parameter that cannot be fetched counts as "no".
is_parameter_yes(p, yes) ==
  \/ yes = param[p] /\ UNCHANGED left
  \/ param[p] /\ ~yes /\ Spend("read_failure")

\* waitpid(..., WNOHANG) succeeds on a zombie, and takes its wait status away
\* from the child watch: GLib then reports what counts as a clean exit.
is_process_alive_Bug == FALSE
is_process_alive == proc = "alive"
is_process_alive_Reap ==
  IF proc = "zombie"
    THEN proc' = "reaped" /\ waitStatus' = "ok" /\ UNCHANGED <<exitCause, sig>>
    ELSE UNCHANGED child

\* exit_cause.signal tested instead of exit_cause.code
child_process_exited_with_error_Bug(s) == s = "signal"
child_process_exited_with_error(s) == s = "error"

with_compose_Bug == ~WithCompose
with_compose == WithCompose

\* Send SIGTERM, arm a monitor timer that counts from 1, run the main loop.
stop_dockerd_Begin ==
  /\ is_process_alive
  /\ sig' = IF sig = "kill" THEN "kill" ELSE "term"
  /\ stops' = Append(stops, 1)
  /\ main_loop_run
  /\ UNCHANGED <<proc, exitCause, waitStatus>>

\* An if instead of the while around its main loop
StopIsOver_Bug == TRUE
StopIsOver == Last(stops) = 0

\* Is the innermost stop_dockerd() the one that sd_card_callback() called?
InSdCardCallback == Len(stops) > (IF pc = "stopping" THEN 1 ELSE 0)

-------------------------------------------------------------------------------
Init ==
  /\ param \in InitParams /\ certs \in InitCerts /\ status \in InitStatus
  /\ left = Budget
  /\ proc = "none" /\ exitCause = "ok" /\ waitStatus = "ok" /\ sig = "none"
  /\ signal = FALSE /\ paramQueue = 0
  /\ timers = 0 /\ waitTimer = FALSE
  /\ isRunning = FALSE /\ batch = {} /\ stops = <<>>
  /\ pc = "boot"
  /\ settings = [p \in Setting |-> FALSE] /\ certIdx = 1
  /\ allow = TRUE /\ sdArea = FALSE /\ exitCode = "keep"
  /\ debugLog = FALSE /\ ipcShared = FALSE
  /\ req = "idle"
  /\ pendingChange = FALSE /\ reported = FALSE

-------------------------------------------------------------------------------
\* main(): initialisation, the restart loop and the teardown

\* setup_axparameter(), set_env_variables() or fcgi_start() may fail; main()
\* then returns at once.
main_Boot ==
  /\ pc = "boot"
  /\ \E debug \in BOOLEAN :
       /\ is_parameter_yes("ApplicationLogLevel", debug)
       /\ debugLog' = debug
  /\ pc' = "top"
  /\ UNCHANGED <<device, child, sources, mainloop, reading, allow, sdArea,
                 exitCode, ipcShared, req, report, pendingChange>>

main_BootFails ==
  /\ pc = "boot"
  /\ Spend("boot_failure")
  /\ exitCode' = "software"
  /\ pc' = "done"
  /\ UNCHANGED <<device, child, sources, mainloop, reading, allow, sdArea,
                 debugLog, ipcShared, req, report, pendingChange>>

main_MayStart == proc = "none" /\ allow

\* The condition of the while loop and of the if in its body.
main_Top ==
  /\ pc = "top"
  /\ \/ /\ exitCode # "keep"
        /\ pc' = "teardown"
        /\ UNCHANGED <<child, pendingChange>>
     \/ /\ exitCode = "keep" /\ main_MayStart
        /\ pc' = "read_tcp"
        /\ exitCause' = "ok" /\ waitStatus' = "ok" /\ sig' = "none"
        /\ pendingChange' = FALSE
        /\ UNCHANGED proc
     \/ /\ exitCode = "keep" /\ ~main_MayStart
        /\ pc' = "run"
        /\ UNCHANGED <<child, pendingChange>>
  /\ UNCHANGED <<device, left, sources, mainloop, reading, app, req, report>>

main_Run ==
  /\ pc = "run"
  /\ pc' = "looping"
  /\ main_loop_run
  /\ UNCHANGED <<device, left, child, sources, stops, reading, app, req, report,
                 pendingChange>>

main_LoopReturned ==
  /\ pc = "looping" /\ stops = <<>> /\ LoopIsOver
  /\ \E debug \in BOOLEAN :
       /\ is_parameter_yes("ApplicationLogLevel", debug)
       /\ debugLog' = debug
  /\ pc' = "stop"
  /\ UNCHANGED <<device, child, sources, mainloop, reading, allow, sdArea,
                 exitCode, ipcShared, req, report, pendingChange>>

\* sd_disk_storage_free(), then FCGX_ShutdownPending() and shutdown().
main_Teardown ==
  /\ pc = "teardown"
  /\ pc' = "join"
  /\ UNCHANGED <<device, left, child, sources, mainloop, reading, app, req,
                 report, pendingChange>>

\* g_thread_join() waits for the request in progress.
main_Exit ==
  /\ pc = "join" /\ req = "idle"
  /\ set_status_parameter("NOT STARTED")
  /\ pc' = "done"
  /\ UNCHANGED <<device, left, child, sources, mainloop, reading, app, req,
                 pendingChange>>

-------------------------------------------------------------------------------
\* read_settings() and start_dockerd()

read_settings_TCP ==
  /\ pc = "read_tcp"
  /\ \E yes \in BOOLEAN :
       /\ is_parameter_yes("TCPSocket", yes)
       /\ settings' = [settings EXCEPT !["TCPSocket"] = yes, !["UseTLS"] = FALSE]
       /\ pc' = IF yes THEN "read_tls" ELSE "read_ipc"
  /\ UNCHANGED <<device, child, sources, mainloop, certIdx, app, req, report,
                 pendingChange>>

get_and_verify_tls_selection ==
  /\ pc = "read_tls"
  /\ \E yes \in BOOLEAN :
       /\ is_parameter_yes("UseTLS", yes)
       /\ settings' = [settings EXCEPT !["UseTLS"] = yes]
       /\ pc' = IF yes THEN "check_certs" ELSE "read_ipc"
  /\ certIdx' = 1
  /\ UNCHANGED <<device, child, sources, mainloop, app, req, report, pendingChange>>

\* One file at a time: the FCGI thread may store or delete one in between.
tls_missing_certs ==
  /\ pc = "check_certs"
  /\ IF certs[CertFiles[certIdx]]
       THEN /\ certIdx' = IF certIdx = 3 THEN 1 ELSE certIdx + 1
            /\ pc' = IF certIdx = 3 THEN "read_ipc" ELSE "check_certs"
            /\ UNCHANGED report
       ELSE /\ set_status_parameter("TLS CERT MISSING")
            /\ certIdx' = 1
            /\ pc' = "run"
  /\ UNCHANGED <<device, left, child, sources, mainloop, settings, app, req,
                 pendingChange>>

read_settings_IPC ==
  /\ pc = "read_ipc"
  /\ \E yes \in BOOLEAN :
       /\ is_parameter_yes("IPCSocket", yes)
       /\ settings' = [settings EXCEPT !["IPCSocket"] = yes]
       /\ IF ~yes /\ ~settings["TCPSocket"]
            THEN set_status_parameter("NO SOCKET") /\ pc' = "run"
            ELSE UNCHANGED report
                 /\ pc' = IF yes /\ with_compose THEN "share_ipc" ELSE "check_sd"
  /\ UNCHANGED <<device, child, sources, mainloop, certIdx, app, req, pendingChange>>

\* let_other_apps_use_our_ipc_socket().  When it fails, quit_program() is called
\* before the main loop of main() has been entered.
read_settings_ShareIPC ==
  /\ pc = "share_ipc"
  /\ ipcShared' = TRUE
  /\ pc' = "check_sd"
  /\ UNCHANGED <<device, left, child, sources, mainloop, reading, allow, sdArea,
                 exitCode, debugLog, req, report, pendingChange>>

read_settings_ShareIPCFails ==
  /\ pc = "share_ipc"
  /\ Spend("chmod_failure")
  /\ quit_program("software")
  /\ pc' = "run"
  /\ UNCHANGED <<device, child, sources, batch, stops, reading, allow, sdArea,
                 debugLog, ipcShared, req, report, pendingChange>>

read_settings_SD ==
  /\ pc = "check_sd"
  /\ \E yes \in BOOLEAN :
       /\ is_parameter_yes("SDCardSupport", yes)
       /\ IF yes /\ ~sdArea
            THEN waitTimer' = TRUE /\ main_loop_run /\ pc' = "waiting"
            ELSE UNCHANGED <<waitTimer, isRunning, batch>> /\ pc' = "data_root"
  /\ UNCHANGED <<device, child, signal, paramQueue, timers, stops,
                 reading, app, req, report, pendingChange>>

\* Whatever has quit the loop, the wait is over and its timer removed.
read_settings_WaitReturned ==
  /\ pc = "waiting" /\ LoopIsOver
  /\ waitTimer' = FALSE
  /\ pc' = "data_root"
  /\ UNCHANGED <<device, left, child, signal, paramQueue, timers,
                 mainloop, reading, app, req, report, pendingChange>>

prepare_data_root ==
  /\ pc = "data_root"
  /\ \E yes \in BOOLEAN :
       /\ is_parameter_yes("SDCardSupport", yes)
       /\ IF yes /\ ~sdArea
            THEN set_status_parameter("NO SD CARD") /\ pc' = "run" /\ UNCHANGED settings
            ELSE /\ settings' = [settings EXCEPT !["SDCardSupport"] = yes]
                 /\ pc' = "spawn"
                 /\ UNCHANGED report
  /\ UNCHANGED <<device, child, sources, mainloop, certIdx, app, req, pendingChange>>

\* What the card turned out to be, when setup_sdcard() fails.
setup_sdcard_Fails ==
  /\ pc = "data_root"
  /\ param["SDCardSupport"] /\ sdArea
  /\ Spend("setup_failure")
  /\ \E s \in {"NO SD CARD", "SD CARD WRONG FS", "SD CARD WRONG PERMISSION"} :
       set_status_parameter(s)
  /\ pc' = "run"
  /\ UNCHANGED <<device, child, sources, mainloop, reading, app, req, pendingChange>>

\* build_daemon_args() reads the log level, then rootlesskit is spawned.
start_dockerd ==
  /\ pc = "spawn"
  /\ settings' = [settings EXCEPT !["DockerdLogLevel"] = param["DockerdLogLevel"]]
  /\ proc' = "alive"
  /\ set_status_parameter("RUNNING")
  /\ pc' = "run"
  /\ UNCHANGED <<device, left, exitCause, waitStatus, sig, sources, mainloop,
                 certIdx, app, req, pendingChange>>

\* Status is written before the result of the spawn is looked at.
start_dockerd_Fails_Bug ==
  /\ pc = "spawn"
  /\ Spend("spawn_failure")
  /\ set_status_parameter("RUNNING")
  /\ pc' = "run"
  /\ UNCHANGED <<device, child, sources, mainloop, reading, app, req, pendingChange>>

start_dockerd_Fails ==
  /\ pc = "spawn"
  /\ Spend("spawn_failure")
  /\ set_status_parameter("NOT STARTED")
  /\ pc' = "run"
  /\ UNCHANGED <<device, child, sources, mainloop, reading, app, req, pendingChange>>

\* build_daemon_args() compares a log level it could not fetch, strcmp(NULL), and asks
\* for the address of a host that gethostbyname() has not found, which is NULL too.
build_daemon_args_Crashes ==
  /\ pc = "spawn"
  /\ Spend("read_failure") \/ Spend("resolve_failure")
  /\ exitCode' = "crash"
  /\ req' = "idle"
  /\ pc' = "done"
  /\ UNCHANGED <<device, child, sources, mainloop, reading, allow, sdArea,
                 debugLog, ipcShared, report, pendingChange>>

-------------------------------------------------------------------------------
\* stop_dockerd()

main_StopDockerd ==
  /\ pc = "stop"
  /\ \/ stop_dockerd_Begin /\ pc' = "stopping"
     \/ /\ ~is_process_alive
        /\ is_process_alive_Reap
        /\ pc' = "top"
        /\ UNCHANGED mainloop
  /\ UNCHANGED <<device, left, sources, reading, app, req, report, pendingChange>>

\* while (time_since_sigterm != 0): the loop was quit by something else.
stop_dockerd_KeepWaiting ==
  /\ stops # <<>> /\ ~StopIsOver /\ LoopIsOver
  /\ main_loop_run
  /\ UNCHANGED <<device, left, child, sources, stops, pc, reading, app, req,
                 report, pendingChange>>

stop_dockerd_Returns ==
  /\ pc = "stopping" /\ Len(stops) = 1 /\ StopIsOver /\ LoopIsOver
  /\ stops' = Front(stops)
  /\ pc' = "top"
  /\ UNCHANGED <<device, left, child, sources, isRunning, batch, reading, app,
                 req, report, pendingChange>>

\* The rest of sd_card_callback(), once its stop_dockerd() has returned: the storage
\* callback that made the call goes on.
sd_card_callback_Resumes ==
  /\ InSdCardCallback /\ StopIsOver /\ LoopIsOver
  /\ stops' = Front(stops)
  /\ set_status_parameter("NO SD CARD")
  /\ sdArea' = FALSE
  /\ main_loop_quit
  /\ batch' = {"sd"}
  /\ UNCHANGED <<device, left, child, sources, pc, reading, allow, exitCode,
                 debugLog, ipcShared, req, pendingChange>>

-------------------------------------------------------------------------------
\* One iteration of whichever main loop is innermost: GLib collects sources that
\* are ready, then dispatches them all before it looks at is_running again.

ReadySources ==
  {k \in Source :
     CASE k = "signal"  -> signal
       [] k = "param"   -> paramQueue > 0
       [] k = "sd"      -> MaxStops > 0
       [] k = "timer"   -> timers > 0
       [] k = "wait"    -> waitTimer
       [] k = "monitor" -> \E i \in DOMAIN stops : stops[i] # 0
       [] k = "child"   -> proc = "reaped"}

Iterate ==
  /\ pc \in Loops /\ isRunning /\ batch = {}
  /\ batch' \in (SUBSET ReadySources) \ {{}}
  /\ UNCHANGED <<device, left, child, sources, isRunning, stops, pc, reading, app,
                 req, report, pendingChange>>

Dispatched(k) == pc \in Loops /\ k \in batch /\ batch' = batch \ {k}

handle_signals ==
  /\ Dispatched("signal")
  /\ signal' = FALSE
  /\ quit_program("ok")
  /\ UNCHANGED <<device, left, child, paramQueue, timers, waitTimer,
                 stops, pc, reading, allow, sdArea, debugLog, ipcShared, req,
                 report, pendingChange>>

\* Arm a 1 s timer for each of n callbacks.
ArmTimers_Bug(n) == UNCHANGED timers
ArmTimers(n) == timers' = timers + n

\* Any number of the queued callbacks are handled in one go.
restart_dockerd_when_parameter_changed ==
  /\ Dispatched("param")
  /\ \E n \in 1 .. paramQueue :
       paramQueue' = paramQueue - n /\ ArmTimers(n)
  /\ allow' = TRUE
  /\ pendingChange' = TRUE
  /\ UNCHANGED <<device, left, child, signal, waitTimer, isRunning,
                 stops, pc, reading, sdArea, exitCode, debugLog, ipcShared, req,
                 report>>

\* The 1 s timers: those that were armed close together expire together.
quit_main_loop ==
  /\ Dispatched("timer")
  /\ timers' \in 0 .. timers - 1
  /\ main_loop_quit
  /\ UNCHANGED <<device, left, child, signal, paramQueue, waitTimer,
                 stops, pc, reading, app, req, report, pendingChange>>

\* The 5 s timer of read_settings().
quit_main_loop_Wait ==
  /\ Dispatched("wait")
  /\ waitTimer' = FALSE
  /\ main_loop_quit
  /\ UNCHANGED <<device, left, child, signal, paramQueue, timers, stops,
                 pc, reading, app, req, report, pendingChange>>

KillDue_Bug(t) == t > TimeToSigkill + 1
KillDue(t) == t > TimeToSigkill

\* What the comment of monitor_dockerd_termination() says is sent
LastSignal_Bug == "term"
LastSignal == "kill"

\* The counter stops where it no longer changes what the timer does.
monitor_dockerd_termination ==
  /\ Dispatched("monitor")
  /\ \E i \in DOMAIN stops :
       /\ stops[i] # 0
       /\ IF proc = "none"
            THEN stops' = [stops EXCEPT ![i] = 0] /\ main_loop_quit /\ UNCHANGED sig
            ELSE LET t == IF KillDue(stops[i]) THEN stops[i] ELSE stops[i] + 1 IN
                 /\ stops' = [stops EXCEPT ![i] = t]
                 /\ sig' = IF KillDue(t) /\ proc = "alive" THEN LastSignal ELSE sig
                 /\ UNCHANGED isRunning
  /\ UNCHANGED <<device, left, proc, exitCause, waitStatus, sources, pc, reading,
                 app, req, report, pendingChange>>

check_child_process_exit_code_and_clean_up ==
  /\ Dispatched("child")
  /\ LET runtime_error == child_process_exited_with_error(waitStatus) IN
       /\ allow' = ~runtime_error
       /\ set_status_parameter(IF runtime_error THEN "DOCKERD RUNTIME ERROR"
                                                ELSE "DOCKERD STOPPED")
  /\ proc' = "none"
  /\ ipcShared' = FALSE
  /\ main_loop_quit
  /\ UNCHANGED <<device, left, exitCause, waitStatus, sig, sources, stops, pc,
                 reading, sdArea, exitCode, debugLog, req, pendingChange>>

\* A callback of the SD card storage is running: it calls sd_card_callback() any
\* number of times, with the card's area or with NULL, and then returns.
InStorageCallback == pc \in Loops /\ "sd" \in batch

\* Restart dockerd from main() if it uses, or is to use, the SD card.
QuitIfUsed_Bug(using_sd_card) == UNCHANGED isRunning
QuitIfUsed(using_sd_card) == isRunning' = (isRunning /\ ~using_sd_card)

\* Unless it has a dockerd to stop, a call records the area, and restarts dockerd if
\* the card is wanted.
sd_card_callback(area) ==
  /\ InStorageCallback
  /\ \E using_sd_card \in BOOLEAN :
       /\ is_parameter_yes("SDCardSupport", using_sd_card)
       /\ using_sd_card => area
       /\ QuitIfUsed(using_sd_card)
  /\ sdArea' = area
  /\ UNCHANGED <<device, child, sources, batch, stops, pc, reading, allow, exitCode,
                 debugLog, ipcShared, req, report, pendingChange>>

\* The card is about to be unmounted while it is in use: stop_dockerd() first.
\* If that has nothing to wait for, the rest of the callback runs at once.
sd_card_callback_Unmount ==
  /\ InStorageCallback
  /\ is_parameter_yes("SDCardSupport", TRUE)
  /\ ~is_process_alive
  /\ is_process_alive_Reap
  /\ set_status_parameter("NO SD CARD")
  /\ sdArea' = FALSE
  /\ main_loop_quit
  /\ UNCHANGED <<device, sources, batch, stops, pc, reading, allow, exitCode,
                 debugLog, ipcShared, req, pendingChange>>

sd_card_callback_StopsDockerd ==
  /\ InStorageCallback /\ Len(stops) < MaxStops
  /\ is_parameter_yes("SDCardSupport", TRUE)
  /\ stop_dockerd_Begin
  /\ UNCHANGED <<device, sources, pc, reading, app, req, report, pendingChange>>

sd_disk_storage_Returns ==
  /\ Dispatched("sd")
  /\ UNCHANGED <<device, left, child, sources, isRunning, stops, pc, reading, app,
                 req, report, pendingChange>>

-------------------------------------------------------------------------------
\* The FCGI thread: post_request() and delete_request().  It runs from main_Boot
\* until main_Exit, since a request accepted before the shutdown is still served.  Only
\* what the rest of the application can see of the requests is modelled here.

\* g_file_copy() creates a file that is missing, then writes it; a file that is there
\* is replaced at once.
copy_to_localdata(f) ==
  /\ pc \notin {"boot", "done"} /\ req = "idle"
  /\ Spend("upload")
  /\ certs' = [certs EXCEPT ![f] = TRUE]
  /\ req' = IF certs[f] THEN "stored" ELSE "copying"
  /\ UNCHANGED <<param, child, sources, mainloop, pc, reading, app, report,
                 pendingChange>>

copy_to_localdata_Ends ==
  /\ req = "copying"
  /\ \/ req' = "stored" /\ UNCHANGED left
     \/ req' = "idle" /\ Spend("copy_failure")
  /\ UNCHANGED <<device, child, sources, mainloop, pc, reading, app, report,
                 pendingChange>>

restart_dockerd_after_file_upload_Allow ==
  /\ req = "stored"
  /\ allow' = TRUE
  /\ pendingChange' = TRUE
  /\ req' = "allowed"
  /\ UNCHANGED <<device, left, child, sources, mainloop, pc, reading, sdArea,
                 exitCode, debugLog, ipcShared, report>>

restart_dockerd_after_file_upload_Quit ==
  /\ req = "allowed"
  /\ main_loop_quit
  /\ req' = "idle"
  /\ UNCHANGED <<device, left, child, sources, batch, stops, pc, reading, app,
                 report, pendingChange>>

delete_request(f) ==
  /\ pc \notin {"boot", "done"} /\ req = "idle"
  /\ certs[f]
  /\ Spend("delete")
  /\ certs' = [certs EXCEPT ![f] = FALSE]
  /\ UNCHANGED <<param, child, sources, mainloop, pc, reading, app, req, report,
                 pendingChange>>

-------------------------------------------------------------------------------
\* The outside world

\* params_that_restart_dockerd
RegisteredParam_Bug == Param \ {"IPCSocket"}
RegisteredParam == Param

\* The parameter server stores the value, then queues the callback.
ChangeParam(p) ==
  /\ pc \notin {"boot", "done"}
  /\ Spend("param")
  /\ param' = [param EXCEPT ![p] = ~@]
  /\ paramQueue' = paramQueue + (IF p \in RegisteredParam THEN 1 ELSE 0)
  /\ UNCHANGED <<certs, child, signal, timers, waitTimer, mainloop, pc,
                 reading, app, req, report, pendingChange>>

Signal ==
  /\ pc \notin {"boot", "done"}
  /\ Spend("signal")
  /\ signal' = TRUE
  /\ UNCHANGED <<device, child, paramQueue, timers, waitTimer, mainloop,
                 pc, reading, app, req, report, pendingChange>>

\* dockerd ends by itself, or some time after a SIGTERM, or at a SIGKILL.
DockerdExit(cause) ==
  /\ proc = "alive"
  /\ \/ sig = "none" /\ cause \in CrashCauses /\ Spend("exit")
     \/ sig = "term" /\ cause \in StopCauses /\ UNCHANGED left
     \/ sig = "kill" /\ cause = "signal" /\ UNCHANGED left
  /\ proc' = "zombie" /\ exitCause' = cause
  /\ UNCHANGED <<device, waitStatus, sig, sources, mainloop, pc, reading, app, req,
                 report, pendingChange>>

\* GLib collects the wait status and makes the child watch ready.
GlibReap ==
  /\ proc = "zombie"
  /\ proc' = "reaped" /\ waitStatus' = exitCause
  /\ UNCHANGED <<device, left, exitCause, sig, sources, mainloop, pc, reading, app,
                 req, report, pendingChange>>

\* The device loses power and boots again, or an application that has ended is
\* started again: only parameters and files are kept.
PowerLoss ==
  /\ pc # "boot"
  /\ Spend("power_loss")
  /\ proc' = "none" /\ exitCause' = "ok" /\ waitStatus' = "ok" /\ sig' = "none"
  /\ signal' = FALSE /\ paramQueue' = 0
  /\ timers' = 0 /\ waitTimer' = FALSE
  /\ isRunning' = FALSE /\ batch' = {} /\ stops' = <<>>
  /\ pc' = "boot"
  /\ settings' = [p \in Setting |-> FALSE] /\ certIdx' = 1
  /\ allow' = TRUE /\ sdArea' = FALSE /\ exitCode' = "keep"
  /\ debugLog' = FALSE /\ ipcShared' = FALSE
  /\ req' = "idle"
  /\ pendingChange' = FALSE /\ reported' = FALSE
  /\ UNCHANGED <<device, status>>

-------------------------------------------------------------------------------
Main ==
  \/ main_Boot \/ main_BootFails \/ main_Top \/ main_Run \/ main_LoopReturned
  \/ main_Teardown \/ main_Exit
  \/ read_settings_TCP \/ get_and_verify_tls_selection \/ tls_missing_certs
  \/ read_settings_IPC \/ read_settings_ShareIPC \/ read_settings_ShareIPCFails
  \/ read_settings_SD \/ read_settings_WaitReturned
  \/ prepare_data_root \/ setup_sdcard_Fails
  \/ start_dockerd \/ start_dockerd_Fails \/ build_daemon_args_Crashes
  \/ main_StopDockerd \/ stop_dockerd_KeepWaiting \/ stop_dockerd_Returns
  \/ Iterate
  \/ handle_signals \/ restart_dockerd_when_parameter_changed
  \/ quit_main_loop \/ quit_main_loop_Wait \/ monitor_dockerd_termination
  \/ check_child_process_exit_code_and_clean_up

SdCard ==
  \/ \E area \in BOOLEAN : sd_card_callback(area)
  \/ sd_card_callback_Unmount \/ sd_card_callback_StopsDockerd
  \/ sd_card_callback_Resumes \/ sd_disk_storage_Returns

MainThread == Main \/ SdCard

FcgiThread ==
  \/ copy_to_localdata_Ends
  \/ restart_dockerd_after_file_upload_Allow \/ restart_dockerd_after_file_upload_Quit

Environment ==
  \/ \E f \in CertFile : copy_to_localdata(f) \/ delete_request(f)
  \/ \E p \in Changeable : ChangeParam(p)
  \/ \E cause \in Cause : DockerdExit(cause)
  \/ Signal \/ GlibReap \/ PowerLoss

Next == MainThread \/ FcgiThread \/ Environment

\* The scheduler runs both threads, a storage callback comes to its end, GLib
\* dispatches what stays ready, the kernel ends a killed process.  Nothing obliges
\* dockerd to obey SIGTERM, the card to move, or any of the failures to happen.
Fairness ==
  /\ WF_vars(Main)
  /\ WF_vars(sd_card_callback_Resumes)
  /\ WF_vars(sd_disk_storage_Returns)
  /\ \A k \in Source \ {"sd"} : SF_vars(Iterate /\ k \in batch')
  /\ WF_vars(FcgiThread)
  /\ WF_vars(GlibReap)
  /\ WF_vars(sig = "kill" /\ DockerdExit("signal"))

Spec == Init /\ [][Next]_vars
FairSpec == Spec /\ Fairness

===============================================================================
