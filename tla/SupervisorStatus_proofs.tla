------------------------ MODULE SupervisorStatus_proofs ------------------------
(***************************************************************************)
(* Proofs about what the supervisor has come to when it waits: the reason  *)
(* that Status gives is the present one, and dockerd runs with the present *)
(* settings.  Both fail for some events (README.md); the assumptions say   *)
(* which.  The parts of StatusInv and SettingsInv have one lemma each.     *)
(***************************************************************************)
EXTENDS Supervisor_proofs

\* A step leaves the budget alone or spends one event of it.
LEMMA StepSpends ==
  ASSUME [Next]_vars
  PROVE  left' = left \/ \E e \in Event : Spend(e)
<1> USE DEF Event, is_parameter_yes
<1>1. CASE Main
  BY <1>1 DEF Main, main_Boot, main_BootFails, main_Top, main_Run, main_LoopReturned,
     main_Teardown, main_Exit, read_settings_TCP, get_and_verify_tls_selection,
     tls_missing_certs, read_settings_IPC, read_settings_ShareIPC,
     read_settings_ShareIPCFails, read_settings_SD, read_settings_WaitReturned,
     prepare_data_root, setup_sdcard_Fails, start_dockerd, start_dockerd_Fails,
     build_daemon_args_Crashes, main_StopDockerd, stop_dockerd_KeepWaiting,
     stop_dockerd_Returns, Iterate, handle_signals,
     restart_dockerd_when_parameter_changed, quit_main_loop, quit_main_loop_Wait,
     monitor_dockerd_termination, check_child_process_exit_code_and_clean_up
<1>2. CASE SdCard
  BY <1>2 DEF SdCard, sd_card_callback, sd_card_callback_Unmount,
     sd_card_callback_StopsDockerd, sd_card_callback_Resumes, sd_disk_storage_Returns
<1>3. CASE FcgiThread
  BY <1>3 DEF FcgiThread, copy_to_localdata_Ends,
     restart_dockerd_after_file_upload_Allow, restart_dockerd_after_file_upload_Quit
<1>4. CASE Environment
  BY <1>4 DEF Environment, copy_to_localdata, delete_request, ChangeParam, DockerdExit,
     Signal, GlibReap, PowerLoss
<1>5. CASE UNCHANGED vars
  BY <1>5 DEF vars
<1> QED
  BY <1>1, <1>2, <1>3, <1>4, <1>5 DEF Next, MainThread

\* What AttemptsReport excludes stays excluded, and so no request begins.
LEMMA NoFaultsInductive ==
  ASSUME TypeOK, NoFaults, [Next]_vars
  PROVE  NoFaults'
<1>1. left \in [Event -> Nat] /\ Budget \in [Event -> Nat]
  BY ConstantsAssumption DEF TypeOK
<1>2. \A e \in {"upload", "read_failure", "chmod_failure", "spawn_failure"} : left'[e] = 0
  BY <1>1, StepSpends DEF NoFaults, Spend, Event
<1>3. left'["setup_failure"] <= Budget["setup_failure"]
  BY <1>1, StepSpends DEF NoFaults, Spend, Event
<1>4. req' = "idle"
  <2> USE DEF NoFaults
  <2>1. ~Spend("upload")
    BY DEF Spend
  <2>2. CASE Main
    BY <2>2 DEF Main, main_Boot, main_BootFails, main_Top, main_Run, main_LoopReturned,
       main_Teardown, main_Exit, read_settings_TCP, get_and_verify_tls_selection,
       tls_missing_certs, read_settings_IPC, read_settings_ShareIPC,
       read_settings_ShareIPCFails, read_settings_SD, read_settings_WaitReturned,
       prepare_data_root, setup_sdcard_Fails, start_dockerd, start_dockerd_Fails,
       build_daemon_args_Crashes, main_StopDockerd, stop_dockerd_KeepWaiting,
       stop_dockerd_Returns, Iterate, handle_signals,
       restart_dockerd_when_parameter_changed, quit_main_loop, quit_main_loop_Wait,
       monitor_dockerd_termination, check_child_process_exit_code_and_clean_up
  <2>3. CASE SdCard
    BY <2>3 DEF SdCard, sd_card_callback, sd_card_callback_Unmount,
       sd_card_callback_StopsDockerd, sd_card_callback_Resumes, sd_disk_storage_Returns
  <2>4. CASE FcgiThread \/ Environment
    BY <2>1, <2>4 DEF FcgiThread, copy_to_localdata_Ends, Environment,
       restart_dockerd_after_file_upload_Allow, restart_dockerd_after_file_upload_Quit,
       copy_to_localdata, delete_request, ChangeParam, DockerdExit, Signal, GlibReap,
       PowerLoss
  <2>5. CASE UNCHANGED vars
    BY <2>5 DEF vars
  <2> QED
    BY <2>2, <2>3, <2>4, <2>5 DEF Next, MainThread
<1> QED
  BY <1>2, <1>3, <1>4 DEF NoFaults

\* A storage callback, or a stop that one has called, needs a card slot.
LEMMA WithoutSlotInductive ==
  ASSUME TypeOK, Control, WithoutSlot, [Next]_vars
  PROVE  WithoutSlot'
<1> SUFFICES ASSUME MaxStops = 0 PROVE WithoutSlot'
  BY DEF WithoutSlot
<1> USE DEF WithoutSlot, InSdCardCallback
<1>1. Len(stops) \in Nat /\ DOMAIN stops = 1 .. Len(stops)
  BY LenProperties DEF TypeOK, MainloopType
<1>2. CASE main_StopDockerd
  <2>1. CASE stop_dockerd_Begin /\ pc' = "stopping"
    <3>1. stops = <<>>
      BY <1>2 DEF main_StopDockerd
    <3>2. Len(stops') = 1
      BY <2>1, <3>1 DEF stop_dockerd_Begin
    <3> QED
      BY <1>2, <2>1, <3>2 DEF main_StopDockerd, stop_dockerd_Begin, main_loop_run, app
  <2>2. CASE ~is_process_alive /\ pc' = "top" /\ UNCHANGED mainloop
    BY <1>2, <2>2 DEF main_StopDockerd, mainloop, app
  <2> QED
    BY <1>2, <2>1, <2>2 DEF main_StopDockerd
<1>3. CASE monitor_dockerd_termination
  <2>1. Len(stops') = Len(stops)
    BY <1>1, <1>3 DEF monitor_dockerd_termination, TypeOK, MainloopType
  <2> QED
    BY <1>3, <2>1 DEF monitor_dockerd_termination, Dispatched, app
<1>4. CASE stop_dockerd_Returns
  <2>1. Len(stops') = 0
    BY <1>4, FrontOfStops DEF stop_dockerd_Returns
  <2> QED
    BY <1>4, <2>1 DEF stop_dockerd_Returns, app
<1>5. CASE Iterate
  <2>1. "sd" \notin ReadySources
    BY DEF ReadySources
  <2> QED
    BY <1>5, <2>1 DEF Iterate, app
<1>6. CASE SdCard
  BY <1>6 DEF SdCard, sd_card_callback, sd_card_callback_Unmount, InStorageCallback,
     sd_card_callback_StopsDockerd, sd_card_callback_Resumes, sd_disk_storage_Returns,
     Dispatched
<1>7. CASE main_Boot \/ main_BootFails \/ main_Top \/ main_Run \/ main_LoopReturned
           \/ main_Teardown \/ main_Exit
           \/ read_settings_TCP \/ get_and_verify_tls_selection \/ tls_missing_certs
           \/ read_settings_IPC \/ read_settings_ShareIPC \/ read_settings_ShareIPCFails
           \/ read_settings_SD \/ read_settings_WaitReturned \/ prepare_data_root
           \/ setup_sdcard_Fails \/ start_dockerd \/ start_dockerd_Fails
           \/ build_daemon_args_Crashes \/ stop_dockerd_KeepWaiting
  <2>1. pc = "stopping" => stops # <<>>
    BY DEF Control, CallStack
  <2> QED
  BY <1>7, <2>1 DEF main_Boot, main_BootFails, main_Top, main_Run, main_LoopReturned,
     main_Teardown, main_Exit, read_settings_TCP, get_and_verify_tls_selection,
     tls_missing_certs, read_settings_IPC, read_settings_ShareIPC,
     read_settings_ShareIPCFails, read_settings_SD, read_settings_WaitReturned,
     prepare_data_root, setup_sdcard_Fails, start_dockerd, start_dockerd_Fails,
     build_daemon_args_Crashes, stop_dockerd_KeepWaiting, main_loop_run, mainloop, app
<1>8. CASE handle_signals \/ restart_dockerd_when_parameter_changed \/ quit_main_loop
           \/ quit_main_loop_Wait \/ check_child_process_exit_code_and_clean_up
  BY <1>8 DEF handle_signals, restart_dockerd_when_parameter_changed, quit_main_loop,
     quit_main_loop_Wait, check_child_process_exit_code_and_clean_up, Dispatched, app
<1>9. CASE FcgiThread
  BY <1>9 DEF FcgiThread, copy_to_localdata_Ends, mainloop, app,
     restart_dockerd_after_file_upload_Allow, restart_dockerd_after_file_upload_Quit
<1>10. CASE PowerLoss
  BY <1>10 DEF PowerLoss
<1>11. CASE Environment /\ ~PowerLoss
  BY <1>11 DEF Environment, copy_to_localdata, delete_request, ChangeParam, DockerdExit,
     Signal, GlibReap, mainloop, app
<1>12. CASE UNCHANGED vars
  BY <1>12 DEF vars, mainloop, app
<1> QED
  BY <1>2, <1>3, <1>4, <1>5, <1>6, <1>7, <1>8, <1>9, <1>10, <1>11, <1>12
     DEF Next, MainThread, Main, Environment

\* On a product with a card slot, dockerd only ever ends in ways that are not errors.
LEMMA NoErrorsInductive ==
  ASSUME AttemptsReport, TypeOK, NoErrors, [Next]_vars
  PROVE  NoErrors'
<1> SUFFICES ASSUME MaxStops > 0 PROVE NoErrors'
  BY DEF NoErrors
<1> USE DEF NoErrors
<1>1. "error" \notin StopCauses /\ "error" \notin CrashCauses
  BY ConstantsAssumption DEF AttemptsReport
<1>2. CASE Main
  BY <1>2 DEF Main, main_Boot, main_BootFails, main_Top, main_Run, main_LoopReturned,
     main_Teardown, main_Exit, read_settings_TCP, get_and_verify_tls_selection,
     tls_missing_certs, read_settings_IPC, read_settings_ShareIPC,
     read_settings_ShareIPCFails, read_settings_SD, read_settings_WaitReturned,
     prepare_data_root, setup_sdcard_Fails, start_dockerd, start_dockerd_Fails,
     build_daemon_args_Crashes, main_StopDockerd, stop_dockerd_KeepWaiting,
     stop_dockerd_Returns, Iterate, handle_signals, stop_dockerd_Begin,
     restart_dockerd_when_parameter_changed, quit_main_loop, quit_main_loop_Wait,
     monitor_dockerd_termination, check_child_process_exit_code_and_clean_up,
     is_process_alive_Reap, child_process_exited_with_error, child, app
<1>3. CASE SdCard
  BY <1>3 DEF SdCard, sd_card_callback, sd_card_callback_Unmount, stop_dockerd_Begin,
     sd_card_callback_StopsDockerd, sd_card_callback_Resumes, sd_disk_storage_Returns,
     is_process_alive_Reap, child, app
<1>4. CASE FcgiThread
  BY <1>4 DEF FcgiThread, copy_to_localdata_Ends, child, app,
     restart_dockerd_after_file_upload_Allow, restart_dockerd_after_file_upload_Quit
<1>5. CASE Environment
  BY <1>1, <1>5 DEF Environment, copy_to_localdata, delete_request, ChangeParam,
     DockerdExit, Signal, GlibReap, PowerLoss, child, app
<1>6. CASE UNCHANGED vars
  BY <1>6 DEF vars, child, app
<1> QED
  BY <1>2, <1>3, <1>4, <1>5, <1>6 DEF Next, MainThread

\* Without failures to read them, the values of the parameters are what is read.
LEMMA ReadsSucceed ==
  ASSUME left["read_failure"] = 0, NEW q, NEW yes, is_parameter_yes(q, yes)
  PROVE  left' = left /\ yes = param[q]
BY DEF is_parameter_yes, Spend

\* The report of an error stays until the operator has permitted another start.
LEMMA ErrorIsShownInductive ==
  ASSUME TypeOK, Control, WithoutSlot, NoErrors, ErrorIsShown, [Next]_vars
  PROVE  ErrorIsShown'
<1> USE DEF ErrorIsShown, Ending
<1>1. pc \in Starting => allow
  BY DEF Control, StartsAlone
<1>2. CASE Main
  BY <1>1, <1>2 DEF Starting, Loops, Dispatched, set_status_parameter,
     Main, main_Boot, main_BootFails, main_Top, main_Run, main_LoopReturned,
     main_Teardown, main_Exit, read_settings_TCP, get_and_verify_tls_selection,
     tls_missing_certs, read_settings_IPC, read_settings_ShareIPC,
     read_settings_ShareIPCFails, read_settings_SD, read_settings_WaitReturned,
     prepare_data_root, setup_sdcard_Fails, start_dockerd, start_dockerd_Fails,
     build_daemon_args_Crashes, main_StopDockerd, stop_dockerd_KeepWaiting,
     stop_dockerd_Returns, Iterate, handle_signals,
     restart_dockerd_when_parameter_changed, quit_main_loop, quit_main_loop_Wait,
     monitor_dockerd_termination, check_child_process_exit_code_and_clean_up,
     report, app
<1>3. CASE SdCard
  <2>1. MaxStops > 0
    <3>1. MaxStops \in Nat
      BY ConstantsAssumption
    <3>2. ~(MaxStops = 0)
      BY <1>3 DEF WithoutSlot, SdCard, sd_card_callback, sd_card_callback_Unmount,
         sd_card_callback_StopsDockerd, sd_card_callback_Resumes,
         sd_disk_storage_Returns, Dispatched, InStorageCallback
    <3> HIDE DEF ErrorIsShown, Ending
    <3> QED
      BY <3>1, <3>2
  <2>2. allow' = allow
    BY <1>3 DEF SdCard, sd_card_callback, sd_card_callback_Unmount,
       sd_card_callback_StopsDockerd, sd_card_callback_Resumes, sd_disk_storage_Returns,
       app
  <2> QED
    BY <2>1, <2>2 DEF NoErrors
<1>4. CASE FcgiThread
  BY <1>4 DEF FcgiThread, copy_to_localdata_Ends, report, app,
     restart_dockerd_after_file_upload_Allow, restart_dockerd_after_file_upload_Quit
<1>5. CASE Environment
  BY <1>5 DEF Environment, copy_to_localdata, delete_request, ChangeParam,
     DockerdExit, Signal, GlibReap, PowerLoss, report, app
<1>6. CASE UNCHANGED vars
  BY <1>6 DEF vars, report, app
<1> QED
  BY <1>2, <1>3, <1>4, <1>5, <1>6 DEF Next, MainThread

\* A change of a parameter that calls back is announced.
LEMMA ChangesAreAnnounced ==
  ASSUME TypeOK, NEW p \in Changeable, ChangeParam(p)
  PROVE  Announced'
<1>1. p \in RegisteredParam /\ paramQueue \in Nat
  BY ConstantsAssumption DEF RegisteredParam, TypeOK, SourcesType
<1>2. paramQueue' = paramQueue + 1
  BY <1>1 DEF ChangeParam
<1> QED
  BY <1>1, <1>2 DEF Announced

\* What is announced stays so until a main loop dispatches it.
LEMMA TcpIsPresentInductive ==
  ASSUME TypeOK, NoFaults, TcpIsPresent, [Next]_vars
  PROVE  TcpIsPresent'
<1> USE DEF TcpIsPresent, Announced
<1>1. \A q, yes : is_parameter_yes(q, yes) => left' = left /\ yes = param[q]
  BY ReadsSucceed DEF NoFaults
<1>2. CASE read_settings_TCP
  BY <1>1, <1>2 DEF read_settings_TCP, TypeOK, ReadingType, Setting, Param, device
<1>3. CASE get_and_verify_tls_selection
  BY <1>1, <1>3 DEF get_and_verify_tls_selection, TypeOK, ReadingType, Setting, Param,
     device, sources
<1>4. CASE tls_missing_certs
  BY <1>4 DEF tls_missing_certs, device, sources
<1>11. CASE Iterate \/ stop_dockerd_KeepWaiting
  BY <1>11 DEF Iterate, stop_dockerd_KeepWaiting, device, sources, reading
<1>5. CASE Main /\ ~(read_settings_TCP \/ get_and_verify_tls_selection
                     \/ tls_missing_certs \/ Iterate \/ stop_dockerd_KeepWaiting)
  <2>1. pc' \notin {"read_tls", "check_certs", "read_ipc"}
    BY <1>5 DEF Loops, Dispatched,
       Main, main_Boot, main_BootFails, main_Top, main_Run, main_LoopReturned,
       main_Teardown, main_Exit, read_settings_IPC, read_settings_ShareIPC,
       read_settings_ShareIPCFails, read_settings_SD, read_settings_WaitReturned,
       prepare_data_root, setup_sdcard_Fails, start_dockerd, start_dockerd_Fails,
       build_daemon_args_Crashes, main_StopDockerd, stop_dockerd_Returns, handle_signals,
       restart_dockerd_when_parameter_changed, quit_main_loop, quit_main_loop_Wait,
       monitor_dockerd_termination, check_child_process_exit_code_and_clean_up
  <2> QED
    BY <2>1
<1>6. CASE SdCard
  BY <1>6 DEF SdCard, sd_card_callback, sd_card_callback_Unmount, Dispatched,
     sd_card_callback_StopsDockerd, sd_card_callback_Resumes, sd_disk_storage_Returns,
     device, sources, reading
<1>7. CASE FcgiThread
  BY <1>7 DEF FcgiThread, copy_to_localdata_Ends, device, sources, reading,
     restart_dockerd_after_file_upload_Allow, restart_dockerd_after_file_upload_Quit
<1>8. ASSUME NEW p \in Changeable, ChangeParam(p) PROVE TcpIsPresent'
  <2>1. Announced'
    BY <1>8, ChangesAreAnnounced
  <2> QED
    BY <1>8, <2>1 DEF ChangeParam, reading
<1>9. CASE \E f \in CertFile : copy_to_localdata(f) \/ delete_request(f)
  BY <1>9 DEF copy_to_localdata, delete_request, device, sources, reading
<1>12. CASE Signal \/ GlibReap \/ PowerLoss \/ \E cause \in Cause : DockerdExit(cause)
  BY <1>12 DEF Signal, GlibReap, PowerLoss, DockerdExit, device, sources, reading
<1>10. CASE UNCHANGED vars
  BY <1>10 DEF vars, device, sources, reading
<1> QED
  BY <1>2, <1>3, <1>4, <1>5, <1>6, <1>7, <1>8, <1>9, <1>10, <1>11, <1>12
     DEF Next, MainThread, Environment

\* Every step keeps the reason for waiting a present one.  A storage callback that makes
\* the area known while the card is wanted quits the loop, and so does whatever ends
\* dockerd or withdraws the area.
LEMMA StatusExplainedInductive ==
  ASSUME TypeOK, Control, StatusInv, [Next]_vars
  PROVE  StatusExplained'
<1> SUFFICES ASSUME Settled', proc' \in {"none", "alive"}, ~Announced'
             PROVE  Means(status)'
  BY DEF StatusExplained
<1> USE DEF Settled
<1>1. \A q, yes : is_parameter_yes(q, yes) => left' = left /\ yes = param[q]
  BY ReadsSucceed DEF StatusInv, NoFaults
<1>2. CASE main_Top
  <2>1. proc = "none" /\ ~allow
    BY <1>2 DEF main_Top, main_MayStart, Control, DeadAtTop, child
  <2>2. status = "DOCKERD RUNTIME ERROR"
    BY <1>2, <2>1 DEF StatusInv, ErrorIsShown, main_Top, Ending
  <2> QED
    BY <1>2, <2>1, <2>2 DEF main_Top, Means, report, app, child
<1>3. CASE tls_missing_certs
  <2>1. /\ pc = "check_certs" /\ ~certs[CertFiles[certIdx]]
        /\ status' = "TLS CERT MISSING"
        /\ UNCHANGED <<device, sources>>
    BY <1>3 DEF tls_missing_certs, set_status_parameter
  <2>2. param["TCPSocket"] /\ param["UseTLS"]
    BY <2>1 DEF StatusInv, TcpIsPresent, Announced, TypeOK, DeviceType, Param, ReadingType,
       Setting, sources
  <2>3. CertFiles[certIdx] \in CertFile
    BY DEF TypeOK, ReadingType, CertFiles, CertFile
  <2> QED
    BY <2>1, <2>2, <2>3 DEF Means, device
<1>4. CASE read_settings_IPC
  BY <1>1, <1>4 DEF read_settings_IPC, set_status_parameter, StatusInv, TcpIsPresent,
     Announced, Means, device, sources
<1>5. CASE prepare_data_root
  BY <1>1, <1>5 DEF prepare_data_root, set_status_parameter, Means, device, app
<1>6. CASE setup_sdcard_Fails
  <2>1. left'["setup_failure"] < Budget["setup_failure"]
    <3>1. /\ left["setup_failure"] \in Nat /\ Budget["setup_failure"] \in Nat
          /\ left["setup_failure"] <= Budget["setup_failure"]
      BY ConstantsAssumption DEF StatusInv, NoFaults, TypeOK, Event
    <3>2. left'["setup_failure"] = left["setup_failure"] - 1
      BY <1>6 DEF setup_sdcard_Fails, Spend, TypeOK, Event
    <3> QED
      BY <3>1, <3>2
  <2> QED
    BY <1>6, <2>1 DEF setup_sdcard_Fails, set_status_parameter, Means, Spent, device, app
<1>7. CASE start_dockerd
  BY <1>7 DEF start_dockerd, set_status_parameter, Means
<1>8. CASE read_settings_ShareIPCFails \/ start_dockerd_Fails
  <2>1. ~Spend("chmod_failure") /\ ~Spend("spawn_failure")
    BY DEF Spend, StatusInv, NoFaults
  <2> QED
    BY <1>8, <2>1 DEF read_settings_ShareIPCFails, start_dockerd_Fails
<1>9. CASE sd_card_callback(TRUE) \/ sd_card_callback(FALSE)
  <2>1. PICK area \in BOOLEAN : sd_card_callback(area)
    BY <1>9
  <2>5. PICK using_sd_card \in BOOLEAN :
          is_parameter_yes("SDCardSupport", using_sd_card) /\ QuitIfUsed(using_sd_card)
    BY <2>1 DEF sd_card_callback
  <2>6. /\ pc = "looping" /\ pc' = pc /\ stops = <<>> /\ isRunning'
        /\ UNCHANGED <<device, child, sources, report, allow>>
    BY <2>1 DEF sd_card_callback, InStorageCallback, Loops
  <2>2. isRunning /\ ~using_sd_card
    BY <2>5, <2>6 DEF QuitIfUsed
  <2>3. ~param["SDCardSupport"] /\ left' = left
    BY <1>1, <2>2, <2>5
  <2>4. Means(status)
    BY <2>2, <2>6 DEF StatusInv, StatusExplained, Announced, child, sources
  <2> QED
    BY <2>3, <2>4, <2>6 DEF Means, device, child, report
<1>10. CASE main_Run \/ Iterate \/ sd_disk_storage_Returns
  <2>1. UNCHANGED <<device, left, child, sources, app, report>> /\ Settled
    BY <1>10 DEF main_Run, Iterate, sd_disk_storage_Returns, Dispatched, Loops
  <2>2. Means(status)
    BY <2>1 DEF StatusInv, StatusExplained, Announced, child, sources
  <2> QED
    BY <2>1, <2>2 DEF Means, Spent, device, child, app, report
<1>11. CASE main_Boot \/ main_BootFails \/ main_LoopReturned \/ main_Teardown \/ main_Exit
            \/ read_settings_TCP \/ get_and_verify_tls_selection \/ read_settings_ShareIPC
            \/ read_settings_SD \/ read_settings_WaitReturned \/ build_daemon_args_Crashes
            \/ main_StopDockerd \/ stop_dockerd_KeepWaiting \/ stop_dockerd_Returns
            \/ sd_card_callback_StopsDockerd
  <2>1. pc = "run" => stops = <<>>
    BY DEF Control, CallStack
  <2>2. CASE sd_card_callback_StopsDockerd
    <3>1. stops' # <<>>
      BY <2>2, StopDockerdBeginControl DEF sd_card_callback_StopsDockerd
    <3> QED
      BY <2>2, <3>1 DEF sd_card_callback_StopsDockerd, InStorageCallback, Loops
  <2>3. CASE stop_dockerd_KeepWaiting
    BY <2>1, <2>3 DEF stop_dockerd_KeepWaiting
  <2>4. CASE main_StopDockerd
    BY <2>4 DEF main_StopDockerd
  <2> QED
    BY <1>11, <2>2, <2>3, <2>4 DEF main_Boot, main_BootFails, main_LoopReturned,
       main_Teardown, main_Exit, read_settings_TCP, get_and_verify_tls_selection,
       read_settings_ShareIPC, read_settings_SD, read_settings_WaitReturned,
       build_daemon_args_Crashes, stop_dockerd_Returns
<1>12. CASE handle_signals \/ quit_main_loop \/ quit_main_loop_Wait
            \/ check_child_process_exit_code_and_clean_up
            \/ sd_card_callback_Unmount \/ sd_card_callback_Resumes
  <2>1. isRunning' = FALSE /\ pc' \in Loops
    <3>1. sd_card_callback_Resumes => pc \in Loops
      BY ResumesAfterDockerd DEF Control, CallStack, Loops
    <3> QED
      BY <1>12, <3>1 DEF handle_signals, quit_program, quit_main_loop,
         quit_main_loop_Wait, check_child_process_exit_code_and_clean_up, main_loop_quit,
         sd_card_callback_Unmount, sd_card_callback_Resumes, Dispatched, InStorageCallback
  <2> QED
    BY <2>1 DEF Loops
<1>13. CASE restart_dockerd_when_parameter_changed
  <2>1. timers' > 0
    BY <1>13 DEF restart_dockerd_when_parameter_changed, ArmTimers, TypeOK, SourcesType
  <2> QED
    BY <2>1 DEF Announced
<1>14. CASE monitor_dockerd_termination
  <2>1. pc' = pc /\ pc # "run" /\ stops # <<>> /\ stops' # <<>>
    BY <1>14 DEF monitor_dockerd_termination, Dispatched, Loops, TypeOK, MainloopType
  <2> QED
    BY <2>1
<1>15. CASE FcgiThread
  BY <1>15 DEF FcgiThread, copy_to_localdata_Ends, StatusInv, NoFaults,
     restart_dockerd_after_file_upload_Allow, restart_dockerd_after_file_upload_Quit
<1>16. ASSUME NEW p \in Changeable, ChangeParam(p) PROVE Means(status)'
  BY <1>16, ChangesAreAnnounced
<1>17. ASSUME NEW f \in CertFile, copy_to_localdata(f) \/ delete_request(f)
       PROVE  Means(status)'
  <2>1. delete_request(f)
    BY <1>17 DEF copy_to_localdata, Spend, StatusInv, NoFaults
  <2>2. /\ UNCHANGED <<param, child, sources, app, report>> /\ Settled
        /\ \A g \in CertFile : ~certs[g] => ~certs'[g]
        /\ left'["setup_failure"] = left["setup_failure"]
    BY <2>1 DEF delete_request, Spend, Event, TypeOK, DeviceType, mainloop
  <2>3. Means(status)
    BY <2>2 DEF StatusInv, StatusExplained, Announced, child, sources
  <2> QED
    BY <2>2, <2>3 DEF Means, Spent, child, app, report
<1>18. CASE Signal
  <2>1. /\ UNCHANGED <<device, child, paramQueue, timers, app, report>> /\ Settled
        /\ left'["setup_failure"] = left["setup_failure"]
    BY <1>18 DEF Signal, Spend, Event, TypeOK, mainloop
  <2>3. Means(status)
    BY <2>1 DEF StatusInv, StatusExplained, Announced, child
  <2> QED
    BY <2>1, <2>3 DEF Means, Spent, device, child, app, report
<1>19. CASE GlibReap \/ PowerLoss \/ \E cause \in Cause : DockerdExit(cause)
  BY <1>19 DEF GlibReap, PowerLoss, DockerdExit
<1>20. CASE UNCHANGED vars
  <2>1. UNCHANGED <<device, left, child, sources, app, report>> /\ Settled
    BY <1>20 DEF vars, mainloop
  <2>2. Means(status)
    BY <2>1 DEF StatusInv, StatusExplained, Announced, child, sources
  <2> QED
    BY <2>1, <2>2 DEF Means, Spent, device, child, app, report
<1> HIDE DEF Settled
<1> QED
  BY <1>2, <1>3, <1>4, <1>5, <1>6, <1>7, <1>8, <1>9, <1>10, <1>11, <1>12, <1>13, <1>14,
     <1>15, <1>16, <1>17, <1>18, <1>19, <1>20
     DEF Next, MainThread, Main, SdCard, Environment

\* The initial state satisfies the invariant.
LEMMA StatusInitial == AttemptsReport /\ Init => StatusInv
<1> SUFFICES ASSUME AttemptsReport, Init PROVE StatusInv
  OBVIOUS
<1>1. NoFaults
  BY ConstantsAssumption DEF AttemptsReport, Init, NoFaults, Event
<1>2. WithoutSlot
  BY DEF Init, WithoutSlot, InSdCardCallback
<1> QED
  BY <1>1, <1>2 DEF Init, StatusInv, NoErrors, ErrorIsShown, TcpIsPresent,
     StatusExplained, Settled

\* The loop of main() is idle only when nothing is announced.
LEMMA IdleIsSettled ==
  ASSUME TypeOK, Idle
  PROVE  Settled /\ ~Announced
<1>1. "param" \notin ReadySources /\ "timer" \notin ReadySources
  BY DEF Idle
<1>2. ~(paramQueue > 0) /\ ~(timers > 0)
  BY <1>1, Zenon DEF ReadySources, Source
<1> QED
  BY <1>2 DEF Idle, Settled, Announced

\* Whenever the application waits, Status gives the present reason for dockerd's running
\* or not running, as long as each attempt to start it reports how it went.
THEOREM StatusIsTrueWhenIdle ==
  ASSUME AttemptsReport
  PROVE  Spec => []IdleStatusTruth
<1>1. Init => StatusInv
  BY StatusInitial
<1>2. TypeOK /\ Control /\ StatusInv /\ [Next]_vars => StatusInv'
  BY NoFaultsInductive, WithoutSlotInductive, NoErrorsInductive, ErrorIsShownInductive,
     TcpIsPresentInductive, StatusExplainedInductive DEF StatusInv
<1>3. TypeOK /\ StatusInv => IdleStatusTruth
  BY IdleIsSettled DEF StatusInv, StatusExplained, IdleStatusTruth, Idle
<1> QED
  BY <1>1, <1>2, <1>3, TypeCorrect, ControlCorrect, PTL DEF Spec

-------------------------------------------------------------------------------
\* Read failures that are not in the budget do not come into it.
LEMMA ReadsStaySuccessful ==
  ASSUME TypeOK, left["read_failure"] = 0, [Next]_vars
  PROVE  left'["read_failure"] = 0
BY StepSpends DEF TypeOK, Spend, Event

\* Only the operator changes a parameter.
LEMMA ParamStep ==
  ASSUME [Next]_vars
  PROVE  param' = param \/ \E p \in Changeable : ChangeParam(p)
<1>1. CASE Main
  BY <1>1 DEF Main, main_Boot, main_BootFails, main_Top, main_Run, main_LoopReturned,
     main_Teardown, main_Exit, read_settings_TCP, get_and_verify_tls_selection,
     tls_missing_certs, read_settings_IPC, read_settings_ShareIPC,
     read_settings_ShareIPCFails, read_settings_SD, read_settings_WaitReturned,
     prepare_data_root, setup_sdcard_Fails, start_dockerd, start_dockerd_Fails,
     build_daemon_args_Crashes, main_StopDockerd, stop_dockerd_KeepWaiting,
     stop_dockerd_Returns, Iterate, handle_signals,
     restart_dockerd_when_parameter_changed, quit_main_loop, quit_main_loop_Wait,
     monitor_dockerd_termination, check_child_process_exit_code_and_clean_up, device
<1>2. CASE SdCard
  BY <1>2 DEF SdCard, sd_card_callback, sd_card_callback_Unmount,
     sd_card_callback_StopsDockerd, sd_card_callback_Resumes, sd_disk_storage_Returns,
     device
<1>3. CASE FcgiThread
  BY <1>3 DEF FcgiThread, copy_to_localdata_Ends, device,
     restart_dockerd_after_file_upload_Allow, restart_dockerd_after_file_upload_Quit
<1>4. CASE Environment
  BY <1>4 DEF Environment, copy_to_localdata, delete_request, DockerdExit,
     Signal, GlibReap, PowerLoss, device
<1>5. CASE UNCHANGED vars
  BY <1>5 DEF vars, device
<1> QED
  BY <1>1, <1>2, <1>3, <1>4, <1>5 DEF Next, MainThread

\* No step uses the card, or waits for it, when the operator has selected it on a product
\* that has none, or has not selected it.
LEMMA CardNotUsedInductive ==
  ASSUME NeverWaitsForCard, TypeOK, Control, WithoutSlot, CardNotUsed, [Next]_vars
  PROVE  CardNotUsed'
<1> USE DEF CardNotUsed
<1>1. \A q, yes : is_parameter_yes(q, yes) => left' = left /\ yes = param[q]
  BY ReadsSucceed
<1>2. left'["read_failure"] = 0
  BY ReadsStaySuccessful
<1>3. param'["SDCardSupport"] = param["SDCardSupport"]
  BY ParamStep, ConstantsAssumption
     DEF NeverWaitsForCard, ChangeParam, TypeOK, DeviceType, Param
<1>4. SUFFICES /\ param["SDCardSupport"] => pc' # "spawn" /\ proc' = "none"
               /\ ~param["SDCardSupport"] => pc' # "waiting"
  BY <1>2, <1>3
<1>5. CASE read_settings_SD
  BY <1>1, <1>5 DEF read_settings_SD, child
<1>6. CASE prepare_data_root
  BY <1>1, <1>6 DEF prepare_data_root, WithoutSlot, child
<1>7. CASE Main /\ ~(read_settings_SD \/ prepare_data_root)
  BY <1>7 DEF Main, main_Boot, main_BootFails, main_Top, main_Run, main_LoopReturned,
     main_Teardown, main_Exit, read_settings_TCP, get_and_verify_tls_selection,
     tls_missing_certs, read_settings_IPC, read_settings_ShareIPC,
     read_settings_ShareIPCFails, read_settings_WaitReturned, setup_sdcard_Fails,
     start_dockerd, start_dockerd_Fails, build_daemon_args_Crashes, main_StopDockerd,
     stop_dockerd_KeepWaiting, stop_dockerd_Returns, Iterate, handle_signals,
     stop_dockerd_Begin, is_process_alive, is_process_alive_Reap,
     restart_dockerd_when_parameter_changed, quit_main_loop, quit_main_loop_Wait,
     monitor_dockerd_termination, check_child_process_exit_code_and_clean_up, child
<1>8. CASE SdCard
  BY <1>8 DEF SdCard, sd_card_callback, sd_card_callback_Unmount, stop_dockerd_Begin,
     sd_card_callback_StopsDockerd, sd_card_callback_Resumes, sd_disk_storage_Returns,
     is_process_alive, is_process_alive_Reap, child
<1>9. CASE FcgiThread
  BY <1>9 DEF FcgiThread, copy_to_localdata_Ends, child,
     restart_dockerd_after_file_upload_Allow, restart_dockerd_after_file_upload_Quit
<1>10. CASE Environment
  BY <1>10 DEF Environment, copy_to_localdata, delete_request, ChangeParam,
     DockerdExit, Signal, GlibReap, PowerLoss, child
<1>11. CASE UNCHANGED vars
  BY <1>11 DEF vars, child
<1> QED
  BY <1>5, <1>6, <1>7, <1>8, <1>9, <1>10, <1>11 DEF Next, MainThread

\* While main() reads the settings, a value that it has read is present or a change of
\* it is announced; nothing but a start of dockerd ends that.
LEMMA SettingsArePresentInductive ==
  ASSUME TypeOK, Control, CardNotUsed, SettingsArePresent, [Next]_vars
  PROVE  SettingsArePresent'
<1> SUFFICES ASSUME pc' \in Starting \/ (Settled' /\ proc' = "alive"),
                    ~Announced', ~param'["SDCardSupport"]
             PROVE  ReadSoFar'
  BY DEF SettingsArePresent
<1> USE DEF ReadSoFar, Starting
<1>1. \A q, yes : is_parameter_yes(q, yes) => left' = left /\ yes = param[q]
  BY ReadsSucceed DEF CardNotUsed
<1>2. /\ param \in [Param -> BOOLEAN] /\ settings \in [Setting -> BOOLEAN]
      /\ Setting = Param \ {"ApplicationLogLevel"}
  BY DEF TypeOK, DeviceType, ReadingType, Setting
<1>3. pc \in Starting => proc = "none"
  BY DEF Control, StartsAlone
<1>4. CASE main_Top
  BY <1>4 DEF main_Top, Settled, Control, DeadAtTop, child
<1>5. CASE read_settings_TCP
  <2>1. PICK yes \in BOOLEAN :
          /\ is_parameter_yes("TCPSocket", yes)
          /\ settings' = [settings EXCEPT !["TCPSocket"] = yes, !["UseTLS"] = FALSE]
          /\ pc' = IF yes THEN "read_tls" ELSE "read_ipc"
    BY <1>5 DEF read_settings_TCP
  <2>2. yes = param["TCPSocket"] /\ param' = param /\ proc' = "none"
    BY <1>1, <1>3, <1>5, <2>1 DEF read_settings_TCP, device, child
  <2>3. settings'["TCPSocket"] = yes /\ settings'["UseTLS"] = FALSE
    BY <1>2, <2>1 DEF Param
  <2> QED
    BY <2>1, <2>2, <2>3
<1>6. ASSUME UNCHANGED <<param, child, sources>>, pc \in Starting \ {"waiting"},
             pc # "read_tcp"
      PROVE  ReadSoFar /\ proc' = "none"
  BY <1>3, <1>6 DEF SettingsArePresent, Announced, child, sources
<1>7. CASE get_and_verify_tls_selection
  <2>1. PICK yes \in BOOLEAN :
          /\ is_parameter_yes("UseTLS", yes)
          /\ settings' = [settings EXCEPT !["UseTLS"] = yes]
    BY <1>7 DEF get_and_verify_tls_selection
  <2>2. /\ yes = param["UseTLS"] /\ UNCHANGED <<param, child, sources>>
        /\ pc = "read_tls" /\ pc' \in {"check_certs", "read_ipc"}
    BY <1>1, <1>7, <2>1 DEF get_and_verify_tls_selection, device
  <2>3. ReadSoFar /\ proc' = "none"
    BY <1>6, <2>2
  <2>4. settings'["TCPSocket"] = settings["TCPSocket"] /\ settings'["UseTLS"] = yes
    BY <1>2, <2>1 DEF Param
  <2> QED
    BY <1>2, <2>2, <2>3, <2>4 DEF Param
<1>8. CASE tls_missing_certs
  <2>1. /\ UNCHANGED <<param, settings, child, sources>>
        /\ pc = "check_certs" /\ pc' \in {"check_certs", "read_ipc", "run"}
    BY <1>8 DEF tls_missing_certs, device
  <2> QED
    BY <1>6, <2>1
<1>9. CASE read_settings_IPC
  <2>1. PICK yes \in BOOLEAN :
          /\ is_parameter_yes("IPCSocket", yes)
          /\ settings' = [settings EXCEPT !["IPCSocket"] = yes]
    BY <1>9 DEF read_settings_IPC
  <2>2. /\ yes = param["IPCSocket"] /\ UNCHANGED <<param, child, sources>>
        /\ pc = "read_ipc" /\ pc' \in {"share_ipc", "check_sd", "run"}
    BY <1>1, <1>9, <2>1 DEF read_settings_IPC, device
  <2>3. ReadSoFar /\ proc' = "none"
    BY <1>6, <2>2
  <2>4. /\ settings'["TCPSocket"] = settings["TCPSocket"] /\ settings'["IPCSocket"] = yes
        /\ settings'["UseTLS"] = settings["UseTLS"]
    BY <1>2, <2>1 DEF Param
  <2> QED
    BY <2>2, <2>3, <2>4
<1>10. CASE read_settings_ShareIPC \/ read_settings_ShareIPCFails
  <2>1. /\ UNCHANGED <<param, settings, child, sources>>
        /\ pc = "share_ipc" /\ pc' \in {"check_sd", "run"}
    BY <1>10 DEF read_settings_ShareIPC, read_settings_ShareIPCFails, device, reading
  <2> QED
    BY <1>6, <2>1
<1>11. CASE read_settings_SD
  <2>1. PICK yes \in BOOLEAN :
          /\ is_parameter_yes("SDCardSupport", yes)
          /\ yes \/ (UNCHANGED waitTimer /\ pc' = "data_root")
    BY <1>11 DEF read_settings_SD
  <2>2. UNCHANGED <<param, settings, child>> /\ pc = "check_sd"
    BY <1>11 DEF read_settings_SD, device, reading
  <2>3. ~yes
    BY <1>1, <2>1, <2>2
  <2>4. UNCHANGED sources
    BY <1>11, <2>1, <2>3 DEF read_settings_SD, sources
  <2> QED
    BY <1>6, <2>1, <2>2, <2>3, <2>4
<1>12. CASE read_settings_WaitReturned
  BY <1>12 DEF read_settings_WaitReturned, CardNotUsed, device
<1>13. CASE prepare_data_root \/ setup_sdcard_Fails
  <2>1. /\ UNCHANGED <<param, child, sources>> /\ pc = "data_root"
        /\ pc' \in {"run", "spawn"}
    BY <1>13 DEF prepare_data_root, setup_sdcard_Fails, device
  <2>2. ReadSoFar /\ proc' = "none"
    BY <1>6, <2>1
  <2>3. pc' = "spawn" => settings' = [settings EXCEPT !["SDCardSupport"] =
                                                        param["SDCardSupport"]]
    BY <1>1, <1>13 DEF prepare_data_root, setup_sdcard_Fails
  <2> QED
    BY <1>2, <2>1, <2>2, <2>3 DEF Param
<1>14. CASE start_dockerd
  <2>1. /\ UNCHANGED <<param, sources>> /\ pc = "spawn" /\ pc' = "run"
        /\ settings' = [settings EXCEPT !["DockerdLogLevel"] = param["DockerdLogLevel"]]
    BY <1>14 DEF start_dockerd, device
  <2>2. ReadSoFar
    BY <2>1 DEF SettingsArePresent, Announced, sources
  <2> QED
    BY <1>2, <2>1, <2>2 DEF Param
<1>15. CASE start_dockerd_Fails \/ build_daemon_args_Crashes
  BY <1>3, <1>15 DEF start_dockerd_Fails, build_daemon_args_Crashes, Settled, child
<1>16. CASE main_Run \/ Iterate \/ sd_disk_storage_Returns
            \/ sd_card_callback(TRUE) \/ sd_card_callback(FALSE)
  <2>1. /\ UNCHANGED <<param, child, sources, settings>>
        /\ pc' = pc \/ (pc = "run" /\ pc' = "looping")
    BY <1>16 DEF main_Run, Iterate, sd_disk_storage_Returns, Dispatched, device, reading,
       sd_card_callback
  <2>2. pc # "waiting"
    BY <2>1 DEF CardNotUsed
  <2>3. pc \in {"run", "looping", "stopping"} /\ (Settled' => Settled)
    BY <1>16, <2>2 DEF main_Run, Iterate, sd_disk_storage_Returns, Dispatched, Loops,
       sd_card_callback, QuitIfUsed, InStorageCallback, Settled
  <2> QED
    BY <2>1, <2>3 DEF SettingsArePresent, Announced, child, sources
<1>17. CASE main_Boot \/ main_BootFails \/ main_LoopReturned \/ main_Teardown \/ main_Exit
            \/ main_StopDockerd \/ stop_dockerd_Returns \/ PowerLoss
  BY <1>17 DEF main_Boot, main_BootFails, main_LoopReturned, main_Teardown, main_Exit,
     main_StopDockerd, stop_dockerd_Returns, PowerLoss, Settled
<1>18. CASE stop_dockerd_KeepWaiting
  BY <1>18 DEF stop_dockerd_KeepWaiting, Settled, Control, CallStack
<1>19. CASE handle_signals \/ restart_dockerd_when_parameter_changed
            \/ quit_main_loop \/ quit_main_loop_Wait \/ monitor_dockerd_termination
            \/ check_child_process_exit_code_and_clean_up
            \/ sd_card_callback_Unmount \/ sd_card_callback_StopsDockerd
            \/ sd_card_callback_Resumes
  <2>1. param' = param /\ pc' = pc /\ pc \in Loops
    <3>1. sd_card_callback_Resumes => pc \in Loops
      BY ResumesAfterDockerd DEF Control, CallStack, Loops
    <3> QED
      BY <1>19, <3>1 DEF handle_signals, restart_dockerd_when_parameter_changed,
         quit_main_loop, quit_main_loop_Wait, monitor_dockerd_termination, Dispatched,
         check_child_process_exit_code_and_clean_up, sd_card_callback_Unmount,
         sd_card_callback_StopsDockerd, sd_card_callback_Resumes, InStorageCallback, device
  <2>2. pc \in {"looping", "stopping"} /\ Settled'
    BY <2>1 DEF CardNotUsed, Loops
  <2>3. isRunning' /\ stops' = <<>>
    BY <2>1, <2>2 DEF Settled
  <2>4. CASE restart_dockerd_when_parameter_changed
    <3>1. timers' > 0
      BY <2>4 DEF restart_dockerd_when_parameter_changed, ArmTimers, TypeOK, SourcesType
    <3> QED
      BY <3>1 DEF Announced
  <2>5. CASE monitor_dockerd_termination
    <3>1. DOMAIN stops' = DOMAIN stops /\ DOMAIN stops # {}
      BY <2>5 DEF monitor_dockerd_termination
    <3> QED
      BY <2>3, <3>1, EmptySeq
  <2>6. CASE sd_card_callback_StopsDockerd
    BY <2>3, <2>6, StopDockerdBeginControl DEF sd_card_callback_StopsDockerd
  <2> QED
    BY <1>19, <2>3, <2>4, <2>5, <2>6 DEF handle_signals, quit_program, quit_main_loop,
       quit_main_loop_Wait, check_child_process_exit_code_and_clean_up, main_loop_quit,
       sd_card_callback_Unmount, sd_card_callback_Resumes
<1>20. ASSUME NEW p \in Changeable, ChangeParam(p) PROVE ReadSoFar'
  BY <1>20, ChangesAreAnnounced
<1>21. CASE Signal \/ FcgiThread \/ UNCHANGED vars
            \/ \E f \in CertFile : copy_to_localdata(f) \/ delete_request(f)
  <2>1. /\ UNCHANGED <<param, child, settings, paramQueue, timers, pc>>
        /\ Settled' => Settled
    BY <1>21 DEF Signal, FcgiThread, copy_to_localdata_Ends, vars, copy_to_localdata,
       delete_request, restart_dockerd_after_file_upload_Allow, main_loop_quit,
       restart_dockerd_after_file_upload_Quit, mainloop, sources, reading, device, Settled
  <2> QED
    BY <2>1 DEF SettingsArePresent, Announced, child
<1>22. CASE GlibReap \/ \E cause \in Cause : DockerdExit(cause)
  BY <1>3, <1>22 DEF GlibReap, DockerdExit
<1> HIDE DEF ReadSoFar, Starting
<1> QED
  BY <1>4, <1>5, <1>7, <1>8, <1>9, <1>10, <1>11, <1>12, <1>13, <1>14, <1>15, <1>16,
     <1>17, <1>18, <1>19, <1>20, <1>21, <1>22
     DEF Next, MainThread, Main, SdCard, Environment

\* When it waits for the next event, the application runs dockerd with the present
\* settings, however many changes there have been and whenever they came, unless it had
\* to wait for the card (see stale_settings.cfg) or a parameter could not be read.
THEOREM SettingsAreAppliedWhenIdle ==
  ASSUME NeverWaitsForCard
  PROVE  Spec => []IdleIsUpToDate
<1>1. Init => SettingsInv
  <2>1. Init => WithoutSlot
    BY DEF Init, WithoutSlot, InSdCardCallback
  <2>2. Init => CardNotUsed
    BY ConstantsAssumption DEF Init, NeverWaitsForCard, CardNotUsed
  <2> QED
    BY <2>1, <2>2 DEF Init, SettingsInv, SettingsArePresent, Settled, Starting
<1>2. TypeOK /\ Control /\ SettingsInv /\ [Next]_vars => SettingsInv'
  BY WithoutSlotInductive, CardNotUsedInductive, SettingsArePresentInductive
     DEF SettingsInv
<1>3. TypeOK /\ SettingsInv => IdleIsUpToDate
  <2> SUFFICES ASSUME TypeOK, SettingsInv, Idle, proc = "alive" PROVE UpToDate
    BY DEF IdleIsUpToDate
  <2>1. ReadSoFar
    BY IdleIsSettled DEF SettingsInv, SettingsArePresent, CardNotUsed
  <2> QED
    BY <2>1 DEF ReadSoFar, UpToDate
<1> QED
  BY <1>1, <1>2, <1>3, TypeCorrect, ControlCorrect, PTL DEF Spec
===============================================================================
