------------------------ MODULE SdDiskStorage_proofs ------------------------
(***************************************************************************)
(* Proofs about the storage and the supervisor together: the composition   *)
(* implements Supervisor, so that every theorem about the supervisor holds *)
(* of it, and the SD card is let go of before it is released and unmounted.*)
(***************************************************************************)
EXTENDS SdDiskStorageProperties, SupervisorStatus_proofs

\* A call that a storage callback makes is a step of the supervisor.
LEMMA StorageCallbackSteps ==
  ASSUME NEW area \in BOOLEAN, NEW next, storage_callback(area, next)
  PROVE  SdCard
BY DEF storage_callback, SdCard

\* So is every step of the storage, or it leaves the supervisor alone.
LEMMA StepImplements == [SdNext]_svars => [Next]_vars
<1> SUFFICES ASSUME [SdNext]_svars PROVE [Next]_vars
  OBVIOUS
<1>1. SdCard => Next
  BY DEF Next, MainThread
<1>2. Main => Next
  BY DEF Next, MainThread
<1>3. ASSUME NEW from, NEW to, Goes(from, to) PROVE [Next]_vars
  BY <1>3 DEF Goes
<1>4. CASE sd_disk_storage_init \/ storage_NotReached \/ sd_disk_storage_free
           \/ storage_Crashes \/ main_Continues
  BY <1>2, <1>4 DEF sd_disk_storage_init, storage_NotReached, sd_disk_storage_free,
     storage_Crashes, main_Continues, Main
<1>5. CASE subscribe_cb \/ release
  BY <1>3, <1>5 DEF subscribe_cb, release
<1>6. CASE subscribe_cb_Error \/ setup_cb_Error
  BY <1>1, <1>6, StorageCallbackSteps DEF subscribe_cb_Error, setup_cb_Error
<1>7. CASE setup_cb
  BY <1>1, <1>7, StorageCallbackSteps DEF setup_cb
<1>8. CASE subscribe_cb_Exiting
  BY <1>1, <1>3, <1>8, StorageCallbackSteps DEF subscribe_cb_Exiting, ExitingCalls
<1>9. CASE subscribe_cb_Writable
  BY <1>1, <1>3, <1>9, StorageCallbackSteps DEF subscribe_cb_Writable
<1>10. CASE storage_Returns \/ storage_Resumes
  BY <1>1, <1>10 DEF storage_Returns, storage_Resumes, SdCard
<1>11. CASE Service
  BY <1>11 DEF Service, CardChanges, Unmount, AnswerSetup
<1>12. CASE DevicePowerLoss \/ OtherEvents
  BY <1>12 DEF DevicePowerLoss, OtherEvents, Next, Environment
<1>13. CASE UNCHANGED svars
  BY <1>13 DEF svars
<1> QED
  BY <1>4, <1>5, <1>6, <1>7, <1>8, <1>9, <1>10, <1>11, <1>12, <1>13
     DEF SdNext, MainSteps

\* The storage and the supervisor together implement the supervisor, whatever the card
\* does and whichever calls of the library fail.
THEOREM Composition == SdSpec => Spec
<1>1. SdInit => Init
  BY DEF SdInit
<1> QED
  BY <1>1, StepImplements, PTL DEF SdSpec, Spec

-------------------------------------------------------------------------------
\* Adding a callback at the end of the queue, and taking the one at its head.
LEMMA QueueTypes ==
  ASSUME NEW q \in Seq(Callback)
  PROVE  /\ \A c \in Callback : Append(q, c) \in Seq(Callback)
         /\ q # <<>> => Tail(q) \in Seq(Callback) /\ Head(q) \in Callback
BY HeadTailProperties, AppendProperties

\* What storage_callback() does to the stack of waiting callbacks.
LEMMA StorageCallbackTypes ==
  ASSUME frames \in Seq(Line), NEW area \in BOOLEAN, NEW next \in Line,
         storage_callback(area, next)
  PROVE  frames' \in Seq(Line) /\ line' \in Line \cup {"none"}
BY AppendProperties DEF storage_callback

\* The initial state is well typed.
LEMMA SdTypeInitial == SdInit => SdTypeOK
<1> SUFFICES ASSUME SdInit PROVE SdTypeOK
  OBVIOUS
<1>1. TypeOK
  BY TypeInitial DEF SdInit
<1>2. inbox \in Seq(Callback) /\ frames \in Seq(Line)
  BY EmptySeq DEF SdInit
<1>3. card \in Card /\ moves \in Nat
  BY StorageAssumption DEF SdInit
<1> QED
  BY <1>1, <1>2, <1>3 DEF SdInit, SdTypeOK

\* Every step keeps the types.
LEMMA SdTypeInductive == SdTypeOK /\ [SdNext]_svars => SdTypeOK'
<1> SUFFICES ASSUME SdTypeOK, [SdNext]_svars PROVE SdTypeOK'
  OBVIOUS
<1>1. TypeOK'
  BY StepImplements, TypeInductive DEF SdTypeOK
<1> DEFINE StorageTypes ==
      /\ card \in Card /\ moves \in Nat
      /\ subscribed \in BOOLEAN /\ inbox \in Seq(Callback) /\ asked \in Nat
      /\ handle \in BOOLEAN
      /\ frames \in Seq(Line) /\ line \in Line \cup {"none"}
<1> USE DEF service, library, callbacks
<1>2. StorageTypes
  BY DEF SdTypeOK
<1>3. ASSUME NEW c, Begins(c) PROVE inbox' \in Seq(Callback)
  BY <1>2, <1>3, QueueTypes DEF Begins
<1>4. ASSUME Notify PROVE inbox' \in Seq(Callback)
  <2>1. PICK e \in Callback : inbox' = IF subscribed THEN Append(inbox, e) ELSE inbox
    BY <1>4 DEF Notify, Callback
  <2> QED
    BY <1>2, <2>1, QueueTypes
<1>5. ASSUME LetsGo
      PROVE  subscribed' \in BOOLEAN /\ inbox' \in Seq(Callback) /\ asked' \in Nat
             /\ handle' \in BOOLEAN
  <2>1. <<>> \in Seq(Callback)
    BY EmptySeq
  <2>2. inbox' = <<>> /\ asked' = 0 /\ subscribed' = FALSE /\ handle' = FALSE
    BY <1>5 DEF LetsGo
  <2> QED
    BY <2>1, <2>2
<1>6. CASE sd_disk_storage_init
  <2>1. <<"event">> \in Seq(Callback)
    BY DEF Callback
  <2> QED
    BY <1>1, <1>2, <1>6, <2>1 DEF sd_disk_storage_init, SdTypeOK
<1>7. CASE storage_NotReached \/ main_Continues \/ OtherEvents
  BY <1>1, <1>2, <1>7 DEF storage_NotReached, main_Continues, OtherEvents, SdTypeOK
<1>8. CASE sd_disk_storage_free \/ storage_Crashes
  BY <1>1, <1>2, <1>5, <1>8 DEF sd_disk_storage_free, storage_Crashes, SdTypeOK
<1>9. CASE subscribe_cb
  BY <1>1, <1>2, <1>3, <1>9 DEF subscribe_cb, Goes, Line, SdTypeOK
<1>10. CASE subscribe_cb_Error
  BY <1>1, <1>2, <1>3, <1>10, StorageCallbackTypes DEF subscribe_cb_Error, Line, SdTypeOK
<1>11. CASE subscribe_cb_Exiting
  BY <1>1, <1>2, <1>11, StorageCallbackTypes
     DEF subscribe_cb_Exiting, ExitingCalls, Goes, Line, SdTypeOK
<1>12. CASE release
  BY <1>1, <1>2, <1>12 DEF release, Goes, Line, SdTypeOK
<1>13. CASE subscribe_cb_Writable
  <2>1. frames' \in Seq(Line) /\ line' \in Line \cup {"none"}
    <3>1. CASE Goes("writable", "return")
      BY <1>2, <3>1 DEF Goes, Line
    <3>2. CASE storage_callback(FALSE, "return")
      BY <1>2, <3>2, StorageCallbackTypes DEF Line
    <3> QED
      BY <1>13, <3>1, <3>2 DEF subscribe_cb_Writable
  <2>2. asked' = asked \/ asked' = asked + 1
    BY <1>13 DEF subscribe_cb_Writable
  <2>3. asked' \in Nat
    BY <1>2, <2>2
  <2> QED
    BY <1>1, <1>2, <1>13, <2>1, <2>3 DEF subscribe_cb_Writable, SdTypeOK
<1>14. CASE setup_cb
  BY <1>1, <1>2, <1>3, <1>14, StorageCallbackTypes DEF setup_cb, Line, SdTypeOK
<1>15. CASE setup_cb_Error
  BY <1>1, <1>2, <1>3, <1>15, StorageCallbackTypes DEF setup_cb_Error, Line, SdTypeOK
<1>16. CASE storage_Returns
  BY <1>1, <1>2, <1>16 DEF storage_Returns, SdTypeOK
<1>17. CASE storage_Resumes
  <2>1. Front(frames) \in Seq(Line) /\ Last(frames) \in Line
    <3>1. frames \in Seq(Line) /\ frames # <<>>
      BY <1>2, <1>17 DEF storage_Resumes
    <3>2. Len(frames) \in 1 .. Len(frames)
      BY <3>1, EmptySeq, LenProperties
    <3> QED
      BY <3>1, <3>2, FrontProperties, ElementOfSeq DEF Last
  <2> QED
    BY <1>1, <1>2, <1>17, <2>1 DEF storage_Resumes, SdTypeOK
<1>18. ASSUME NEW to \in Card, CardChanges(to) PROVE SdTypeOK'
  BY <1>1, <1>2, <1>4, <1>18 DEF CardChanges, SdTypeOK
<1>19. CASE Unmount
  BY <1>1, <1>2, <1>4, <1>19 DEF Unmount, Card, SdTypeOK
<1>20. CASE AnswerSetup
  <2>1. inbox' \in Seq(Callback)
    BY <1>2, <1>20, QueueTypes DEF AnswerSetup, Callback
  <2>2. asked' \in Nat
    BY <1>2, <1>20 DEF AnswerSetup
  <2> QED
    BY <1>1, <1>2, <1>20, <2>1, <2>2 DEF AnswerSetup, SdTypeOK
<1>21. CASE DevicePowerLoss
  BY <1>1, <1>2, <1>5, <1>21, EmptySeq DEF DevicePowerLoss, Card, SdTypeOK
<1>22. CASE UNCHANGED svars
  BY <1>1, <1>2, <1>22 DEF svars, SdTypeOK
<1> QED
  BY <1>6, <1>7, <1>8, <1>9, <1>10, <1>11, <1>12, <1>13, <1>14, <1>15, <1>16, <1>17,
     <1>18, <1>19, <1>20, <1>21, <1>22 DEF SdNext, MainSteps, Service

\* Every variable of the storage and the supervisor keeps its type.
THEOREM SdTypeCorrect == SdSpec => []SdTypeOK
<1>1. QED
  BY SdTypeInitial, SdTypeInductive, PTL DEF SdSpec

-------------------------------------------------------------------------------
\* Entering stop_dockerd() adds one stop to the stack.
LEMMA StopDockerdBeginLen ==
  ASSUME TypeOK, stop_dockerd_Begin
  PROVE  Len(stops') = Len(stops) + 1
<1>1. stops \in Seq(Nat) /\ stops' = Append(stops, 1)
  BY ConstantsAssumption DEF TypeOK, MainloopType, stop_dockerd_Begin
<1> QED
  BY <1>1, AppendProperties

\* What the rest of the main thread leaves to the storage: the area, and the stops that
\* it has nested; and an application that closes down does not come back.
LEMMA MainKeeps ==
  ASSUME TypeOK, Main
  PROVE  /\ sdArea' = sdArea
         /\ Len(stops') - OwnStop' = Len(stops) - OwnStop
         /\ pc \in Ending => pc' \in Ending
<1> USE DEF OwnStop, Starting, Loops, Ending, mainloop, app
<1>0. Len(stops) \in Nat
  BY LenProperties DEF TypeOK, MainloopType
<1>1. CASE main_Boot
  BY <1>0, <1>1 DEF main_Boot
<1>2. CASE main_BootFails
  BY <1>0, <1>2 DEF main_BootFails
<1>3. CASE main_Top
  BY <1>0, <1>3 DEF main_Top
<1>4. CASE main_Run
  BY <1>0, <1>4 DEF main_Run, main_loop_run
<1>5. CASE main_LoopReturned
  BY <1>0, <1>5 DEF main_LoopReturned
<1>6. CASE main_Teardown
  BY <1>0, <1>6 DEF main_Teardown
<1>7. CASE main_Exit
  BY <1>0, <1>7 DEF main_Exit
<1>8. CASE read_settings_TCP
  BY <1>0, <1>8 DEF read_settings_TCP
<1>9. CASE get_and_verify_tls_selection
  BY <1>0, <1>9 DEF get_and_verify_tls_selection
<1>10. CASE tls_missing_certs
  BY <1>0, <1>10 DEF tls_missing_certs
<1>11. CASE read_settings_IPC
  BY <1>0, <1>11 DEF read_settings_IPC
<1>12. CASE read_settings_ShareIPC
  BY <1>0, <1>12 DEF read_settings_ShareIPC
<1>13. CASE read_settings_ShareIPCFails
  BY <1>0, <1>13 DEF read_settings_ShareIPCFails
<1>14. CASE read_settings_SD
  BY <1>0, <1>14 DEF read_settings_SD, main_loop_run
<1>15. CASE read_settings_WaitReturned
  BY <1>0, <1>15 DEF read_settings_WaitReturned
<1>16. CASE prepare_data_root
  BY <1>0, <1>16 DEF prepare_data_root
<1>17. CASE setup_sdcard_Fails
  BY <1>0, <1>17 DEF setup_sdcard_Fails
<1>18. CASE start_dockerd
  BY <1>0, <1>18 DEF start_dockerd
<1>19. CASE start_dockerd_Fails
  BY <1>0, <1>19 DEF start_dockerd_Fails
<1>20. CASE build_daemon_args_Crashes
  BY <1>0, <1>20 DEF build_daemon_args_Crashes
<1>21. CASE main_StopDockerd
  <2>1. CASE stop_dockerd_Begin /\ pc' = "stopping"
    <3>2. Len(stops') = Len(stops) + 1
      BY <2>1, StopDockerdBeginLen
    <3> QED
      BY <1>0, <1>21, <2>1, <3>2 DEF main_StopDockerd
  <2>2. CASE ~is_process_alive /\ is_process_alive_Reap /\ pc' = "top" /\ UNCHANGED mainloop
    BY <1>0, <1>21, <2>2 DEF main_StopDockerd
  <2> QED
    BY <1>21, <2>1, <2>2 DEF main_StopDockerd
<1>22. CASE stop_dockerd_KeepWaiting
  BY <1>0, <1>22 DEF stop_dockerd_KeepWaiting, main_loop_run
<1>23. CASE stop_dockerd_Returns
  <2>1. stops # <<>> /\ stops' = Front(stops) /\ pc = "stopping" /\ pc' = "top"
    BY <1>23 DEF stop_dockerd_Returns
  <2>2. Len(stops') = Len(stops) - 1
    BY <2>1, FrontOfStops
  <2> QED
    BY <1>0, <1>23, <2>1, <2>2 DEF stop_dockerd_Returns
<1>24. CASE Iterate
  BY <1>0, <1>24 DEF Iterate
<1>25. CASE handle_signals
  BY <1>0, <1>25 DEF handle_signals
<1>26. CASE restart_dockerd_when_parameter_changed
  BY <1>0, <1>26 DEF restart_dockerd_when_parameter_changed
<1>27. CASE quit_main_loop
  BY <1>0, <1>27 DEF quit_main_loop
<1>28. CASE quit_main_loop_Wait
  BY <1>0, <1>28 DEF quit_main_loop_Wait
<1>29. CASE monitor_dockerd_termination
  <2>1. \E i \in DOMAIN stops : \E t : stops' = [stops EXCEPT ![i] = t]
    BY <1>29 DEF monitor_dockerd_termination
  <2>2. Len(stops') = Len(stops)
    BY <2>1, LenProperties DEF TypeOK, MainloopType
  <2> QED
    BY <1>0, <1>29, <2>2 DEF monitor_dockerd_termination
<1>30. CASE check_child_process_exit_code_and_clean_up
  BY <1>0, <1>30 DEF check_child_process_exit_code_and_clean_up
<1> QED
  BY <1>1, <1>2, <1>3, <1>4, <1>5, <1>6, <1>7, <1>8, <1>9, <1>10, <1>11, <1>12,
     <1>13, <1>14, <1>15, <1>16, <1>17, <1>18, <1>19, <1>20, <1>21, <1>22, <1>23,
     <1>24, <1>25, <1>26, <1>27, <1>28, <1>29, <1>30 DEF Main

\* Neither the FCGI thread nor the outside world touches what the storage goes by.
LEMMA OtherEventsKeep ==
  ASSUME OtherEvents
  PROVE  UNCHANGED <<batch, stops, pc, sdArea>>
<1>1. pc' = pc
  BY DEF OtherEvents
<1>2. CASE FcgiThread
  BY <1>1, <1>2 DEF FcgiThread, copy_to_localdata_Ends,
     restart_dockerd_after_file_upload_Allow, restart_dockerd_after_file_upload_Quit,
     mainloop, app
<1>3. CASE Environment
  BY <1>1, <1>3 DEF Environment, copy_to_localdata, delete_request, ChangeParam,
     DockerdExit, Signal, GlibReap, PowerLoss, mainloop, app
<1> QED
  BY <1>1, <1>2, <1>3 DEF OtherEvents

\* A call of sd_card_callback() by a storage callback either returns, and has recorded
\* the area, or waits for dockerd.
LEMMA StorageCallbackEffect ==
  ASSUME TypeOK, NEW area \in BOOLEAN, NEW next, storage_callback(area, next)
  PROVE  /\ pc' = pc /\ InStorageCallback
         /\ \/ /\ line' = next /\ sdArea' = area
               /\ UNCHANGED <<frames, stops, batch>>
            \/ /\ line' = "none" /\ UNCHANGED sdArea
               /\ frames' = Append(frames, next) /\ Len(stops') = Len(stops) + 1
<1>1. CASE sd_card_callback(area) /\ line' = next /\ UNCHANGED frames
  BY <1>1 DEF sd_card_callback
<1>2. CASE ~area /\ sd_card_callback_Unmount /\ line' = next /\ UNCHANGED frames
  BY <1>2 DEF sd_card_callback_Unmount
<1>3. CASE sd_card_callback_StopsDockerd /\ frames' = Append(frames, next)
           /\ line' = "none"
  BY <1>3, StopDockerdBeginLen DEF sd_card_callback_StopsDockerd, app
<1> QED
  BY <1>1, <1>2, <1>3 DEF storage_callback

\* When a waiting call goes on, no storage callback is running, the area is cleared and
\* the call's caller is taken from the stack.
LEMMA ResumesEffect ==
  ASSUME SdTypeOK, Control, CallbackRuns, storage_Resumes
  PROVE  /\ line = "none" /\ frames # <<>> /\ stops # <<>>
         /\ pc' = pc /\ pc \in Loops /\ batch' = {"sd"} /\ sdArea' = FALSE
         /\ Len(stops') = Len(stops) - 1 /\ Len(frames') = Len(frames) - 1
<1>1. /\ batch = {} /\ stops' = Front(stops) /\ pc' = pc /\ batch' = {"sd"}
      /\ sdArea' = FALSE /\ frames # <<>> /\ frames' = Front(frames)
  BY DEF storage_Resumes, sd_card_callback_Resumes, LoopIsOver
<1>2. line = "none"
  BY <1>1 DEF CallbackRuns, InStorageCallback
<1>3. stops # <<>>
  BY ResumesAfterDockerd DEF SdTypeOK, storage_Resumes
<1>4. pc \in Loops
  BY <1>3 DEF Control, CallStack, Loops
<1>5. Len(stops') = Len(stops) - 1
  BY <1>1, <1>3, FrontOfStops DEF SdTypeOK
<1>6. Len(frames') = Len(frames) - 1
  BY <1>1, FrontProperties DEF SdTypeOK
<1> QED
  BY <1>1, <1>2, <1>3, <1>4, <1>5, <1>6

\* The initial state satisfies the control invariant of the storage.
LEMMA StorageControlInitial == SdInit => StorageControl
<1> SUFFICES ASSUME SdInit PROVE StorageControl
  OBVIOUS
<1>1. Len(stops) = 0 /\ Len(frames) = 0 /\ OwnStop = 0
  BY EmptySeq DEF SdInit, Init, OwnStop
<1> QED
  BY <1>1 DEF SdInit, Init, StorageControl, CallbackRuns, Nesting, NotSubscribed,
     ReleaseComesLast

\* Every step keeps the storage callbacks on the stack of the main thread in agreement
\* with its stops, and release() behind sd_card_callback(NULL).
LEMMA StorageControlInductive ==
  ASSUME SdTypeOK, Control, StorageControl, [SdNext]_svars
  PROVE  StorageControl'
<1> USE DEF service, library, callbacks
<1>1. /\ CallbackRuns /\ Nesting /\ NotSubscribed /\ ReleaseComesLast
      /\ TypeOK /\ Len(stops) \in Nat /\ Len(frames) \in Nat
  BY LenProperties DEF StorageControl, SdTypeOK, TypeOK, MainloopType
<1>2. ASSUME pc \notin Loops, pc \notin {"boot"} PROVE frames = <<>> /\ line = "none"
  <2>1. stops = <<>> /\ OwnStop = 0 /\ line = "none"
    BY <1>1, <1>2 DEF Control, CallStack, OwnStop, Loops, CallbackRuns,
       InStorageCallback
  <2>2. Len(stops) = 0
    BY <2>1, EmptySeq
  <2>3. Len(frames) = 0
    BY <1>1, <2>1, <2>2 DEF Nesting
  <2> QED
    BY <2>1, <2>3, EmptySeq DEF SdTypeOK
<1>3. ASSUME NEW area \in BOOLEAN, NEW next \in Line, storage_callback(area, next),
             subscribed' = subscribed, subscribed, next = "release" => ~area
      PROVE  StorageControl'
  <2>1. CASE line' = next /\ sdArea' = area /\ UNCHANGED <<frames, stops, batch>>
    BY <1>1, <1>3, <2>1, StorageCallbackEffect DEF StorageControl, CallbackRuns,
       Nesting, OwnStop, NotSubscribed, ReleaseComesLast, InStorageCallback
  <2>2. CASE line' = "none" /\ frames' = Append(frames, next)
             /\ Len(stops') = Len(stops) + 1
    <3>1. pc' = pc
      BY <1>1, <1>3, StorageCallbackEffect
    <3>2. Len(frames') = Len(frames) + 1
      BY <2>2, AppendProperties DEF SdTypeOK
    <3>3. Nesting'
      BY <1>1, <2>2, <3>1, <3>2 DEF Nesting, OwnStop
    <3> QED
      BY <1>3, <2>2, <3>3 DEF StorageControl, CallbackRuns, NotSubscribed,
         ReleaseComesLast
  <2> QED
    BY <1>1, <1>3, <2>1, <2>2, StorageCallbackEffect
<1>4. inbox # <<>> \/ line # "none" \/ asked # 0 \/ handle \/ frames # <<>>
        => subscribed
  BY <1>1 DEF NotSubscribed
<1>5. ASSUME NEW from, NEW to, Goes(from, to), to # "release" \/ ~sdArea,
             from = "none" => InStorageCallback, subscribed, subscribed' = subscribed
      PROVE  StorageControl'
  BY <1>1, <1>5 DEF Goes, vars, mainloop, app, StorageControl, CallbackRuns, Nesting,
     OwnStop, NotSubscribed, ReleaseComesLast, InStorageCallback
<1>6. CASE sd_disk_storage_init
  <2>1. pc = "boot" /\ pc' = "top" /\ UNCHANGED <<mainloop, sdArea, frames, line>>
    BY <1>6 DEF sd_disk_storage_init, main_Boot
  <2>2. line = "none"
    BY <1>1, <2>1 DEF CallbackRuns, InStorageCallback, Loops
  <2>3. NotSubscribed'
    BY <1>1, <1>6, <2>1 DEF sd_disk_storage_init, NotSubscribed, Ending
  <2> QED
    BY <1>1, <2>1, <2>2, <2>3 DEF StorageControl, CallbackRuns, Nesting, OwnStop,
       ReleaseComesLast, mainloop
<1>7. CASE storage_NotReached
  <2>1. pc = "boot" /\ pc' = "done" /\ UNCHANGED mainloop
    BY <1>7 DEF storage_NotReached, main_BootFails
  <2>2. line = "none"
    BY <1>1, <2>1 DEF CallbackRuns, InStorageCallback, Loops
  <2> QED
    BY <1>1, <1>7, <2>1, <2>2 DEF storage_NotReached, StorageControl, CallbackRuns,
       Nesting, OwnStop, NotSubscribed, ReleaseComesLast, Ending, mainloop
<1>8. CASE sd_disk_storage_free \/ storage_Crashes
  <2>1. /\ pc \in {"teardown", "spawn"} /\ pc' \in {"join", "done"} /\ LetsGo
        /\ UNCHANGED <<mainloop, frames, line>>
    BY <1>8 DEF sd_disk_storage_free, storage_Crashes, main_Teardown,
       build_daemon_args_Crashes
  <2>2. frames = <<>> /\ line = "none"
    BY <1>2, <2>1 DEF Loops
  <2> QED
    BY <1>1, <2>1, <2>2 DEF LetsGo, StorageControl, CallbackRuns, Nesting, OwnStop,
       NotSubscribed, ReleaseComesLast, Ending, mainloop
<1>9. CASE main_Continues
  <2>1. /\ sdArea' = sdArea /\ Len(stops') - OwnStop' = Len(stops) - OwnStop
        /\ pc \in Ending => pc' \in Ending
    BY <1>1, <1>9, MainKeeps DEF main_Continues
  <2> QED
    BY <1>1, <1>9, <2>1 DEF main_Continues, StorageControl, CallbackRuns, Nesting,
       NotSubscribed, ReleaseComesLast
<1>10. CASE subscribe_cb
  BY <1>4, <1>5, <1>10 DEF subscribe_cb, Begins
<1>11. CASE subscribe_cb_Error
  BY <1>3, <1>4, <1>11 DEF subscribe_cb_Error, Begins, Line
<1>12. CASE subscribe_cb_Exiting
  <2>1. subscribed /\ subscribed' = subscribed
    BY <1>4, <1>12 DEF subscribe_cb_Exiting, ExitingCalls, Goes
  <2>2. CASE ExitingCalls
    BY <1>3, <2>1, <2>2 DEF ExitingCalls, Line
  <2>3. CASE Goes("exiting", "writable")
    BY <1>5, <2>1, <2>3
  <2> QED
    BY <1>12, <2>2, <2>3 DEF subscribe_cb_Exiting
<1>13. CASE release
  <2>1. subscribed /\ subscribed' = subscribed /\ Goes("release", "writable")
    BY <1>4, <1>13 DEF release, Goes
  <2> QED
    BY <1>5, <2>1
<1>14. CASE subscribe_cb_Writable
  <2>1. subscribed /\ subscribed' = subscribed
    BY <1>4, <1>14 DEF subscribe_cb_Writable, Goes
  <2>2. CASE storage_callback(FALSE, "return")
    BY <1>3, <2>1, <2>2 DEF Line
  <2>3. CASE Goes("writable", "return")
    BY <1>5, <2>1, <2>3
  <2> QED
    BY <1>14, <2>2, <2>3 DEF subscribe_cb_Writable
<1>15. CASE setup_cb
  <2>1. subscribed /\ subscribed' = subscribed
    BY <1>4, <1>15 DEF setup_cb, Begins
  <2> QED
    BY <1>3, <1>15, <2>1 DEF setup_cb, Line
<1>16. CASE setup_cb_Error
  BY <1>3, <1>4, <1>16 DEF setup_cb_Error, Begins, Line
<1>17. CASE storage_Returns
  <2>1. line' = "none" /\ UNCHANGED <<stops, pc, sdArea, frames, library, handle>>
    BY <1>17 DEF storage_Returns, sd_disk_storage_Returns, app
  <2>2. subscribed
    BY <1>4, <1>17 DEF storage_Returns
  <2> QED
    BY <1>1, <2>1, <2>2 DEF StorageControl, CallbackRuns, Nesting, OwnStop,
       NotSubscribed, ReleaseComesLast
<1>18. CASE storage_Resumes
  <2>1. /\ frames # <<>> /\ pc' = pc /\ pc \in Loops /\ batch' = {"sd"}
        /\ sdArea' = FALSE
        /\ Len(stops') = Len(stops) - 1 /\ Len(frames') = Len(frames) - 1
    BY <1>1, <1>18, ResumesEffect
  <2>2. subscribed /\ subscribed' = subscribed
    BY <1>4, <1>18, <2>1 DEF storage_Resumes
  <2>3. Nesting'
    BY <1>1, <2>1 DEF Nesting, OwnStop
  <2> QED
    BY <2>1, <2>2, <2>3 DEF StorageControl, CallbackRuns, NotSubscribed,
       ReleaseComesLast, InStorageCallback
<1>19. CASE Service
  <2>1. UNCHANGED <<vars, subscribed, handle, callbacks>>
    BY <1>19 DEF Service, CardChanges, Unmount, AnswerSetup
  <2>2. ASSUME ~subscribed PROVE inbox' = inbox /\ asked' = asked
    <3>1. asked = 0
      BY <1>1, <2>2 DEF NotSubscribed
    <3>2. ~AnswerSetup
      BY <3>1 DEF AnswerSetup
    <3>3. Notify /\ asked' = asked
      BY <1>19, <3>2 DEF Service, CardChanges, Unmount
    <3> QED
      BY <2>2, <3>3 DEF Notify
  <2> QED
    BY <1>1, <2>1, <2>2 DEF vars, mainloop, app, StorageControl, CallbackRuns, Nesting,
       OwnStop, NotSubscribed, ReleaseComesLast, InStorageCallback
<1>20. CASE DevicePowerLoss
  <2>1. /\ stops' = <<>> /\ pc' = "boot" /\ sdArea' = FALSE
        /\ frames' = <<>> /\ line' = "none" /\ LetsGo
    BY <1>20 DEF DevicePowerLoss, PowerLoss
  <2>2. Len(stops') = 0 /\ Len(frames') = 0
    BY <2>1, EmptySeq
  <2> QED
    BY <2>1, <2>2 DEF LetsGo, StorageControl, CallbackRuns, Nesting, OwnStop,
       NotSubscribed, ReleaseComesLast
<1>21. CASE OtherEvents
  <2>1. UNCHANGED <<batch, stops, pc, sdArea, library, handle, callbacks>>
    BY <1>21, OtherEventsKeep DEF OtherEvents
  <2> QED
    BY <1>1, <2>1 DEF StorageControl, CallbackRuns, Nesting, OwnStop, NotSubscribed,
       ReleaseComesLast, InStorageCallback
<1>22. CASE UNCHANGED svars
  BY <1>1, <1>22 DEF svars, vars, mainloop, app, StorageControl, CallbackRuns, Nesting,
     OwnStop, NotSubscribed, ReleaseComesLast, InStorageCallback
<1> QED
  BY <1>6, <1>7, <1>8, <1>9, <1>10, <1>11, <1>12, <1>13, <1>14, <1>15, <1>16, <1>17,
     <1>18, <1>19, <1>20, <1>21, <1>22 DEF SdNext, MainSteps

\* The supervisor's control invariant carries over to the composition.
THEOREM StorageControlCorrect == SdSpec => [](Control /\ StorageControl)
<1>1. SdSpec => []Control
  BY Composition, ControlCorrect, PTL
<1> QED
  BY <1>1, SdTypeCorrect, StorageControlInitial, StorageControlInductive, PTL DEF SdSpec

-------------------------------------------------------------------------------
\* The queue after another event, after another failed setup, and after its head has
\* been dispatched.
LEMMA QueueKeepsNews ==
  ASSUME inbox \in Seq(Callback)
  PROVE  /\ \A e \in {"event", "event_error"} : inbox' = Append(inbox, e) => EventIsQueued'
         /\ inbox' = Append(inbox, "failed") =>
              /\ EventIsQueued => EventIsQueued'
              /\ NoHandle => NoHandle'
         /\ inbox # <<>> /\ inbox' = Tail(inbox) =>
              /\ NoHandle => NoHandle' /\ Head(inbox) # "handle"
              /\ EventIsQueued =>
                   EventIsQueued' \/ (NoHandle' /\ Head(inbox) \in {"event", "event_error"})
<1>1. Len(inbox) \in Nat /\ DOMAIN inbox = 1 .. Len(inbox)
  BY LenProperties
<1>2. ASSUME NEW c \in Callback, inbox' = Append(inbox, c)
      PROVE  /\ DOMAIN inbox' = 1 .. Len(inbox) + 1
             /\ inbox'[Len(inbox) + 1] = c
             /\ \A j \in 1 .. Len(inbox) : inbox'[j] = inbox[j]
  BY <1>1, <1>2, AppendProperties
<1>3. ASSUME NEW e \in {"event", "event_error"}, inbox' = Append(inbox, e)
      PROVE  EventIsQueued'
  <2>1. e \in Callback
    BY DEF Callback
  <2> QED
    BY <1>1, <1>2, <1>3, <2>1 DEF EventIsQueued
<1>4. ASSUME inbox' = Append(inbox, "failed")
      PROVE  (EventIsQueued => EventIsQueued') /\ (NoHandle => NoHandle')
  <2>1. "failed" \in Callback
    BY DEF Callback
  <2>2. ASSUME NEW j \in DOMAIN inbox'
        PROVE  inbox'[j] = "failed" \/ (j \in DOMAIN inbox /\ inbox'[j] = inbox[j])
    BY <1>1, <1>2, <1>4, <2>1
  <2>3. \A j \in DOMAIN inbox : j \in DOMAIN inbox' /\ inbox'[j] = inbox[j]
    BY <1>1, <1>2, <1>4, <2>1
  <2> QED
    BY <2>2, <2>3 DEF EventIsQueued, NoHandle
<1>5. ASSUME inbox # <<>>, inbox' = Tail(inbox)
      PROVE  /\ NoHandle => NoHandle' /\ Head(inbox) # "handle"
             /\ EventIsQueued =>
                  EventIsQueued' \/ (NoHandle' /\ Head(inbox) \in {"event", "event_error"})
  <2>1. /\ Len(inbox) > 0 /\ Head(inbox) = inbox[1]
        /\ DOMAIN inbox' = 1 .. Len(inbox) - 1
        /\ \A j \in 1 .. Len(inbox) - 1 : inbox'[j] = inbox[j + 1]
    BY <1>1, <1>5, HeadTailProperties, EmptySeq
  <2>2. NoHandle => NoHandle' /\ Head(inbox) # "handle"
    BY <1>1, <2>1 DEF NoHandle
  <2>3. ASSUME EventIsQueued
        PROVE  EventIsQueued' \/ (NoHandle' /\ Head(inbox) \in {"event", "event_error"})
    <3>1. PICK i \in 1 .. Len(inbox) :
            /\ inbox[i] \in {"event", "event_error"}
            /\ \A j \in 1 .. Len(inbox) : j > i => inbox[j] # "handle"
      BY <1>1, <2>3 DEF EventIsQueued
    <3>2. CASE i = 1
      BY <1>1, <2>1, <3>1, <3>2 DEF NoHandle
    <3>3. CASE i > 1
      <4>1. i - 1 \in DOMAIN inbox' /\ inbox'[i - 1] = inbox[i]
        BY <1>1, <2>1, <3>1, <3>3
      <4>2. \A j \in DOMAIN inbox' : j > i - 1 => inbox'[j] # "handle"
        BY <1>1, <2>1, <3>1, <3>3
      <4> QED
        BY <3>1, <4>1, <4>2 DEF EventIsQueued
    <3> QED
      BY <1>1, <3>1, <3>2, <3>3
  <2> QED
    BY <2>2, <2>3
<1> QED
  BY <1>3, <1>4, <1>5

\* A call of sd_card_callback(NULL) by a storage callback that goes on at next: then
\* either the card is free or next is still to come.
LEMMA CallKeepsLettingGo ==
  ASSUME SdTypeOK, NEW next \in Line, storage_callback(FALSE, next)
  PROVE  /\ next \in {"exiting", "release"} => LettingGo'
         /\ line \notin {"exiting", "release"} /\ LettingGo /\ handle' = handle
              => LettingGo'
<1>1. \/ line' = next /\ sdArea' = FALSE /\ frames' = frames
      \/ line' = "none" /\ sdArea' = sdArea /\ frames' = Append(frames, next)
  BY StorageCallbackEffect DEF SdTypeOK
<1>2. CASE line' = next /\ sdArea' = FALSE /\ frames' = frames
  BY <1>2 DEF LettingGo
<1>3. CASE line' = "none" /\ sdArea' = sdArea /\ frames' = Append(frames, next)
  <2>1. Len(frames) \in Nat /\ DOMAIN frames = 1 .. Len(frames)
    BY LenProperties DEF SdTypeOK
  <2>2. /\ DOMAIN frames' = 1 .. Len(frames) + 1
        /\ frames'[Len(frames) + 1] = next
        /\ \A i \in 1 .. Len(frames) : frames'[i] = frames[i]
    BY <1>3, <2>1, AppendProperties DEF SdTypeOK
  <2>3. Len(frames) + 1 \in DOMAIN frames'
        /\ \A i \in DOMAIN frames : i \in DOMAIN frames' /\ frames'[i] = frames[i]
    BY <2>1, <2>2
  <2> QED
    BY <1>3, <2>2, <2>3 DEF LettingGo
<1> QED
  BY <1>1, <1>2, <1>3

\* Every step keeps the news of an exiting card either behind the handles that are
\* queued or in the hands of subscribe_cb().
LEMMA ExitIsAnnouncedInductive ==
  ASSUME "status" \notin Faults, SdTypeOK, Control, StorageControl, ExitIsAnnounced,
         [SdNext]_svars
  PROVE  ExitIsAnnounced'
<1> USE DEF service, library, callbacks
<1>1. /\ TypeOK /\ CallbackRuns /\ NotSubscribed /\ ReleaseComesLast
      /\ inbox \in Seq(Callback)
  BY DEF StorageControl, SdTypeOK
<1> SUFFICES ASSUME card' = "exiting", subscribed'
             PROVE  EventIsQueued' \/ EventIsTakenUp'
  BY DEF ExitIsAnnounced
<1>2. ASSUME card' = card, subscribed' = subscribed, inbox' = inbox,
             LettingGo => LettingGo'
      PROVE  EventIsQueued' \/ EventIsTakenUp'
  BY <1>2 DEF ExitIsAnnounced, EventIsQueued, EventIsTakenUp, NoHandle
<1>3. ASSUME card' = card, subscribed' = subscribed, inbox # <<>>, inbox' = Tail(inbox),
             Head(inbox) \in {"event", "event_error"} => LettingGo',
             Head(inbox) = "failed" /\ LettingGo => LettingGo'
      PROVE  EventIsQueued' \/ EventIsTakenUp'
  <2>1. Head(inbox) \in Callback
    BY <1>1, <1>3, QueueTypes
  <2> QED
    BY <1>1, <1>3, <2>1, QueueKeepsNews DEF ExitIsAnnounced, EventIsTakenUp, Callback
<1>4. ASSUME UNCHANGED <<card, subscribed, inbox, handle, sdArea, line, frames>>
      PROVE  EventIsQueued' \/ EventIsTakenUp'
  BY <1>2, <1>4 DEF LettingGo
<1>5. CASE sd_disk_storage_init
  <2>1. CASE inbox' = <<"event">>
    BY <2>1 DEF EventIsQueued
  <2>2. CASE UNCHANGED <<subscribed, inbox>>
    BY <1>4, <1>5, <2>2 DEF sd_disk_storage_init, main_Boot
  <2> QED
    BY <1>5, <2>1, <2>2 DEF sd_disk_storage_init
<1>6. CASE storage_NotReached
  BY <1>1, <1>4, <1>6, MainKeeps DEF storage_NotReached, Main
<1>7. CASE sd_disk_storage_free \/ storage_Crashes
  BY <1>7 DEF sd_disk_storage_free, storage_Crashes, LetsGo
<1>8. CASE main_Continues
  BY <1>1, <1>4, <1>8, MainKeeps DEF main_Continues
<1>9. CASE subscribe_cb
  BY <1>3, <1>9 DEF subscribe_cb, Begins, Goes, LettingGo
<1>10. CASE subscribe_cb_Error
  <2>1. LettingGo'
    BY <1>10, CallKeepsLettingGo DEF subscribe_cb_Error, Line
  <2> QED
    BY <1>3, <1>10, <2>1 DEF subscribe_cb_Error, Begins
<1>11. CASE subscribe_cb_Exiting
  <2>1. ExitingCalls /\ UNCHANGED <<card, subscribed, inbox>>
    BY <1>11 DEF subscribe_cb_Exiting
  <2>2. LettingGo'
    BY <2>1, CallKeepsLettingGo DEF ExitingCalls, Line
  <2> QED
    BY <1>2, <2>1, <2>2
<1>12. CASE release
  <2>1. sdArea' = FALSE /\ handle' = FALSE
    BY <1>1, <1>12 DEF release, Goes, vars, app, ReleaseComesLast, SdTypeOK, TypeOK, AppType
  <2> QED
    BY <1>2, <1>12, <2>1 DEF release, LettingGo
<1>13. CASE subscribe_cb_Writable
  BY <1>2, <1>13 DEF subscribe_cb_Writable, Goes, LettingGo, vars, app
<1>14. CASE setup_cb
  BY <1>3, <1>14 DEF setup_cb, Begins
<1>15. CASE setup_cb_Error
  <2>1. LettingGo => LettingGo'
    BY <1>15, CallKeepsLettingGo DEF setup_cb_Error, Begins, Line
  <2> QED
    BY <1>3, <1>15, <2>1 DEF setup_cb_Error, Begins
<1>16. CASE storage_Returns
  BY <1>2, <1>16 DEF storage_Returns, sd_disk_storage_Returns, app, LettingGo
<1>17. CASE storage_Resumes
  <2>1. line = "none" /\ frames # <<>> /\ sdArea' = FALSE
    BY <1>1, <1>17, ResumesEffect
  <2>2. /\ Len(frames) \in Nat /\ DOMAIN frames = 1 .. Len(frames)
        /\ DOMAIN Front(frames) = 1 .. Len(frames) - 1
        /\ \A i \in 1 .. Len(frames) - 1 : Front(frames)[i] = frames[i]
    BY <2>1, FrontProperties, LenProperties DEF SdTypeOK, Front
  <2>3. line' = frames[Len(frames)] /\ frames' = Front(frames) /\ handle' = handle
    BY <1>17 DEF storage_Resumes, Last
  <2>4. ASSUME NEW i \in DOMAIN frames, frames[i] \in {"exiting", "release"}
        PROVE  LettingGo'
    <3>1. CASE i = Len(frames)
      BY <2>3, <2>4, <3>1 DEF LettingGo
    <3>2. CASE i # Len(frames)
      <4>1. i \in 1 .. Len(frames) - 1
        BY <2>2, <3>2
      <4> QED
        BY <2>2, <2>3, <2>4, <4>1 DEF LettingGo
    <3> QED
      BY <3>1, <3>2
  <2>5. LettingGo => LettingGo'
    BY <2>1, <2>3, <2>4 DEF LettingGo
  <2> QED
    BY <1>2, <1>17, <2>5 DEF storage_Resumes
<1>18. CASE \E to \in Card : CardChanges(to)
  <2>1. Notify /\ subscribed
    BY <1>18 DEF CardChanges
  <2> QED
    BY <1>1, <2>1, QueueKeepsNews DEF Notify
<1>19. CASE Unmount
  BY <1>19 DEF Unmount
<1>20. CASE AnswerSetup
  <2>1. /\ inbox' = Append(inbox, "failed") /\ card = "exiting" /\ subscribed
        /\ UNCHANGED <<handle, sdArea, line, frames>>
    BY <1>20 DEF AnswerSetup, vars, app
  <2> QED
    BY <1>1, <2>1, QueueKeepsNews DEF ExitIsAnnounced, EventIsTakenUp, LettingGo
<1>21. CASE DevicePowerLoss
  BY <1>21 DEF DevicePowerLoss, LetsGo
<1>22. CASE OtherEvents
  BY <1>4, <1>22, OtherEventsKeep DEF OtherEvents
<1>23. CASE UNCHANGED svars
  BY <1>4, <1>23 DEF svars, vars, app
<1> QED
  BY <1>5, <1>6, <1>7, <1>8, <1>9, <1>10, <1>11, <1>12, <1>13, <1>14, <1>15, <1>16,
     <1>17, <1>18, <1>19, <1>20, <1>21, <1>22, <1>23 DEF SdNext, MainSteps, Service

\* A dockerd that uses the card has been given the area, and main() closes down only
\* when dockerd has ended.
LEMMA NoAreaNoUse ==
  ASSUME RootPrepared, Control
  PROVE  ~sdArea \/ pc \in Ending => ~UsesCard
BY DEF RootPrepared, Control, StopsBeforeExit, UsesCard

\* The service does not unmount a card that is in use.
LEMMA UnmountStep ==
  ASSUME SdTypeOK, Control, StorageControl, RootPrepared, ExitIsAnnounced, [SdNext]_svars,
         card = "exiting", card' = "absent"
  PROVE  ~UsesCard /\ ~handle /\ (subscribed => ~sdArea)
<1>1. Unmount
  <2>1. ASSUME NEW to \in Card, CardChanges(to) PROVE FALSE
    BY <2>1, StorageAssumption DEF CardChanges
  <2>2. ~UNCHANGED card /\ ~DevicePowerLoss
    BY DEF DevicePowerLoss
  <2> QED
    BY <2>1, <2>2 DEF SdNext, MainSteps, Service, svars, service, sd_disk_storage_init,
       storage_NotReached, sd_disk_storage_free, storage_Crashes, main_Continues,
       subscribe_cb, subscribe_cb_Error, subscribe_cb_Exiting, release,
       subscribe_cb_Writable, setup_cb, setup_cb_Error, storage_Returns, storage_Resumes,
       AnswerSetup, OtherEvents
<1>2. CASE subscribed
  <2>1. ~EventIsQueued
    BY <1>1 DEF Unmount, EventsHandled, EventIsQueued
  <2>2. LettingGo
    BY <1>2, <2>1 DEF ExitIsAnnounced, EventIsTakenUp
  <2>3. ~sdArea /\ ~handle
    BY <1>1, <2>2 DEF Unmount, EventsHandled, LettingGo
  <2> QED
    BY <2>3, NoAreaNoUse
<1>3. CASE ~subscribed
  BY <1>3, NoAreaNoUse DEF StorageControl, NotSubscribed
<1> QED
  BY <1>2, <1>3

\* Nobody lets go of the card while dockerd uses it.
LEMMA ReleaseStep ==
  ASSUME SdTypeOK, Control, Control', StorageControl, RootPrepared, [SdNext]_svars,
         handle, ~handle'
  PROVE  ~UsesCard'
<1>1. CASE release
  <2>1. ~sdArea
    BY <1>1 DEF release, Goes, StorageControl, ReleaseComesLast
  <2>2. UNCHANGED <<proc, settings>>
    BY <1>1 DEF release, Goes, vars, child, reading
  <2> QED
    BY <2>1, <2>2, NoAreaNoUse DEF UsesCard
<1>2. CASE sd_disk_storage_free \/ storage_Crashes \/ DevicePowerLoss
  <2>1. pc' \in Ending \cup {"boot"}
    BY <1>2 DEF sd_disk_storage_free, storage_Crashes, DevicePowerLoss, main_Teardown,
       build_daemon_args_Crashes, PowerLoss, Ending
  <2> QED
    BY <2>1 DEF Control, StopsBeforeExit, DeadAtTop, UsesCard
<1>3. handle' # handle
  OBVIOUS
<1> QED
  BY <1>1, <1>2, <1>3 DEF SdNext, MainSteps, Service, svars, sd_disk_storage_init,
     storage_NotReached, main_Continues, subscribe_cb, subscribe_cb_Error,
     subscribe_cb_Exiting, subscribe_cb_Writable, setup_cb, setup_cb_Error,
     storage_Returns, storage_Resumes, CardChanges, Unmount, AnswerSetup, OtherEvents

\* What the storage knows of dockerd's data root.
LEMMA RootStaysPrepared ==
  ASSUME SdCardIsDecided
  PROVE  SdSpec => []RootPrepared
<1>1. Init => RootPrepared
  BY DEF Init, RootPrepared, SdCardIsDecided
<1>2. TypeOK /\ Control /\ RootPrepared /\ [Next]_vars => RootPrepared'
  BY RootPreparedInductive
<1>3. Spec => []RootPrepared
  BY <1>1, <1>2, TypeCorrect, ControlCorrect, PTL DEF Spec
<1> QED
  BY <1>3, Composition, PTL

\* Whatever is under way when a card is about to be unmounted, dockerd does not use it
\* and the application holds nothing of it, as long as the status of the card can be
\* read.
THEOREM UnmountIsSafe ==
  ASSUME SdCardIsDecided, "status" \notin Faults
  PROVE  SdSpec => UnmountFindsCardUnused
<1>1. SdInit => ExitIsAnnounced
  BY DEF SdInit, ExitIsAnnounced
<1>2. /\ SdTypeOK /\ Control /\ StorageControl /\ ExitIsAnnounced /\ [SdNext]_svars
      => ExitIsAnnounced'
  BY ExitIsAnnouncedInductive
<1>3. /\ SdTypeOK /\ Control /\ StorageControl /\ RootPrepared /\ ExitIsAnnounced
      /\ [SdNext]_svars
      => [card = "exiting" /\ card' = "absent" =>
            ~UsesCard /\ ~handle /\ (subscribed => ~sdArea)]_svars
  BY UnmountStep
<1> QED
  BY <1>1, <1>2, <1>3, SdTypeCorrect, StorageControlCorrect, RootStaysPrepared, PTL
     DEF SdSpec, UnmountFindsCardUnused

\* The card's handle is given back only when dockerd does not use the card, whichever
\* calls of the library fail.
THEOREM ReleaseIsSafe ==
  ASSUME SdCardIsDecided
  PROVE  SdSpec => ReleasedAfterUse
<1>1. /\ SdTypeOK /\ Control /\ Control' /\ StorageControl /\ RootPrepared
      /\ [SdNext]_svars
      => [handle /\ ~handle' => ~UsesCard']_svars
  BY ReleaseStep
<1> QED
  BY <1>1, SdTypeCorrect, StorageControlCorrect, RootStaysPrepared, PTL
     DEF SdSpec, ReleasedAfterUse

\* With the card as the storage announces it, dockerd runs with its data root on a card
\* only while it is mounted.
THEOREM CardHoldsDataRootInStorage ==
  ASSUME SdCardIsDecided
  PROVE  SdSpec => []DataRootOnMountedCard
BY Composition, CardHoldsDataRoot, PTL

\* With the storage too, the reason that Status gives is the present one: the card is
\* announced and withdrawn only in ways that the supervisor follows up.
THEOREM StatusIsTrueInStorage ==
  ASSUME AttemptsReport
  PROVE  SdSpec => []IdleStatusTruth
<1> QED
  BY StatusIsTrueWhenIdle, Composition, PTL

===============================================================================
