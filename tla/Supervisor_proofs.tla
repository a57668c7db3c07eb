-------------------------- MODULE Supervisor_proofs --------------------------
(***************************************************************************)
(* Proofs about the supervisor, for all values of the constants: its type  *)
(* invariant, the control invariant and the safety properties that follow  *)
(* from it, and that it implements the life cycle of DockerdLifecycle.     *)
(* The first part holds lemmas on types, the second the control invariant, *)
(* the third what needs one more invariant, the fourth the refinement.     *)
(***************************************************************************)
EXTENDS SupervisorProperties, SequenceTheorems, TLAPS

\* Spending an outside event keeps the budget a function to Nat.
LEMMA SpendType ==
  ASSUME left \in [Event -> Nat], NEW e \in Event, Spend(e)
  PROVE  left' \in [Event -> Nat]
BY DEF Spend

\* Reading a parameter does too: it may spend a read failure.
LEMMA IsParameterYesType ==
  ASSUME left \in [Event -> Nat], NEW p, NEW yes, is_parameter_yes(p, yes)
  PROVE  left' \in [Event -> Nat]
BY SpendType DEF is_parameter_yes, Event

\* Entering stop_dockerd() keeps the child and main loop variables well typed.
LEMMA StopDockerdBeginType ==
  ASSUME TypeOK, stop_dockerd_Begin
  PROVE  ChildType' /\ MainloopType'
BY ConstantsAssumption DEF stop_dockerd_Begin, main_loop_run, TypeOK, ChildType,
   MainloopType

\* Front drops the last element of a sequence and changes nothing else.
LEMMA FrontProperties ==
  ASSUME NEW S, NEW s \in Seq(S), s # <<>>
  PROVE  /\ Front(s) \in Seq(S)
         /\ Len(Front(s)) = Len(s) - 1
         /\ DOMAIN Front(s) = 1 .. Len(s) - 1
         /\ \A i \in DOMAIN Front(s) : i \in DOMAIN s /\ Front(s)[i] = s[i]
<1> DEFINE n == Len(s) - 1
<1>1. n \in Nat /\ DOMAIN s = 1 .. n + 1
  BY EmptySeq, LenProperties
<1>2. \A i \in 1 .. n : s[i] \in S
  BY <1>1, ElementOfSeq
<1> HIDE DEF n
<1>3. /\ SubSeq(s, 1, n) \in Seq(S)
      /\ Len(SubSeq(s, 1, n)) = IF 1 <= n THEN n - 1 + 1 ELSE 0
      /\ \A i \in 1 .. n - 1 + 1 : SubSeq(s, 1, n)[i] = s[1 + i - 1]
  BY <1>1, <1>2, SubSeqProperties
<1>4. Len(SubSeq(s, 1, n)) = n
  BY <1>1, <1>3
<1>5. DOMAIN SubSeq(s, 1, n) = 1 .. n
  BY <1>3, <1>4, LenProperties
<1>6. \A i \in 1 .. n : i \in 1 .. n + 1 /\ i \in 1 .. n - 1 + 1 /\ 1 + i - 1 = i
  BY <1>1
<1>7. \A i \in 1 .. n : i \in DOMAIN s /\ SubSeq(s, 1, n)[i] = s[i]
  BY <1>1, <1>3, <1>6
<1> QED
  BY <1>3, <1>4, <1>5, <1>7 DEF Front, n

\* A stop_dockerd() that returns leaves the outer ones as they were.
LEMMA FrontOfStops ==
  ASSUME TypeOK, stops # <<>>
  PROVE  /\ Front(stops) \in Seq(0 .. TimeToSigkill + 1)
         /\ Len(Front(stops)) = Len(stops) - 1
         /\ \A i \in DOMAIN Front(stops) :
              i \in DOMAIN stops /\ Front(stops)[i] = stops[i]
<1>1. stops \in Seq(0 .. TimeToSigkill + 1)
  BY DEF TypeOK, MainloopType
<1> QED
  BY <1>1, FrontProperties

\* Replacing an element of a sequence keeps its type.
LEMMA ExceptType ==
  ASSUME NEW S, NEW s \in Seq(S), NEW i \in DOMAIN s, NEW e \in S
  PROVE  [s EXCEPT ![i] = e] \in Seq(S)
<1>1. i \in 1 .. Len(s)
  BY LenProperties
<1> QED
  BY <1>1, ExceptSeq, Zenon

\* A group of variables that an action leaves alone keeps its type.
LEMMA UnchangedType ==
  ASSUME TypeOK
  PROVE  /\ UNCHANGED device => DeviceType'
         /\ UNCHANGED child => ChildType'
         /\ UNCHANGED sources => SourcesType'
         /\ UNCHANGED mainloop => MainloopType'
         /\ UNCHANGED reading => ReadingType'
         /\ UNCHANGED app => AppType'
         /\ UNCHANGED report => ReportType'
<1>1. UNCHANGED device => DeviceType' BY DEF TypeOK, device, DeviceType
<1>2. UNCHANGED child => ChildType' BY DEF TypeOK, child, ChildType
<1>3. UNCHANGED sources => SourcesType' BY DEF TypeOK, sources, SourcesType
<1>4. UNCHANGED mainloop => MainloopType' BY DEF TypeOK, mainloop, MainloopType
<1>5. UNCHANGED reading => ReadingType' BY DEF TypeOK, reading, ReadingType
<1>6. UNCHANGED app => AppType' BY DEF TypeOK, app, AppType
<1>7. UNCHANGED report => ReportType' BY DEF TypeOK, report, ReportType
<1> QED BY <1>1, <1>2, <1>3, <1>4, <1>5, <1>6, <1>7

\* The initial state is well typed.
LEMMA TypeInitial == Init => TypeOK
<1> SUFFICES ASSUME Init PROVE TypeOK
  OBVIOUS
<1>1. DeviceType /\ ReportType /\ left \in [Event -> Nat]
  BY ConstantsAssumption DEF Init, DeviceType, ReportType
<1>2. ChildType /\ AppType
  BY DEF Init, Cause, ChildType, AppType
<1>3. SourcesType /\ MainloopType
  BY EmptySeq DEF Init, SourcesType, MainloopType
<1>4. ReadingType
  BY DEF Init, ReadingType
<1> QED
  BY <1>1, <1>2, <1>3, <1>4 DEF Init, TypeOK, Label

\* Every step keeps the types: one case per action of Next.
LEMMA TypeInductive == TypeOK /\ [Next]_vars => TypeOK'
<1> SUFFICES ASSUME TypeOK, [Next]_vars PROVE TypeOK'
  OBVIOUS
<1> USE UnchangedType DEF TypeOK
<1>1. CASE main_Boot
  BY <1>1, IsParameterYesType DEF main_Boot, Label, Event, AppType
<1>2. CASE main_BootFails
  BY <1>2, SpendType DEF main_BootFails, Label, Event, Ending, AppType
<1>3. CASE main_Top
  BY <1>3 DEF main_Top, Label, Cause, Starting, Ending, ChildType
<1>4. CASE main_Run
  BY <1>4 DEF main_Run, Label, Loops, main_loop_run, MainloopType
<1>5. CASE main_LoopReturned
  BY <1>5, IsParameterYesType DEF main_LoopReturned, Label, Event, AppType
<1>6. CASE main_Teardown
  BY <1>6 DEF main_Teardown, Label, Ending
<1>7. CASE main_Exit
  BY <1>7 DEF main_Exit, Label, Ending, set_status_parameter, Status, ReportType
<1>8. CASE read_settings_TCP
  BY <1>8, IsParameterYesType DEF read_settings_TCP, Label, Starting, ReadingType
<1>9. CASE get_and_verify_tls_selection
  <2>1. settings' \in [Setting -> BOOLEAN]
    BY <1>9 DEF get_and_verify_tls_selection, ReadingType
  <2>3. ReadingType' /\ pc' \in Label
    BY <1>9, <2>1 DEF get_and_verify_tls_selection, Label, Starting, ReadingType
  <2>2. left' \in [Event -> Nat]
    BY <1>9, IsParameterYesType DEF get_and_verify_tls_selection
  <2> QED
    BY <1>9, <2>2, <2>3 DEF get_and_verify_tls_selection
<1>10. CASE tls_missing_certs
  <2>3. certIdx' \in 1 .. 3
    <3>1. certIdx \in 1 .. 3
      BY DEF ReadingType
    <3>2. certIdx' \in {1, certIdx + 1} /\ (certIdx = 3 => certIdx' = 1)
      BY <1>10 DEF tls_missing_certs
    <3> QED
      BY <3>1, <3>2
  <2>1. ReadingType'
    BY <1>10, <2>3 DEF tls_missing_certs, ReadingType
  <2>2. ReportType' /\ pc' \in Label
    BY <1>10 DEF tls_missing_certs, Label, Starting, set_status_parameter, Status,
       ReportType
  <2> QED
    BY <1>10, <2>1, <2>2 DEF tls_missing_certs
<1>11. CASE read_settings_IPC
  BY <1>11, IsParameterYesType DEF read_settings_IPC, Label, Starting,
     set_status_parameter, Status, ReadingType, ReportType
<1>12. CASE read_settings_ShareIPC
  BY <1>12 DEF read_settings_ShareIPC, Label, Starting, AppType
<1>13. CASE read_settings_ShareIPCFails
  BY <1>13, SpendType DEF read_settings_ShareIPCFails, Label, Event, quit_program,
     main_loop_quit, AppType, MainloopType
<1>14. CASE read_settings_SD
  BY <1>14, IsParameterYesType DEF read_settings_SD, Label, Starting, main_loop_run,
     SourcesType, MainloopType
<1>15. CASE read_settings_WaitReturned
  BY <1>15 DEF read_settings_WaitReturned, Label, Starting, SourcesType
<1>16. CASE prepare_data_root
  BY <1>16, IsParameterYesType DEF prepare_data_root, Label, Starting,
     set_status_parameter, Status, ReadingType, ReportType
<1>17. CASE setup_sdcard_Fails
  BY <1>17, SpendType DEF setup_sdcard_Fails, Label, Event, set_status_parameter,
     Status, ReportType
<1>18. CASE start_dockerd
  BY <1>18 DEF start_dockerd, Label, set_status_parameter, Status, Param,
     DeviceType, ChildType, ReadingType, ReportType
<1>19. CASE start_dockerd_Fails
  BY <1>19, SpendType DEF start_dockerd_Fails, Label, Event, set_status_parameter,
     Status, ReportType
<1>20. CASE build_daemon_args_Crashes
  BY <1>20, SpendType DEF build_daemon_args_Crashes, Label, Ending, Event, AppType
<1>21. CASE main_StopDockerd
  BY <1>21, StopDockerdBeginType DEF main_StopDockerd, Label, Loops, Cause,
     is_process_alive_Reap, ChildType, MainloopType
<1>22. CASE stop_dockerd_KeepWaiting
  BY <1>22 DEF stop_dockerd_KeepWaiting, main_loop_run, MainloopType
<1>23. CASE stop_dockerd_Returns
  <2>1. stops # <<>>
    BY <1>23 DEF stop_dockerd_Returns
  <2>2. MainloopType'
    BY <1>23, <2>1, FrontOfStops DEF stop_dockerd_Returns, MainloopType
  <2> QED
    BY <1>23, <2>2 DEF stop_dockerd_Returns, Label
<1>24. CASE sd_card_callback_Resumes
  <2>1. stops # <<>>
    <3>1. Len(stops) \in Nat
      BY LenProperties DEF MainloopType
    <3>2. InSdCardCallback
      BY <1>24 DEF sd_card_callback_Resumes
    <3>3. Len(stops) # 0
      <4>1. CASE pc = "stopping"
        BY <3>1, <3>2, <4>1 DEF InSdCardCallback
      <4>2. CASE pc # "stopping"
        BY <3>1, <3>2, <4>2 DEF InSdCardCallback
      <4> QED
        BY <4>1, <4>2
    <3> QED
      BY <3>3, EmptySeq
  <2>2. MainloopType' /\ ReportType'
    BY <1>24, <2>1, FrontOfStops DEF sd_card_callback_Resumes, set_status_parameter,
       Status, Source, main_loop_quit, MainloopType, ReportType
  <2> QED
    BY <1>24, <2>2 DEF sd_card_callback_Resumes, AppType
<1>25. CASE Iterate
  BY <1>25 DEF Iterate, ReadySources, MainloopType
<1>26. CASE handle_signals
  BY <1>26 DEF handle_signals, Dispatched, quit_program, main_loop_quit,
     SourcesType, MainloopType, AppType
<1>27. CASE restart_dockerd_when_parameter_changed
  BY <1>27 DEF restart_dockerd_when_parameter_changed, Dispatched, ArmTimers,
     SourcesType, MainloopType, AppType
<1>28. CASE quit_main_loop
  <2>1. timers' \in Nat
    BY <1>28 DEF quit_main_loop, SourcesType
  <2>2. batch' \subseteq Source /\ isRunning' \in BOOLEAN
    BY <1>28 DEF quit_main_loop, Dispatched, main_loop_quit, MainloopType
  <2> QED
    BY <1>28, <2>1, <2>2 DEF quit_main_loop, SourcesType, MainloopType
<1>29. CASE quit_main_loop_Wait
  BY <1>29 DEF quit_main_loop_Wait, Dispatched, main_loop_quit, SourcesType,
     MainloopType
<1>30. CASE monitor_dockerd_termination
  <2>3. PICK i \in DOMAIN stops :
          stops' = [stops EXCEPT ![i] = 0] \/
          stops' = [stops EXCEPT ![i] = IF stops[i] > TimeToSigkill
                                          THEN stops[i] ELSE stops[i] + 1]
    BY <1>30 DEF monitor_dockerd_termination, KillDue
  <2>5. stops' \in Seq(0 .. TimeToSigkill + 1)
    <3>1. stops \in Seq(0 .. TimeToSigkill + 1) /\ TimeToSigkill \in Nat
      BY ConstantsAssumption DEF MainloopType
    <3>2. i \in 1 .. Len(stops)
      BY <3>1, LenProperties
    <3>3. stops[i] \in 0 .. TimeToSigkill + 1
      BY <3>1, <3>2, ElementOfSeq
    <3>4. PICK t \in 0 .. TimeToSigkill + 1 : stops' = [stops EXCEPT ![i] = t]
      BY <2>3, <3>1, <3>3
    <3> QED
      BY <3>1, <3>4, ExceptType
  <2>6. sig' \in {"none", "term", "kill"}
    BY <1>30 DEF monitor_dockerd_termination, LastSignal, ChildType
  <2>2. batch' \subseteq Source /\ isRunning' \in BOOLEAN
    BY <1>30 DEF monitor_dockerd_termination, Dispatched, main_loop_quit,
       MainloopType
  <2> QED
    BY <1>30, <2>2, <2>5, <2>6 DEF monitor_dockerd_termination, ChildType,
       MainloopType
<1>31. CASE check_child_process_exit_code_and_clean_up
  BY <1>31 DEF check_child_process_exit_code_and_clean_up, Dispatched,
     main_loop_quit, set_status_parameter, Status, ChildType, MainloopType, AppType,
     ReportType
<1>32. ASSUME NEW area \in BOOLEAN, sd_card_callback(area) PROVE TypeOK'
  <2>1. MainloopType'
    BY <1>32 DEF sd_card_callback, QuitIfUsed, MainloopType
  <2>2. left' \in [Event -> Nat]
    BY <1>32, IsParameterYesType DEF sd_card_callback
  <2> QED
    BY <1>32, <2>1, <2>2 DEF sd_card_callback, AppType
<1>33. CASE sd_card_callback_Unmount
  <2>1. MainloopType' /\ ReportType'
    BY <1>33 DEF sd_card_callback_Unmount, main_loop_quit, MainloopType,
       set_status_parameter, Status, ReportType
  <2>2. left' \in [Event -> Nat]
    BY <1>33, IsParameterYesType DEF sd_card_callback_Unmount
  <2>3. ChildType'
    BY <1>33 DEF sd_card_callback_Unmount, is_process_alive_Reap, Cause, ChildType
  <2> QED
    BY <1>33, <2>1, <2>2, <2>3 DEF sd_card_callback_Unmount, AppType
<1>34. CASE sd_card_callback_StopsDockerd
  <2>1. left' \in [Event -> Nat]
    BY <1>34, IsParameterYesType DEF sd_card_callback_StopsDockerd
  <2>2. ChildType' /\ MainloopType'
    BY <1>34, StopDockerdBeginType DEF sd_card_callback_StopsDockerd
  <2> QED
    BY <1>34, <2>1, <2>2 DEF sd_card_callback_StopsDockerd
<1>35. CASE restart_dockerd_after_file_upload_Allow
  BY <1>35 DEF restart_dockerd_after_file_upload_Allow, AppType
<1>36. CASE restart_dockerd_after_file_upload_Quit
  BY <1>36 DEF restart_dockerd_after_file_upload_Quit, main_loop_quit, MainloopType
<1>37. CASE Signal
  BY <1>37, SpendType DEF Signal, Event, SourcesType
<1>38. CASE GlibReap
  BY <1>38 DEF GlibReap, ChildType
<1>39. CASE PowerLoss
  <2>1. ChildType'
    BY <1>39 DEF PowerLoss, Cause, ChildType
  <2>4. SourcesType' /\ MainloopType'
    BY <1>39, EmptySeq DEF PowerLoss, SourcesType, MainloopType
  <2>5. ReadingType'
    BY <1>39 DEF PowerLoss, ReadingType
  <2>2. AppType' /\ ReportType'
    BY <1>39 DEF PowerLoss, AppType, ReportType
  <2>3. left' \in [Event -> Nat]
    BY <1>39, SpendType DEF PowerLoss, Event
  <2> QED
    BY <1>39, <2>1, <2>2, <2>3, <2>4, <2>5 DEF PowerLoss, Label
<1>40. ASSUME NEW f \in CertFile, copy_to_localdata(f) PROVE TypeOK'
  BY <1>40, SpendType DEF copy_to_localdata, Event, DeviceType
<1>50. CASE copy_to_localdata_Ends
  BY <1>50, SpendType DEF copy_to_localdata_Ends, Event, DeviceType
<1>41. ASSUME NEW f \in CertFile, delete_request(f) PROVE TypeOK'
  BY <1>41, SpendType DEF delete_request, Event, DeviceType
<1>42. ASSUME NEW p \in Changeable, ChangeParam(p) PROVE TypeOK'
  <2>1. DeviceType'
    BY <1>42 DEF ChangeParam, DeviceType
  <2>2. SourcesType'
    BY <1>42 DEF ChangeParam, SourcesType
  <2>3. left' \in [Event -> Nat]
    BY <1>42, SpendType DEF ChangeParam, Event
  <2> QED
    BY <1>42, <2>1, <2>2, <2>3 DEF ChangeParam
<1>43. CASE sd_disk_storage_Returns
  BY <1>43 DEF sd_disk_storage_Returns, Dispatched, MainloopType
<1>44. ASSUME NEW cause \in Cause, DockerdExit(cause) PROVE TypeOK'
  BY <1>44, SpendType DEF DockerdExit, Event, ChildType
<1>45. CASE UNCHANGED vars
  BY <1>45 DEF vars
<1> QED
  BY <1>1, <1>2, <1>3, <1>4, <1>5, <1>6, <1>7, <1>8, <1>9, <1>10, <1>11,
      <1>12, <1>13, <1>14, <1>15, <1>16, <1>17, <1>18, <1>19, <1>20, <1>21,
      <1>22, <1>23, <1>24, <1>25, <1>26, <1>27, <1>28, <1>29, <1>30, <1>31,
      <1>32, <1>33, <1>34, <1>35, <1>36, <1>37, <1>38, <1>39, <1>40, <1>50, <1>41,
      <1>42, <1>43, <1>44, <1>45 DEF Next, MainThread, Main, SdCard,
      FcgiThread, Environment

\* The control invariant holds initially.
LEMMA ControlInitial == Init => Control
BY DEF Init, Control, CallStack, EndedStops, ChildWatch, DeadAtTop, UploadsEnd,
   StartsAlone, StopsBeforeExit, StatusTracksDockerd, Starting, Ending

\* stop_dockerd() sends SIGTERM only to a running dockerd, so that no stop on the
\* stack, the new one included, counts as ended.
LEMMA StopDockerdBeginControl ==
  ASSUME TypeOK, Control, stop_dockerd_Begin
  PROVE  EndedStops' /\ ChildWatch' /\ stops' # <<>>
<1>1. /\ DOMAIN stops' = 1 .. Len(stops) + 1
      /\ \A i \in 1 .. Len(stops) : stops'[i] = stops[i]
      /\ stops'[Len(stops) + 1] = 1
      /\ stops' # <<>>
  <2>1. stops \in Seq(Nat) /\ Len(stops) \in Nat /\ stops' = Append(stops, 1)
    BY LenProperties, ConstantsAssumption
       DEF TypeOK, MainloopType, stop_dockerd_Begin
  <2> QED
    BY <2>1, AppendProperties, LenProperties
<1>2. \A i \in DOMAIN stops : stops[i] # 0
  BY DEF stop_dockerd_Begin, is_process_alive, Control, EndedStops
<1>3. Len(stops) \in Nat /\ DOMAIN stops = 1 .. Len(stops)
  BY LenProperties DEF TypeOK, MainloopType
<1>4. \A i \in DOMAIN stops' : stops'[i] # 0
  BY <1>1, <1>2, <1>3
<1> QED
  BY <1>1, <1>4 DEF EndedStops, ChildWatch, stop_dockerd_Begin, main_loop_run

\* sd_card_callback() goes on only when dockerd has ended, in whichever of the nested
\* main loops it was dispatched.
LEMMA ResumesAfterDockerd ==
  ASSUME TypeOK, Control, sd_card_callback_Resumes
  PROVE  /\ Len(stops) \in Nat /\ stops # <<>> /\ proc = "none"
         /\ pc = "stopping" => Len(stops) > 1
<1>1. Len(stops) \in Nat /\ DOMAIN stops = 1 .. Len(stops)
  BY LenProperties DEF TypeOK, MainloopType
<1>2. Len(stops) # 0 /\ (pc = "stopping" => Len(stops) > 1)
  <2>1. InSdCardCallback
    BY DEF sd_card_callback_Resumes
  <2>2. CASE pc = "stopping"
    BY <1>1, <2>1, <2>2 DEF InSdCardCallback
  <2>3. CASE pc # "stopping"
    BY <1>1, <2>1, <2>3 DEF InSdCardCallback
  <2> QED
    BY <2>2, <2>3
<1>3. stops # <<>>
  BY <1>2, EmptySeq
<1>4. Len(stops) \in DOMAIN stops
  BY <1>1, <1>2
<1>6. stops[Len(stops)] = 0
  BY DEF sd_card_callback_Resumes, StopIsOver, Last
<1>5. proc = "none"
  BY <1>4, <1>6 DEF Control, EndedStops
<1> QED
  BY <1>1, <1>2, <1>3, <1>5

\* Every step keeps the control invariant.  The cases that carry the argument are
\* stop_dockerd_Returns and sd_card_callback_Resumes (a stop on the stack that has
\* ended means that there is no dockerd), Iterate and the child callback (the child
\* watch is dispatched only for a dockerd that has been reaped, never while main()
\* is starting one) and start_dockerd (no stop is on the stack).
LEMMA ControlInductive == TypeOK /\ Control /\ [Next]_vars => Control'
<1> SUFFICES ASSUME TypeOK, Control, [Next]_vars PROVE Control'
  OBVIOUS
<1> USE DEF TypeOK, Control, CallStack, EndedStops, ChildWatch, DeadAtTop,
            UploadsEnd, StartsAlone, StopsBeforeExit, StatusTracksDockerd, Starting, Ending
<1>1. CASE main_Boot
  BY <1>1 DEF main_Boot, child, mainloop, report
<1>2. CASE main_BootFails
  BY <1>2 DEF main_BootFails, child, mainloop, report
<1>3. CASE main_Top
  BY <1>3 DEF main_Top, main_MayStart, child, mainloop, app, report
<1>4. CASE main_Run
  BY <1>4 DEF main_Run, main_loop_run, child, app, report
<1>5. CASE main_LoopReturned
  BY <1>5 DEF main_LoopReturned, child, mainloop, report
<1>6. CASE main_Teardown
  BY <1>6 DEF main_Teardown, child, mainloop, app, report
<1>7. CASE main_Exit
  BY <1>7 DEF main_Exit, set_status_parameter, child, mainloop, app
<1>8. CASE read_settings_TCP
  BY <1>8 DEF read_settings_TCP, child, mainloop, app, report
<1>9. CASE get_and_verify_tls_selection
  BY <1>9 DEF get_and_verify_tls_selection, child, mainloop, app, report
<1>10. CASE tls_missing_certs
  BY <1>10 DEF tls_missing_certs, set_status_parameter, child, mainloop, app, report
<1>11. CASE read_settings_IPC
  BY <1>11 DEF read_settings_IPC, set_status_parameter, child, mainloop, app, report
<1>12. CASE read_settings_ShareIPC
  BY <1>12 DEF read_settings_ShareIPC, child, mainloop, report
<1>13. CASE read_settings_ShareIPCFails
  BY <1>13 DEF read_settings_ShareIPCFails, child, report
<1>14. CASE read_settings_SD
  BY <1>14 DEF read_settings_SD, main_loop_run, child, app, report
<1>15. CASE read_settings_WaitReturned
  BY <1>15 DEF read_settings_WaitReturned, child, mainloop, app, report
<1>16. CASE prepare_data_root
  BY <1>16 DEF prepare_data_root, set_status_parameter, child, mainloop, app, report
<1>17. CASE setup_sdcard_Fails
  BY <1>17 DEF setup_sdcard_Fails, set_status_parameter, child, mainloop, app
<1>18. CASE start_dockerd
  BY <1>18 DEF start_dockerd, set_status_parameter, mainloop, app
<1>19. CASE start_dockerd_Fails
  BY <1>19 DEF start_dockerd_Fails, set_status_parameter, child, mainloop, app
<1>20. CASE build_daemon_args_Crashes
  BY <1>20 DEF build_daemon_args_Crashes, child, mainloop, report
<1>21. CASE main_StopDockerd
  <2>1. stops = <<>> /\ pc = "stop"
    BY <1>21 DEF main_StopDockerd
  <2>2. CASE stop_dockerd_Begin /\ pc' = "stopping"
    <3>1. EndedStops' /\ ChildWatch' /\ stops' # <<>>
      BY <2>2, StopDockerdBeginControl
    <3> QED
      BY <1>21, <2>1, <2>2, <3>1 DEF main_StopDockerd, stop_dockerd_Begin,
         is_process_alive, app, report
  <2>3. CASE ~is_process_alive /\ is_process_alive_Reap /\ pc' = "top" /\ UNCHANGED mainloop
    BY <1>21, <2>1, <2>3 DEF main_StopDockerd, is_process_alive,
       is_process_alive_Reap, child, mainloop, app, report
  <2> QED
    BY <1>21, <2>2, <2>3 DEF main_StopDockerd
<1>22. CASE stop_dockerd_KeepWaiting
  BY <1>22 DEF stop_dockerd_KeepWaiting, main_loop_run, child, app, report
<1>23. CASE stop_dockerd_Returns
  <2>1. Len(stops) = 1 /\ stops # <<>>
    BY <1>23 DEF stop_dockerd_Returns
  <2>2. stops' = <<>> /\ proc = "none"
    <3>1. DOMAIN stops = 1 .. 1 /\ stops[Len(stops)] = 0
      BY <1>23, <2>1, LenProperties DEF stop_dockerd_Returns, StopIsOver, Last,
         MainloopType
    <3>2. proc = "none"
      BY <2>1, <3>1
    <3>3. stops' = Front(stops)
      BY <1>23 DEF stop_dockerd_Returns
    <3>4. stops' \in Seq(0 .. TimeToSigkill + 1) /\ Len(stops') = 0
      BY <2>1, <3>3, FrontOfStops
    <3> QED
      BY <3>2, <3>4, EmptySeq
  <2> QED
    BY <1>23, <2>2 DEF stop_dockerd_Returns, child, app, report
<1>24. CASE sd_card_callback_Resumes
  <2>3. /\ Len(stops) \in Nat /\ stops # <<>> /\ proc = "none"
        /\ pc = "stopping" => Len(stops) > 1
    BY <1>24, ResumesAfterDockerd
  <2>4. /\ stops' \in Seq(0 .. TimeToSigkill + 1)
        /\ Len(stops') = Len(stops) - 1
        /\ \A i \in DOMAIN stops' : i \in DOMAIN stops /\ stops'[i] = stops[i]
    <3>1. stops' = Front(stops)
      BY <1>24 DEF sd_card_callback_Resumes
    <3> QED
      BY <2>3, <3>1, FrontOfStops
  <2>5. CallStack'
    <3>1. pc' = pc /\ pc \in {"looping", "stopping"}
      BY <1>24, <2>3 DEF sd_card_callback_Resumes
    <3>2. pc = "stopping" => Len(stops') # 0
      BY <2>3, <2>4
    <3> QED
      BY <3>1, <3>2, EmptySeq
  <2>6. EndedStops' /\ ChildWatch'
    BY <1>24, <2>3, <2>4 DEF sd_card_callback_Resumes, child
  <2>7. StatusTracksDockerd'
    BY <1>24, <2>3 DEF sd_card_callback_Resumes, set_status_parameter, child
  <2> QED
    BY <1>24, <2>5, <2>6, <2>7 DEF sd_card_callback_Resumes, child
<1>25. CASE Iterate
  <2>1. ChildWatch'
    BY <1>25 DEF Iterate, ReadySources, Source, child
  <2> QED
    BY <1>25, <2>1 DEF Iterate, child, app, report
<1>26. CASE handle_signals
  BY <1>26 DEF handle_signals, Dispatched, child, report
<1>27. CASE restart_dockerd_when_parameter_changed
  BY <1>27 DEF restart_dockerd_when_parameter_changed, Dispatched, child, report
<1>28. CASE quit_main_loop
  BY <1>28 DEF quit_main_loop, Dispatched, child, app, report
<1>29. CASE quit_main_loop_Wait
  BY <1>29 DEF quit_main_loop_Wait, Dispatched, child, app, report
<1>30. CASE monitor_dockerd_termination
  <2>1. PICK i \in DOMAIN stops : stops[i] # 0 /\
          \/ proc = "none" /\ stops' = [stops EXCEPT ![i] = 0]
          \/ \E t \in {stops[i], stops[i] + 1} : stops' = [stops EXCEPT ![i] = t]
    BY <1>30 DEF monitor_dockerd_termination
  <2>2. stops[i] \in Nat
    <3>1. TimeToSigkill + 1 \in Nat /\ stops \in Seq(0 .. TimeToSigkill + 1)
      BY ConstantsAssumption DEF MainloopType
    <3>2. i \in 1 .. Len(stops)
      BY <3>1, LenProperties
    <3>3. stops[i] \in 0 .. TimeToSigkill + 1
      BY <3>1, <3>2, ElementOfSeq
    <3> QED
      BY <3>1, <3>3
  <2>3. DOMAIN stops' = DOMAIN stops /\ stops # <<>>
    BY <2>1
  <2>4. CallStack'
    BY <1>30, <2>1, <2>3 DEF monitor_dockerd_termination
  <2>5. EndedStops'
    BY <1>30, <2>1, <2>2, <2>3 DEF monitor_dockerd_termination
  <2>6. ChildWatch'
    BY <1>30 DEF monitor_dockerd_termination, Dispatched
  <2> QED
    BY <1>30, <2>4, <2>5, <2>6 DEF monitor_dockerd_termination, app, report
<1>31. CASE check_child_process_exit_code_and_clean_up
  BY <1>31 DEF check_child_process_exit_code_and_clean_up, set_status_parameter,
     Dispatched, child
<1>32. ASSUME NEW area \in BOOLEAN, sd_card_callback(area) PROVE Control'
  BY <1>32 DEF sd_card_callback, child, report
<1>33. CASE sd_card_callback_Unmount
  <2>1. proc # "alive" /\ proc' # "alive" /\ (proc = "none" <=> proc' = "none")
    BY <1>33 DEF sd_card_callback_Unmount, is_process_alive, is_process_alive_Reap,
       child
  <2>2. ChildWatch'
    BY <1>33 DEF sd_card_callback_Unmount, is_process_alive_Reap, child
  <2>3. StatusTracksDockerd'
    BY <1>33, <2>1 DEF sd_card_callback_Unmount, set_status_parameter
  <2> QED
    BY <1>33, <2>1, <2>2, <2>3 DEF sd_card_callback_Unmount
<1>34. CASE sd_card_callback_StopsDockerd
  <2>1. EndedStops' /\ ChildWatch' /\ stops' # <<>>
    BY <1>34, StopDockerdBeginControl DEF sd_card_callback_StopsDockerd
  <2>2. proc = "alive" /\ proc' = "alive"
    BY <1>34 DEF sd_card_callback_StopsDockerd, stop_dockerd_Begin, is_process_alive
  <2>3. pc \in {"looping", "stopping"} /\ pc' = pc
    BY <1>34, <2>2 DEF sd_card_callback_StopsDockerd, InStorageCallback, Loops
  <2> QED
    BY <1>34, <2>1, <2>2, <2>3 DEF sd_card_callback_StopsDockerd, app, report
<1>35. CASE restart_dockerd_after_file_upload_Allow
  BY <1>35 DEF restart_dockerd_after_file_upload_Allow, child, mainloop, report
<1>36. CASE restart_dockerd_after_file_upload_Quit
  BY <1>36 DEF restart_dockerd_after_file_upload_Quit, child, app, report
<1>37. CASE Signal
  BY <1>37 DEF Signal, child, mainloop, app, report
<1>38. CASE GlibReap
  BY <1>38 DEF GlibReap, mainloop, app, report
<1>39. CASE PowerLoss
  BY <1>39 DEF PowerLoss
<1>40. ASSUME NEW f \in CertFile, copy_to_localdata(f) PROVE Control'
  BY <1>40 DEF copy_to_localdata, child, mainloop, app, report
<1>50. CASE copy_to_localdata_Ends
  BY <1>50 DEF copy_to_localdata_Ends, child, mainloop, app, report
<1>41. ASSUME NEW f \in CertFile, delete_request(f) PROVE Control'
  BY <1>41 DEF delete_request, child, mainloop, app, report
<1>42. ASSUME NEW p \in Changeable, ChangeParam(p) PROVE Control'
  BY <1>42 DEF ChangeParam, child, mainloop, app, report
<1>43. CASE sd_disk_storage_Returns
  BY <1>43 DEF sd_disk_storage_Returns, Dispatched, child, app, report
<1>44. ASSUME NEW cause \in Cause, DockerdExit(cause) PROVE Control'
  BY <1>44 DEF DockerdExit, mainloop, app, report
<1>45. CASE UNCHANGED vars
  BY <1>45 DEF vars, child, mainloop, app, report
<1> QED
  BY <1>1, <1>2, <1>3, <1>4, <1>5, <1>6, <1>7, <1>8, <1>9, <1>10, <1>11, <1>12,
     <1>13, <1>14, <1>15, <1>16, <1>17, <1>18, <1>19, <1>20, <1>21, <1>22, <1>23,
     <1>24, <1>25, <1>26, <1>27, <1>28, <1>29, <1>30, <1>31, <1>32, <1>33, <1>34,
     <1>35, <1>36, <1>37, <1>38, <1>39, <1>40, <1>50, <1>41, <1>42, <1>43, <1>44, <1>45
     DEF Next, MainThread, Main, SdCard, FcgiThread, Environment

\* Every variable of the supervisor has its type in every reachable state: for any
\* time limit, any sets of initial values and any number of outside events.
THEOREM TypeCorrect == Spec => []TypeOK
<1>1. QED
  BY TypeInitial, TypeInductive, PTL DEF Spec

\* The call stack of nested main loops, the stops on it, the child watch and
\* rootlesskit_pid always agree with the control point of the main thread.
THEOREM ControlCorrect == Spec => []Control
<1>1. QED
  BY TypeCorrect, ControlInitial, ControlInductive, PTL DEF Spec

\* main() never closes down over a running dockerd.
THEOREM ExitsAfterDockerd == Spec => []StopsBeforeExit
<1>1. Control => StopsBeforeExit
  BY DEF Control
<1> QED
  BY <1>1, ControlCorrect, PTL

\* Status is RUNNING while dockerd runs, and is RUNNING only if one was spawned whose
\* end has not been handled.
THEOREM StatusFollowsDockerd == Spec => []StatusTracksDockerd
<1>1. Control => StatusTracksDockerd
  BY DEF Control
<1> QED
  BY <1>1, ControlCorrect, PTL

\* Every step keeps ErrorForbids, and none starts dockerd after a reported error
\* without an announced change or upload.
LEMMA ErrorForbidsInductive ==
  ASSUME ErrorForbids, [Next]_vars
  PROVE  /\ ErrorForbids'
         /\ pc = "top" /\ pc' = "read_tcp" => waitStatus # "error" \/ pendingChange
<1> DEFINE Goal ==
      /\ ErrorForbids'
      /\ pc = "top" /\ pc' = "read_tcp" => waitStatus # "error" \/ pendingChange
<1> USE DEF ErrorForbids
<1>1. CASE main_Boot
  BY <1>1 DEF main_Boot, child
<1>2. CASE main_BootFails
  BY <1>2 DEF main_BootFails, child
<1>3. CASE main_Top
  BY <1>3 DEF main_Top, main_MayStart, child, app
<1>4. CASE main_Run
  BY <1>4 DEF main_Run, child, app
<1>5. CASE main_LoopReturned
  BY <1>5 DEF main_LoopReturned, child
<1>6. CASE main_Teardown
  BY <1>6 DEF main_Teardown, child, app
<1>7. CASE main_Exit
  BY <1>7 DEF main_Exit, child, app
<1>8. CASE read_settings_TCP
  BY <1>8 DEF read_settings_TCP, child, app
<1>9. CASE get_and_verify_tls_selection
  BY <1>9 DEF get_and_verify_tls_selection, child, app
<1>10. CASE tls_missing_certs
  BY <1>10 DEF tls_missing_certs, child, app
<1>11. CASE read_settings_IPC
  BY <1>11 DEF read_settings_IPC, child, app
<1>12. CASE read_settings_ShareIPC
  BY <1>12 DEF read_settings_ShareIPC, child
<1>13. CASE read_settings_ShareIPCFails
  BY <1>13 DEF read_settings_ShareIPCFails, child
<1>14. CASE read_settings_SD
  BY <1>14 DEF read_settings_SD, child, app
<1>15. CASE read_settings_WaitReturned
  BY <1>15 DEF read_settings_WaitReturned, child, app
<1>16. CASE prepare_data_root
  BY <1>16 DEF prepare_data_root, child, app
<1>17. CASE setup_sdcard_Fails
  BY <1>17 DEF setup_sdcard_Fails, child, app
<1>18. CASE start_dockerd
  BY <1>18 DEF start_dockerd, app
<1>19. CASE start_dockerd_Fails
  BY <1>19 DEF start_dockerd_Fails, child, app
<1>20. CASE build_daemon_args_Crashes
  BY <1>20 DEF build_daemon_args_Crashes, child
<1>21. CASE main_StopDockerd
  BY <1>21 DEF main_StopDockerd, is_process_alive_Reap, is_process_alive,
     stop_dockerd_Begin, child, app
<1>22. CASE stop_dockerd_KeepWaiting
  BY <1>22 DEF stop_dockerd_KeepWaiting, child, app
<1>23. CASE stop_dockerd_Returns
  BY <1>23 DEF stop_dockerd_Returns, child, app
<1>24. CASE sd_card_callback_Resumes
  BY <1>24 DEF sd_card_callback_Resumes, child
<1>25. CASE Iterate
  BY <1>25 DEF Iterate, child, app
<1>26. CASE handle_signals
  BY <1>26 DEF handle_signals, child
<1>27. CASE restart_dockerd_when_parameter_changed
  BY <1>27 DEF restart_dockerd_when_parameter_changed, child
<1>28. CASE quit_main_loop
  BY <1>28 DEF quit_main_loop, child, app
<1>29. CASE quit_main_loop_Wait
  BY <1>29 DEF quit_main_loop_Wait, child, app
<1>30. CASE monitor_dockerd_termination
  BY <1>30 DEF monitor_dockerd_termination, app
<1>31. CASE check_child_process_exit_code_and_clean_up
  BY <1>31 DEF check_child_process_exit_code_and_clean_up,
     child_process_exited_with_error, child
<1>32. ASSUME NEW area \in BOOLEAN, sd_card_callback(area) PROVE Goal
  BY <1>32 DEF sd_card_callback, child
<1>33. CASE sd_card_callback_Unmount
  BY <1>33 DEF sd_card_callback_Unmount, is_process_alive_Reap, is_process_alive,
     child
<1>34. CASE sd_card_callback_StopsDockerd
  BY <1>34 DEF sd_card_callback_StopsDockerd, stop_dockerd_Begin, app
<1>35. CASE restart_dockerd_after_file_upload_Allow
  BY <1>35 DEF restart_dockerd_after_file_upload_Allow, child
<1>36. CASE restart_dockerd_after_file_upload_Quit
  BY <1>36 DEF restart_dockerd_after_file_upload_Quit, child, app
<1>37. CASE Signal
  BY <1>37 DEF Signal, child, app
<1>38. CASE GlibReap
  BY <1>38 DEF GlibReap, app
<1>39. CASE PowerLoss
  BY <1>39 DEF PowerLoss
<1>40. ASSUME NEW f \in CertFile, copy_to_localdata(f) PROVE Goal
  BY <1>40 DEF copy_to_localdata, child, app
<1>50. CASE copy_to_localdata_Ends
  BY <1>50 DEF copy_to_localdata_Ends, child, app
<1>41. ASSUME NEW f \in CertFile, delete_request(f) PROVE Goal
  BY <1>41 DEF delete_request, child, app
<1>42. ASSUME NEW p \in Changeable, ChangeParam(p) PROVE Goal
  BY <1>42 DEF ChangeParam, child, app
<1>43. CASE sd_disk_storage_Returns
  BY <1>43 DEF sd_disk_storage_Returns, child, app
<1>44. ASSUME NEW cause \in Cause, DockerdExit(cause) PROVE Goal
  BY <1>44 DEF DockerdExit, app
<1>45. CASE UNCHANGED vars
  BY <1>45 DEF vars, child, app
<1> QED
  BY <1>1, <1>2, <1>3, <1>4, <1>5, <1>6, <1>7, <1>8, <1>9, <1>10, <1>11, <1>12,
     <1>13, <1>14, <1>15, <1>16, <1>17, <1>18, <1>19, <1>20, <1>21, <1>22, <1>23,
     <1>24, <1>25, <1>26, <1>27, <1>28, <1>29, <1>30, <1>31, <1>32, <1>33, <1>34,
     <1>35, <1>36, <1>37, <1>38, <1>39, <1>40, <1>50, <1>41, <1>42, <1>43, <1>44, <1>45
     DEF Next, MainThread, Main, SdCard, FcgiThread, Environment

\* After a reported error dockerd stays down until the operator does something.
THEOREM ErrorsWait == Spec => ReportedErrorWaitsForOperator
<1>1. Init => ErrorForbids
  BY DEF Init, ErrorForbids
<1> QED
  BY <1>1, ErrorForbidsInductive, PTL DEF Spec, ReportedErrorWaitsForOperator

\* Every step keeps the directory of the IPC socket open from before dockerd is
\* spawned until its end is handled.
LEMMA IpcPreparedInductive ==
  TypeOK /\ Control /\ IpcPrepared /\ [Next]_vars => IpcPrepared'
<1> SUFFICES ASSUME TypeOK, Control, IpcPrepared, [Next]_vars PROVE IpcPrepared'
  OBVIOUS
<1> USE DEF IpcPrepared, Control, StartsAlone, ChildWatch, Starting, Loops
<1>1. CASE main_Boot
  BY <1>1 DEF main_Boot, child, reading
<1>2. CASE main_BootFails
  BY <1>2 DEF main_BootFails, child, reading
<1>3. CASE main_Top
  BY <1>3 DEF main_Top, child, app, reading
<1>4. CASE main_Run
  BY <1>4 DEF main_Run, child, app, reading
<1>5. CASE main_LoopReturned
  BY <1>5 DEF main_LoopReturned, child, reading
<1>6. CASE main_Teardown
  BY <1>6 DEF main_Teardown, child, app, reading
<1>7. CASE main_Exit
  BY <1>7 DEF main_Exit, child, app, reading
<1>8. CASE read_settings_TCP
  BY <1>8 DEF read_settings_TCP, child, app
<1>9. CASE get_and_verify_tls_selection
  BY <1>9 DEF get_and_verify_tls_selection, child, app
<1>10. CASE tls_missing_certs
  BY <1>10 DEF tls_missing_certs, child, app
<1>11. CASE read_settings_IPC
  BY <1>11 DEF read_settings_IPC, with_compose, child, app, TypeOK, ReadingType,
     Setting, Param
<1>12. CASE read_settings_ShareIPC
  BY <1>12 DEF read_settings_ShareIPC, child, reading
<1>13. CASE read_settings_ShareIPCFails
  BY <1>13 DEF read_settings_ShareIPCFails, child, reading
<1>14. CASE read_settings_SD
  BY <1>14 DEF read_settings_SD, child, app, reading
<1>15. CASE read_settings_WaitReturned
  BY <1>15 DEF read_settings_WaitReturned, child, app, reading
<1>16. CASE prepare_data_root
  BY <1>16 DEF prepare_data_root, child, app, TypeOK, ReadingType, Setting, Param
<1>17. CASE setup_sdcard_Fails
  BY <1>17 DEF setup_sdcard_Fails, child, app, reading
<1>18. CASE start_dockerd
  BY <1>18 DEF start_dockerd, app
<1>19. CASE start_dockerd_Fails
  BY <1>19 DEF start_dockerd_Fails, child, app, reading
<1>20. CASE build_daemon_args_Crashes
  BY <1>20 DEF build_daemon_args_Crashes, child, reading
<1>21. CASE main_StopDockerd
  BY <1>21 DEF main_StopDockerd, is_process_alive_Reap, is_process_alive,
     stop_dockerd_Begin, child, app, reading
<1>22. CASE stop_dockerd_KeepWaiting
  BY <1>22 DEF stop_dockerd_KeepWaiting, child, app, reading
<1>23. CASE stop_dockerd_Returns
  BY <1>23 DEF stop_dockerd_Returns, child, app, reading
<1>24. CASE sd_card_callback_Resumes
  BY <1>24 DEF sd_card_callback_Resumes, child, reading
<1>25. CASE Iterate
  BY <1>25 DEF Iterate, child, app, reading
<1>26. CASE handle_signals
  BY <1>26 DEF handle_signals, Dispatched, child, reading
<1>27. CASE restart_dockerd_when_parameter_changed
  BY <1>27 DEF restart_dockerd_when_parameter_changed, Dispatched, child, reading
<1>28. CASE quit_main_loop
  BY <1>28 DEF quit_main_loop, Dispatched, child, app, reading
<1>29. CASE quit_main_loop_Wait
  BY <1>29 DEF quit_main_loop_Wait, Dispatched, child, app, reading
<1>30. CASE monitor_dockerd_termination
  BY <1>30 DEF monitor_dockerd_termination, Dispatched, app, reading
<1>31. CASE check_child_process_exit_code_and_clean_up
  BY <1>31 DEF check_child_process_exit_code_and_clean_up, Dispatched, child,
     reading
<1>32. ASSUME NEW area \in BOOLEAN, sd_card_callback(area) PROVE IpcPrepared'
  BY <1>32 DEF sd_card_callback, child, reading
<1>33. CASE sd_card_callback_Unmount
  BY <1>33 DEF sd_card_callback_Unmount, is_process_alive_Reap,
     is_process_alive, child, reading
<1>34. CASE sd_card_callback_StopsDockerd
  BY <1>34 DEF sd_card_callback_StopsDockerd, stop_dockerd_Begin, app, reading
<1>35. CASE restart_dockerd_after_file_upload_Allow
  BY <1>35 DEF restart_dockerd_after_file_upload_Allow, child, reading
<1>36. CASE restart_dockerd_after_file_upload_Quit
  BY <1>36 DEF restart_dockerd_after_file_upload_Quit, child, app, reading
<1>37. CASE Signal
  BY <1>37 DEF Signal, child, app, reading
<1>38. CASE GlibReap
  BY <1>38 DEF GlibReap, app, reading
<1>39. CASE PowerLoss
  BY <1>39 DEF PowerLoss
<1>40. ASSUME NEW f \in CertFile, copy_to_localdata(f) PROVE IpcPrepared'
  BY <1>40 DEF copy_to_localdata, child, app, reading
<1>50. CASE copy_to_localdata_Ends
  BY <1>50 DEF copy_to_localdata_Ends, child, app, reading
<1>41. ASSUME NEW f \in CertFile, delete_request(f) PROVE IpcPrepared'
  BY <1>41 DEF delete_request, child, app, reading
<1>42. ASSUME NEW p \in Changeable, ChangeParam(p) PROVE IpcPrepared'
  BY <1>42 DEF ChangeParam, child, app, reading
<1>43. CASE sd_disk_storage_Returns
  BY <1>43 DEF sd_disk_storage_Returns, Dispatched, child, app, reading
<1>44. ASSUME NEW cause \in Cause, DockerdExit(cause) PROVE IpcPrepared'
  BY <1>44 DEF DockerdExit, app, reading
<1>45. CASE UNCHANGED vars
  BY <1>45 DEF vars, child, app, reading
<1> QED
  BY <1>1, <1>2, <1>3, <1>4, <1>5, <1>6, <1>7, <1>8, <1>9, <1>10, <1>11, <1>12,
     <1>13, <1>14, <1>15, <1>16, <1>17, <1>18, <1>19, <1>20, <1>21, <1>22, <1>23,
     <1>24, <1>25, <1>26, <1>27, <1>28, <1>29, <1>30, <1>31, <1>32, <1>33, <1>34,
     <1>35, <1>36, <1>37, <1>38, <1>39, <1>40, <1>50, <1>41, <1>42, <1>43, <1>44, <1>45
     DEF Next, MainThread, Main, SdCard, FcgiThread, Environment

\* Whenever dockerd runs with an IPC socket in the build with compose, the other
\* applications can reach the socket.
THEOREM IpcSocketStaysShared == Spec => []IpcSocketIsShared
<1>1. Init => IpcPrepared
  BY DEF Init, IpcPrepared
<1>2. IpcPrepared => IpcSocketIsShared
  BY DEF IpcPrepared, IpcSocketIsShared
<1> QED
  BY <1>1, <1>2, TypeCorrect, ControlCorrect, IpcPreparedInductive, PTL DEF Spec

\* Every step keeps dockerd unsignalled until a stop is on the stack, and the stop on the
\* stack until dockerd has ended.
LEMMA SignalledInductive ==
  TypeOK /\ Control /\ Signalled /\ [Next]_vars => Signalled'
<1> SUFFICES ASSUME TypeOK, Control, Signalled, [Next]_vars PROVE Signalled'
  OBVIOUS
<1> USE DEF Signalled, Control, CallStack, StartsAlone, Starting, Loops
<1>1. CASE main_Boot
  BY <1>1 DEF main_Boot, child, mainloop
<1>2. CASE main_BootFails
  BY <1>2 DEF main_BootFails, child, mainloop
<1>3. CASE main_Top
  BY <1>3 DEF main_Top, child, mainloop
<1>4. CASE main_Run
  BY <1>4 DEF main_Run, child, mainloop
<1>5. CASE main_LoopReturned
  BY <1>5 DEF main_LoopReturned, child, mainloop
<1>6. CASE main_Teardown
  BY <1>6 DEF main_Teardown, child, mainloop
<1>7. CASE main_Exit
  BY <1>7 DEF main_Exit, child, mainloop
<1>8. CASE read_settings_TCP
  BY <1>8 DEF read_settings_TCP, child, mainloop
<1>9. CASE get_and_verify_tls_selection
  BY <1>9 DEF get_and_verify_tls_selection, child, mainloop
<1>10. CASE tls_missing_certs
  BY <1>10 DEF tls_missing_certs, child, mainloop
<1>11. CASE read_settings_IPC
  BY <1>11 DEF read_settings_IPC, child, mainloop
<1>12. CASE read_settings_ShareIPC
  BY <1>12 DEF read_settings_ShareIPC, child, mainloop
<1>13. CASE read_settings_ShareIPCFails
  BY <1>13 DEF read_settings_ShareIPCFails, child, mainloop
<1>14. CASE read_settings_SD
  BY <1>14 DEF read_settings_SD, child, mainloop
<1>15. CASE read_settings_WaitReturned
  BY <1>15 DEF read_settings_WaitReturned, child, mainloop
<1>16. CASE prepare_data_root
  BY <1>16 DEF prepare_data_root, child, mainloop
<1>17. CASE setup_sdcard_Fails
  BY <1>17 DEF setup_sdcard_Fails, child, mainloop
<1>18. CASE start_dockerd
  BY <1>18 DEF start_dockerd, mainloop
<1>19. CASE start_dockerd_Fails
  BY <1>19 DEF start_dockerd_Fails, child, mainloop
<1>20. CASE build_daemon_args_Crashes
  BY <1>20 DEF build_daemon_args_Crashes, child, mainloop
<1>21. CASE main_StopDockerd
  <2>1. stop_dockerd_Begin => stops' # <<>>
    BY StopDockerdBeginControl
  <2> QED
    BY <1>21, <2>1 DEF main_StopDockerd, is_process_alive_Reap, is_process_alive,
       stop_dockerd_Begin, child, mainloop
<1>22. CASE stop_dockerd_KeepWaiting
  BY <1>22 DEF stop_dockerd_KeepWaiting, child, mainloop
<1>23. CASE stop_dockerd_Returns
  <2>1. proc = "none" /\ sig' = sig /\ proc' = proc /\ pc' = "top"
    <3>1. Len(stops) \in DOMAIN stops /\ stops[Len(stops)] = 0
      BY <1>23, LenProperties DEF stop_dockerd_Returns, StopIsOver, Last, TypeOK,
         MainloopType
    <3> QED
      BY <1>23, <3>1 DEF stop_dockerd_Returns, EndedStops, child
  <2> QED
    BY <2>1
<1>24. CASE sd_card_callback_Resumes
  <2>1. proc = "none"
    BY <1>24, ResumesAfterDockerd
  <2> QED
    BY <1>24, <2>1 DEF sd_card_callback_Resumes, child
<1>25. CASE Iterate
  BY <1>25 DEF Iterate, child, mainloop
<1>26. CASE handle_signals
  BY <1>26 DEF handle_signals, child, mainloop
<1>27. CASE restart_dockerd_when_parameter_changed
  BY <1>27 DEF restart_dockerd_when_parameter_changed, child, mainloop
<1>28. CASE quit_main_loop
  BY <1>28 DEF quit_main_loop, child, mainloop
<1>29. CASE quit_main_loop_Wait
  BY <1>29 DEF quit_main_loop_Wait, child, mainloop
<1>30. CASE monitor_dockerd_termination
  <2>1. PICK i \in DOMAIN stops : \E e : stops' = [stops EXCEPT ![i] = e]
    BY <1>30 DEF monitor_dockerd_termination
  <2>2. stops # <<>> /\ stops' # <<>>
    <3>1. DOMAIN stops' = DOMAIN stops
      BY <2>1
    <3> QED
      BY <2>1, <3>1
  <2>3. proc' = proc /\ pc' = pc /\ (sig' = sig \/ (proc = "alive" /\ sig' = "kill"))
    BY <1>30 DEF monitor_dockerd_termination, LastSignal
  <2> QED
    BY <2>2, <2>3
<1>31. CASE check_child_process_exit_code_and_clean_up
  BY <1>31 DEF check_child_process_exit_code_and_clean_up, child, mainloop
<1>32. ASSUME NEW area \in BOOLEAN, sd_card_callback(area) PROVE Signalled'
  BY <1>32 DEF sd_card_callback, child, mainloop
<1>33. CASE sd_card_callback_Unmount
  BY <1>33 DEF sd_card_callback_Unmount, is_process_alive_Reap, is_process_alive, child
<1>34. CASE sd_card_callback_StopsDockerd
  <2>1. stop_dockerd_Begin /\ pc' = pc
    BY <1>34 DEF sd_card_callback_StopsDockerd
  <2>2. stops' # <<>>
    BY <2>1, StopDockerdBeginControl
  <2> QED
    BY <2>1, <2>2 DEF stop_dockerd_Begin, is_process_alive
<1>35. CASE restart_dockerd_after_file_upload_Allow
  BY <1>35 DEF restart_dockerd_after_file_upload_Allow, child, mainloop
<1>36. CASE restart_dockerd_after_file_upload_Quit
  BY <1>36 DEF restart_dockerd_after_file_upload_Quit, child, mainloop
<1>37. CASE Signal
  BY <1>37 DEF Signal, child, mainloop
<1>38. CASE GlibReap
  BY <1>38 DEF GlibReap, child, mainloop
<1>39. CASE PowerLoss
  BY <1>39 DEF PowerLoss, child, mainloop
<1>40. ASSUME NEW f \in CertFile, copy_to_localdata(f) PROVE Signalled'
  BY <1>40 DEF copy_to_localdata, child, mainloop
<1>50. CASE copy_to_localdata_Ends
  BY <1>50 DEF copy_to_localdata_Ends, child, mainloop
<1>41. ASSUME NEW f \in CertFile, delete_request(f) PROVE Signalled'
  BY <1>41 DEF delete_request, child, mainloop
<1>42. ASSUME NEW p \in Changeable, ChangeParam(p) PROVE Signalled'
  BY <1>42 DEF ChangeParam, child, mainloop
<1>43. CASE sd_disk_storage_Returns
  BY <1>43 DEF sd_disk_storage_Returns, child, mainloop
<1>44. ASSUME NEW cause \in Cause, DockerdExit(cause) PROVE Signalled'
  BY <1>44 DEF DockerdExit
<1>45. CASE UNCHANGED vars
  BY <1>45 DEF vars, child, mainloop
<1> QED
  BY <1>1, <1>2, <1>3, <1>4, <1>5, <1>6, <1>7, <1>8, <1>9, <1>10, <1>11, <1>12,
     <1>13, <1>14, <1>15, <1>16, <1>17, <1>18, <1>19, <1>20, <1>21, <1>22, <1>23,
     <1>24, <1>25, <1>26, <1>27, <1>28, <1>29, <1>30, <1>31, <1>32, <1>33, <1>34,
     <1>35, <1>36, <1>37, <1>38, <1>39, <1>40, <1>50, <1>41, <1>42, <1>43, <1>44, <1>45
     DEF Next, MainThread, Main, SdCard, FcgiThread, Environment

\* For any time limit, nesting and number of events: dockerd has been told to end if and
\* only if a stop_dockerd() on the stack still watches it.
THEOREM StopsAreWatched == Spec => []SignalledIsWatched
<1>1. Init => Signalled
  BY DEF Init, Signalled, Starting
<1>2. TypeOK /\ Control /\ Signalled => SignalledIsWatched
  <2> SUFFICES ASSUME TypeOK, Control, Signalled, proc = "alive"
               PROVE  sig # "none" <=> \E i \in DOMAIN stops : stops[i] # 0
    BY DEF SignalledIsWatched
  <2>1. \A i \in DOMAIN stops : stops[i] # 0
    BY DEF Control, EndedStops
  <2>2. stops # <<>> <=> DOMAIN stops # {}
    <3>1. stops \in Seq(0 .. TimeToSigkill + 1)
      BY DEF TypeOK, MainloopType
    <3>2. Len(stops) \in Nat /\ DOMAIN stops = 1 .. Len(stops)
      BY <3>1, LenProperties
    <3>3. stops = <<>> <=> Len(stops) = 0
      BY <3>1, EmptySeq
    <3>4. 1 .. Len(stops) # {} <=> Len(stops) # 0
      BY <3>2
    <3> QED
      BY <3>2, <3>3, <3>4
  <2> QED
    BY <2>1, <2>2 DEF Signalled
<1> QED
  BY <1>1, <1>2, TypeCorrect, ControlCorrect, SignalledInductive, PTL DEF Spec

\* When the operator leaves SDCardSupport alone, every step keeps a dockerd that uses
\* the card from being spawned, or left running, without the area: only a call of
\* sd_card_callback() that has stopped dockerd clears the area.
LEMMA RootPreparedInductive ==
  ASSUME SdCardIsDecided, TypeOK, Control, RootPrepared, [Next]_vars
  PROVE  RootPrepared'
<1> USE DEF RootPrepared, Control, StartsAlone, Starting, Loops, TypeOK
<1>47. \A e \in Event \ {"read_failure"} :
        Spend(e) => left'["read_failure"] = left["read_failure"]
  BY DEF Event, Spend
<1>46. \A q, yes : is_parameter_yes(q, yes) => left' = left /\ yes = param[q]
  BY DEF is_parameter_yes, Spend
<1>1. CASE main_Boot
  BY <1>46, <1>1 DEF main_Boot, device, child, app, reading
<1>2. CASE main_BootFails
  BY <1>47, <1>2 DEF main_BootFails, Event, device, child, app, reading
<1>3. CASE main_Top
  BY <1>3 DEF main_Top, device, child, app, reading
<1>4. CASE main_Run
  BY <1>4 DEF main_Run, device, child, app, reading
<1>5. CASE main_LoopReturned
  BY <1>46, <1>5 DEF main_LoopReturned, device, child, app, reading
<1>6. CASE main_Teardown
  BY <1>6 DEF main_Teardown, device, child, app, reading
<1>7. CASE main_Exit
  BY <1>7 DEF main_Exit, device, child, app, reading
<1>8. CASE read_settings_TCP
  BY <1>46, <1>8 DEF read_settings_TCP, TypeOK, ReadingType, Setting, Param,
     device, child, app, reading
<1>9. CASE get_and_verify_tls_selection
  BY <1>46, <1>9 DEF get_and_verify_tls_selection, TypeOK, ReadingType, Setting, Param,
     device, child, app, reading
<1>10. CASE tls_missing_certs
  BY <1>10 DEF tls_missing_certs, device, child, app, reading
<1>11. CASE read_settings_IPC
  <2>1. proc' = "none" /\ pc' # "spawn"
    BY <1>11 DEF read_settings_IPC, child
  <2>2. left' = left
    BY <1>46, <1>11 DEF read_settings_IPC
  <2> QED
    BY <2>1, <2>2
<1>12. CASE read_settings_ShareIPC
  BY <1>12 DEF read_settings_ShareIPC, device, child, app, reading
<1>13. CASE read_settings_ShareIPCFails
  BY <1>47, <1>13 DEF read_settings_ShareIPCFails, Event, device, child, app, reading
<1>14. CASE read_settings_SD
  BY <1>46, <1>14 DEF read_settings_SD, device, child, app, reading
<1>15. CASE read_settings_WaitReturned
  BY <1>15 DEF read_settings_WaitReturned, device, child, app, reading
<1>16. CASE prepare_data_root
  <2>1. proc' = "none" /\ left' = left /\ sdArea' = sdArea /\ param' = param
    BY <1>46, <1>16 DEF prepare_data_root, device, child, app
  <2>2. pc' = "spawn" => /\ settings'["SDCardSupport"] = param["SDCardSupport"]
                         /\ settings'["SDCardSupport"] => sdArea
    BY <1>46, <1>16 DEF prepare_data_root, ReadingType, Setting, Param
  <2> QED
    BY <2>1, <2>2
<1>17. CASE setup_sdcard_Fails
  BY <1>47, <1>17 DEF Event, setup_sdcard_Fails, device, child, app, reading
<1>18. CASE start_dockerd
  BY <1>18 DEF start_dockerd, TypeOK, ReadingType, Setting, Param,
     device, child, app, reading
<1>19. CASE start_dockerd_Fails
  BY <1>47, <1>19 DEF Event, start_dockerd_Fails, device, child, app, reading
<1>20. CASE build_daemon_args_Crashes
  BY <1>47, <1>20 DEF build_daemon_args_Crashes, Event, Spend, device, child, app,
     reading
<1>21. CASE main_StopDockerd
  BY <1>21 DEF main_StopDockerd, is_process_alive, is_process_alive_Reap,
     stop_dockerd_Begin, device, child, app, reading
<1>22. CASE stop_dockerd_KeepWaiting
  BY <1>22 DEF stop_dockerd_KeepWaiting, device, child, app, reading
<1>23. CASE stop_dockerd_Returns
  BY <1>23 DEF stop_dockerd_Returns, device, child, app, reading
<1>24. CASE sd_card_callback_Resumes
  <2>1. proc = "none" /\ stops # <<>>
    BY <1>24, ResumesAfterDockerd
  <2>2. proc' = proc /\ left' = left /\ pc' = pc
    BY <1>24 DEF sd_card_callback_Resumes, child
  <2> QED
    BY <2>1, <2>2 DEF CallStack
<1>25. CASE Iterate
  BY <1>25 DEF Iterate, device, child, app, reading
<1>26. CASE handle_signals
  BY <1>26 DEF handle_signals, device, child, app, reading
<1>27. CASE restart_dockerd_when_parameter_changed
  BY <1>27 DEF restart_dockerd_when_parameter_changed, device, child, app, reading
<1>28. CASE quit_main_loop
  BY <1>28 DEF quit_main_loop, device, child, app, reading
<1>29. CASE quit_main_loop_Wait
  BY <1>29 DEF quit_main_loop_Wait, device, child, app, reading
<1>30. CASE monitor_dockerd_termination
  BY <1>30 DEF monitor_dockerd_termination, device, child, app, reading
<1>31. CASE check_child_process_exit_code_and_clean_up
  BY <1>31 DEF check_child_process_exit_code_and_clean_up, device, child, app, reading
<1>32. ASSUME NEW area \in BOOLEAN, sd_card_callback(area) PROVE RootPrepared'
  BY <1>46, <1>32 DEF sd_card_callback, device, child, app, reading
<1>33. CASE sd_card_callback_Unmount
  <2>1. proc' # "alive" /\ pc' # "spawn"
    BY <1>33 DEF sd_card_callback_Unmount, InStorageCallback, is_process_alive,
       is_process_alive_Reap, child
  <2>2. left' = left
    BY <1>46, <1>33 DEF sd_card_callback_Unmount
  <2> QED
    BY <2>1, <2>2
<1>34. CASE sd_card_callback_StopsDockerd
  BY <1>46, <1>34 DEF sd_card_callback_StopsDockerd, is_process_alive,
     stop_dockerd_Begin, device, child, app, reading
<1>35. CASE restart_dockerd_after_file_upload_Allow
  BY <1>35 DEF restart_dockerd_after_file_upload_Allow, device, child, app, reading
<1>36. CASE restart_dockerd_after_file_upload_Quit
  BY <1>36 DEF restart_dockerd_after_file_upload_Quit, device, child, app, reading
<1>37. CASE Signal
  BY <1>47, <1>37 DEF Signal, Event, device, child, app, reading
<1>38. CASE GlibReap
  BY <1>38 DEF GlibReap, device, child, app, reading
<1>39. CASE PowerLoss
  BY <1>47, <1>39 DEF PowerLoss, Event, device, child, app, reading
<1>40. ASSUME NEW f \in CertFile, copy_to_localdata(f) PROVE RootPrepared'
  BY <1>47, <1>40 DEF copy_to_localdata, Event, device, child, app, reading
<1>50. CASE copy_to_localdata_Ends
  BY <1>47, <1>50 DEF copy_to_localdata_Ends, Event, device, child, app, reading
<1>41. ASSUME NEW f \in CertFile, delete_request(f) PROVE RootPrepared'
  BY <1>47, <1>41 DEF delete_request, Event, device, child, app, reading
<1>42. ASSUME NEW p \in Changeable, ChangeParam(p) PROVE RootPrepared'
  BY <1>47, <1>42 DEF ChangeParam, Event, SdCardIsDecided, TypeOK, DeviceType, Param,
     device, child, app, reading
<1>43. CASE sd_disk_storage_Returns
  BY <1>43 DEF sd_disk_storage_Returns, device, child, app, reading
<1>44. ASSUME NEW cause \in Cause, DockerdExit(cause) PROVE RootPrepared'
  BY <1>47, <1>44 DEF DockerdExit, Event, device, app, reading
<1>45. CASE UNCHANGED vars
  BY <1>45 DEF vars, device, child, app, reading
<1> QED
  BY <1>1, <1>2, <1>3, <1>4, <1>5, <1>6, <1>7, <1>8, <1>9, <1>10, <1>11, <1>12,
     <1>13, <1>14, <1>15, <1>16, <1>17, <1>18, <1>19, <1>20, <1>21, <1>22, <1>23,
     <1>24, <1>25, <1>26, <1>27, <1>28, <1>29, <1>30, <1>31, <1>32, <1>33, <1>34,
     <1>35, <1>36, <1>37, <1>38, <1>39, <1>40, <1>50, <1>41, <1>42, <1>43, <1>44, <1>45
     DEF Next, MainThread, Main, SdCard, FcgiThread, Environment

\* As long as SDCardSupport is left alone and can be read, dockerd never runs with its
\* data root on a card whose area has been withdrawn.
THEOREM CardHoldsDataRoot ==
  ASSUME SdCardIsDecided
  PROVE  Spec => []DataRootOnMountedCard
<1>1. Init => RootPrepared
  BY DEF Init, RootPrepared, SdCardIsDecided
<1>2. RootPrepared => DataRootOnMountedCard
  BY DEF RootPrepared, DataRootOnMountedCard
<1>3. TypeOK /\ Control /\ RootPrepared /\ [Next]_vars => RootPrepared'
  BY RootPreparedInductive
<1> QED
  BY <1>1, <1>2, <1>3, TypeCorrect, ControlCorrect, PTL DEF Spec

-------------------------------------------------------------------------------
\* An initial state of the supervisor is one of the life cycle.
LEMMA InitialRefines == Init => Lifecycle!Init
BY DEF Init, Lifecycle!Init, Daemon, Phase

\* Every step of the supervisor is a step of the life cycle or leaves it alone.
LEMMA StepRefines ==
  ASSUME TypeOK, Control, [Next]_vars
  PROVE  [Lifecycle!Next]_(Lifecycle!vars)
<1> USE DEF Daemon, Phase, Starting, Ending, Loops, Control, StartsAlone, DeadAtTop,
            ChildWatch, UploadsEnd
<1>1. CASE main_Boot
  BY <1>1 DEF main_Boot, child, Lifecycle!Next, Lifecycle!Boot
<1>2. CASE main_BootFails
  BY <1>2 DEF main_BootFails, child, Lifecycle!Next, Lifecycle!Boot
<1>3. CASE main_Top
  BY <1>3 DEF main_Top, main_MayStart, child, app, Lifecycle!Next, Lifecycle!Close,
     Lifecycle!vars
<1>4. CASE main_Run
  BY <1>4 DEF main_Run, child, app, Lifecycle!vars
<1>5. CASE main_LoopReturned
  BY <1>5 DEF main_LoopReturned, child, Lifecycle!vars
<1>6. CASE main_Teardown
  BY <1>6 DEF main_Teardown, child, app, Lifecycle!vars
<1>7. CASE main_Exit
  BY <1>7 DEF main_Exit, child, app, Lifecycle!Next, Lifecycle!Finish
<1>8. CASE read_settings_TCP
  BY <1>8 DEF read_settings_TCP, child, app, Lifecycle!vars
<1>9. CASE get_and_verify_tls_selection
  BY <1>9 DEF get_and_verify_tls_selection, child, app, Lifecycle!vars
<1>10. CASE tls_missing_certs
  BY <1>10 DEF tls_missing_certs, child, app, Lifecycle!vars
<1>11. CASE read_settings_IPC
  BY <1>11 DEF read_settings_IPC, child, app, Lifecycle!vars
<1>12. CASE read_settings_ShareIPC
  BY <1>12 DEF read_settings_ShareIPC, child, Lifecycle!vars
<1>13. CASE read_settings_ShareIPCFails
  BY <1>13 DEF read_settings_ShareIPCFails, quit_program, child, Lifecycle!vars
<1>14. CASE read_settings_SD
  BY <1>14 DEF read_settings_SD, child, app, Lifecycle!vars
<1>15. CASE read_settings_WaitReturned
  BY <1>15 DEF read_settings_WaitReturned, child, app, Lifecycle!vars
<1>16. CASE prepare_data_root
  BY <1>16 DEF prepare_data_root, child, app, Lifecycle!vars
<1>17. CASE setup_sdcard_Fails
  BY <1>17 DEF setup_sdcard_Fails, child, app, Lifecycle!vars
<1>18. CASE start_dockerd
  BY <1>18 DEF start_dockerd, app, Lifecycle!Next, Lifecycle!Start
<1>19. CASE start_dockerd_Fails
  BY <1>19 DEF start_dockerd_Fails, child, app, Lifecycle!vars
<1>20. CASE build_daemon_args_Crashes
  BY <1>20 DEF build_daemon_args_Crashes, child, Lifecycle!Next, Lifecycle!Crash
<1>21. CASE main_StopDockerd
  BY <1>21 DEF main_StopDockerd, is_process_alive_Reap, is_process_alive,
     stop_dockerd_Begin, child, app, Lifecycle!vars
<1>22. CASE stop_dockerd_KeepWaiting
  BY <1>22 DEF stop_dockerd_KeepWaiting, child, app, Lifecycle!vars
<1>23. CASE stop_dockerd_Returns
  BY <1>23 DEF stop_dockerd_Returns, child, app, Lifecycle!vars
<1>24. CASE sd_card_callback_Resumes
  BY <1>24 DEF sd_card_callback_Resumes, child, Lifecycle!vars
<1>25. CASE Iterate
  BY <1>25 DEF Iterate, child, app, Lifecycle!vars
<1>26. CASE handle_signals
  BY <1>26 DEF handle_signals, Dispatched, quit_program, child, Lifecycle!vars
<1>27. CASE restart_dockerd_when_parameter_changed
  BY <1>27 DEF restart_dockerd_when_parameter_changed, Dispatched, child,
     Lifecycle!Next, Lifecycle!Permit
<1>28. CASE quit_main_loop
  BY <1>28 DEF quit_main_loop, Dispatched, child, app, Lifecycle!vars
<1>29. CASE quit_main_loop_Wait
  BY <1>29 DEF quit_main_loop_Wait, Dispatched, child, app, Lifecycle!vars
<1>30. CASE monitor_dockerd_termination
  BY <1>30 DEF monitor_dockerd_termination, Dispatched, app, Lifecycle!vars
<1>31. CASE check_child_process_exit_code_and_clean_up
  BY <1>31 DEF check_child_process_exit_code_and_clean_up, Dispatched,
     child_process_exited_with_error, child, Lifecycle!Next, Lifecycle!Notice
<1>32. ASSUME NEW area \in BOOLEAN, sd_card_callback(area)
      PROVE  [Lifecycle!Next]_(Lifecycle!vars)
  BY <1>32 DEF sd_card_callback, child, Lifecycle!vars
<1>33. CASE sd_card_callback_Unmount
  <2>1. Daemon' = Daemon
    BY <1>33 DEF sd_card_callback_Unmount, is_process_alive_Reap, is_process_alive, child
  <2>2. allow' = allow /\ pc' = pc
    BY <1>33 DEF sd_card_callback_Unmount
  <2> QED
    BY <2>1, <2>2 DEF Lifecycle!vars
<1>34. CASE sd_card_callback_StopsDockerd
  BY <1>34 DEF sd_card_callback_StopsDockerd, stop_dockerd_Begin, child, app,
     Lifecycle!vars
<1>35. CASE restart_dockerd_after_file_upload_Allow
  BY <1>35 DEF restart_dockerd_after_file_upload_Allow, child, Lifecycle!Next,
     Lifecycle!Permit
<1>36. CASE restart_dockerd_after_file_upload_Quit
  BY <1>36 DEF restart_dockerd_after_file_upload_Quit, child, app, Lifecycle!vars
<1>37. CASE Signal
  BY <1>37 DEF Signal, child, app, Lifecycle!vars
<1>38. CASE GlibReap
  BY <1>38 DEF GlibReap, app, Lifecycle!vars
<1>39. CASE PowerLoss
  BY <1>39 DEF PowerLoss, Lifecycle!Next, Lifecycle!Restart
<1>40. ASSUME NEW f \in CertFile, copy_to_localdata(f)
      PROVE  [Lifecycle!Next]_(Lifecycle!vars)
  BY <1>40 DEF copy_to_localdata, child, app, Lifecycle!vars
<1>50. CASE copy_to_localdata_Ends
  BY <1>50 DEF copy_to_localdata_Ends, child, app, Lifecycle!vars
<1>41. ASSUME NEW f \in CertFile, delete_request(f)
      PROVE  [Lifecycle!Next]_(Lifecycle!vars)
  BY <1>41 DEF delete_request, child, app, Lifecycle!vars
<1>42. ASSUME NEW p \in Changeable, ChangeParam(p)
      PROVE  [Lifecycle!Next]_(Lifecycle!vars)
  BY <1>42 DEF ChangeParam, child, app, Lifecycle!vars
<1>43. CASE sd_disk_storage_Returns
  BY <1>43 DEF sd_disk_storage_Returns, child, app, Lifecycle!vars
<1>44. ASSUME NEW cause \in Cause, DockerdExit(cause)
      PROVE  [Lifecycle!Next]_(Lifecycle!vars)
  BY <1>44 DEF DockerdExit, app, Lifecycle!Next, Lifecycle!End
<1>45. CASE UNCHANGED vars
  BY <1>45 DEF vars, child, app, Lifecycle!vars
<1> QED
  BY <1>1, <1>2, <1>3, <1>4, <1>5, <1>6, <1>7, <1>8, <1>9, <1>10, <1>11, <1>12,
     <1>13, <1>14, <1>15, <1>16, <1>17, <1>18, <1>19, <1>20, <1>21, <1>22, <1>23,
     <1>24, <1>25, <1>26, <1>27, <1>28, <1>29, <1>30, <1>31, <1>32, <1>33, <1>34,
     <1>35, <1>36, <1>37, <1>38, <1>39, <1>40, <1>50, <1>41, <1>42, <1>43, <1>44, <1>45
     DEF Next, MainThread, Main, SdCard, FcgiThread, Environment

\* The supervisor implements the abstract life cycle of dockerd.
THEOREM Implementation == Spec => ImplementsLifecycle
<1>1. QED
  BY TypeCorrect, ControlCorrect, InitialRefines, StepRefines, PTL
     DEF Spec, ImplementsLifecycle, Lifecycle!Spec

===============================================================================
