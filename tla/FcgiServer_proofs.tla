--------------------------- MODULE FcgiServer_proofs ---------------------------
(***************************************************************************)
(* Proofs about the FCGI thread and the supervisor together: they implement*)
(* Supervisor and the abstract store of certificates, the thread ends      *)
(* before main() does, and leaves no temporary file.                       *)
(***************************************************************************)
EXTENDS FcgiServerProperties, Supervisor_proofs

\* The main thread does not touch what belongs to the FCGI thread, and between the
\* start and the join of that thread it neither ends nor begins anew.
LEMMA MainGoesOn ==
  ASSUME TypeOK, Control, MainThread, pc \notin {"boot", "join"}, exitCode' # "crash"
  PROVE  UNCHANGED <<certs, req>> /\ pc # "done" /\ pc' \notin {"boot", "done"}
<1> USE DEF Starting, Loops, device, Dispatched, InStorageCallback
<1>36. stops # <<>> => pc \in Loops
  BY DEF Control, CallStack
<1>1. CASE main_Boot
  BY <1>1 DEF main_Boot
<1>2. CASE main_BootFails
  BY <1>2 DEF main_BootFails
<1>3. CASE main_Top
  BY <1>3 DEF main_Top
<1>4. CASE main_Run
  BY <1>4 DEF main_Run
<1>5. CASE main_LoopReturned
  BY <1>5 DEF main_LoopReturned
<1>6. CASE main_Teardown
  BY <1>6 DEF main_Teardown
<1>7. CASE main_Exit
  BY <1>7 DEF main_Exit
<1>8. CASE read_settings_TCP
  BY <1>8 DEF read_settings_TCP
<1>9. CASE get_and_verify_tls_selection
  BY <1>9 DEF get_and_verify_tls_selection
<1>10. CASE tls_missing_certs
  BY <1>10 DEF tls_missing_certs
<1>11. CASE read_settings_IPC
  BY <1>11 DEF read_settings_IPC
<1>12. CASE read_settings_ShareIPC
  BY <1>12 DEF read_settings_ShareIPC
<1>13. CASE read_settings_ShareIPCFails
  BY <1>13 DEF read_settings_ShareIPCFails
<1>14. CASE read_settings_SD
  BY <1>14 DEF read_settings_SD
<1>15. CASE read_settings_WaitReturned
  BY <1>15 DEF read_settings_WaitReturned
<1>16. CASE prepare_data_root
  BY <1>16 DEF prepare_data_root
<1>17. CASE setup_sdcard_Fails
  BY <1>17 DEF setup_sdcard_Fails
<1>18. CASE start_dockerd
  BY <1>18 DEF start_dockerd
<1>19. CASE start_dockerd_Fails
  BY <1>19 DEF start_dockerd_Fails
<1>20. CASE build_daemon_args_Crashes
  BY <1>20 DEF build_daemon_args_Crashes
<1>21. CASE main_StopDockerd
  BY <1>21 DEF main_StopDockerd
<1>22. CASE stop_dockerd_KeepWaiting
  BY <1>22, <1>36 DEF stop_dockerd_KeepWaiting
<1>23. CASE stop_dockerd_Returns
  BY <1>23 DEF stop_dockerd_Returns
<1>24. CASE Iterate
  BY <1>24 DEF Iterate
<1>25. CASE handle_signals
  BY <1>25 DEF handle_signals
<1>26. CASE restart_dockerd_when_parameter_changed
  BY <1>26 DEF restart_dockerd_when_parameter_changed
<1>27. CASE quit_main_loop
  BY <1>27 DEF quit_main_loop
<1>28. CASE quit_main_loop_Wait
  BY <1>28 DEF quit_main_loop_Wait
<1>29. CASE monitor_dockerd_termination
  BY <1>29 DEF monitor_dockerd_termination
<1>30. CASE check_child_process_exit_code_and_clean_up
  BY <1>30 DEF check_child_process_exit_code_and_clean_up
<1>31. CASE sd_card_callback_Unmount
  BY <1>31 DEF sd_card_callback_Unmount
<1>32. CASE sd_card_callback_StopsDockerd
  BY <1>32 DEF sd_card_callback_StopsDockerd
<1>33. CASE sd_card_callback_Resumes
  BY <1>33, <1>36, ResumesAfterDockerd DEF sd_card_callback_Resumes
<1>34. CASE sd_disk_storage_Returns
  BY <1>34 DEF sd_disk_storage_Returns
<1>35. ASSUME NEW area \in BOOLEAN, sd_card_callback(area)
      PROVE  UNCHANGED <<certs, req>> /\ pc # "done" /\ pc' \notin {"boot", "done"}
  BY <1>35 DEF sd_card_callback
<1> QED
  BY <1>1, <1>2, <1>3, <1>4, <1>5, <1>6, <1>7, <1>8, <1>9, <1>10, <1>11, <1>12,
     <1>13, <1>14, <1>15, <1>16, <1>17, <1>18, <1>19, <1>20, <1>21, <1>22, <1>23,
     <1>24, <1>25, <1>26, <1>27, <1>28, <1>29, <1>30, <1>31, <1>32, <1>33, <1>34,
     <1>35 DEF MainThread, Main, SdCard

-------------------------------------------------------------------------------
\* A request is not NoRequest, and its fields are what they are.
LEMMA RequestFields ==
  \A r \in Request : r # NoRequest /\ r.method \in Method /\ r.body \in Body
                     /\ r.file \in CertFile \cup {"malformed"}
BY DEF Request, NoRequest, Method

\* The inductive invariant of the thread's own variables
ThreadInv == ThreadType /\ RequestIsServed /\ AnswerIsGiven

\* It holds initially.
LEMMA ThreadInitial == FcgiInit => ThreadInv
BY FcgiAssumption, EmptySeq
   DEF FcgiInit, ThreadInv, ThreadType, RequestIsServed, AnswerIsGiven, ThreadLine, Answer

\* Every step keeps the thread, its request, its answer and the files well typed and in
\* agreement.
LEMMA ThreadInductive ==
  ASSUME ThreadInv, ThreadEndsFirst, [FcgiNext]_fvars
  PROVE  ThreadInv'
<1> USE DEF files, connections, thread, ThreadInv, ThreadType, RequestIsServed,
            AnswerIsGiven
<1>1. /\ line \notin {"none", "accept"} =>
           /\ request \in Request /\ request.method \in Method /\ request.body \in Body
           /\ request.file \in CertFile \cup {"malformed"}
      /\ request \in Request => request # NoRequest
  BY RequestFields
<1>2. ASSUME NEW code \in Answer \ {"none"}, NEW next \in {"unlink", "finish"},
             Responds(code, next), UNCHANGED files, line \notin {"none", "accept"},
             next = "unlink" => line \in {"check", "copy", "copying"}
      PROVE  ThreadInv'
  BY <1>1, <1>2 DEF Responds, ThreadLine
<1>3. CASE FCGX_Accept_r
  <2>1. Head(backlog) \in Request /\ Tail(backlog) \in Seq(Request)
    BY <1>3, HeadTailProperties DEF FCGX_Accept_r
  <2> QED
    BY <1>3, <2>1, RequestFields DEF FCGX_Accept_r, ThreadLine, Answer
<1>4. CASE FCGX_Accept_r_Fails \/ FCGX_Finish_r
  BY <1>4 DEF FCGX_Accept_r_Fails, FCGX_Finish_r, NextLine, ThreadLine
<1>5. CASE malformed_request
  BY <1>2, <1>5 DEF malformed_request, Answer
<1>6. CASE unsupported_request
  BY <1>2, <1>6 DEF unsupported_request, Handles, Answer
<1>7. CASE delete_request_Refused
  BY <1>2, <1>7 DEF delete_request_Refused, Handles, Answer
<1>8. CASE remove_from_localdata
  <2>1. request.file \in CertFile
    BY <1>1, <1>8 DEF remove_from_localdata, Handles
  <2> QED
    BY <1>1, <1>8, <2>1 DEF remove_from_localdata, Handles, ThreadLine, Answer
<1>9. CASE fcgi_write_file_from_stream
  <2>1. CASE Responds("422", "finish") /\ UNCHANGED files
    BY <1>2, <1>9, <2>1 DEF fcgi_write_file_from_stream, Handles, Answer
  <2>2. CASE /\ temp' = request.body /\ line' = "check"
             /\ UNCHANGED <<vars, connections, request, answer, localdata>>
    BY <1>1, <1>9, <2>2 DEF fcgi_write_file_from_stream, Handles, ThreadLine
  <2> QED
    BY <1>9, <2>1, <2>2 DEF fcgi_write_file_from_stream
<1>10. CASE tls_file_has_correct_format
  <2>1. CASE Responds("400", Rejected)
    BY <1>2, <1>10, <2>1 DEF tls_file_has_correct_format, Rejected, Answer
  <2>2. CASE HasCorrectFormat(request.file, temp) /\ line' = "copy"
             /\ UNCHANGED <<vars, connections, request, answer>>
    BY <1>1, <1>10, <2>2 DEF tls_file_has_correct_format, ThreadLine
  <2> QED
    BY <1>10, <2>1, <2>2 DEF tls_file_has_correct_format
<1>11. CASE copy_to_localdata_Refused
  BY <1>2, <1>11 DEF copy_to_localdata_Refused, Answer
<1>12. CASE copy_to_localdata_Begins
  BY <1>1, <1>12 DEF copy_to_localdata_Begins, ThreadLine, Answer
<1>13. CASE copy_to_localdata_Finishes
  BY <1>1, <1>13 DEF copy_to_localdata_Finishes, ThreadLine, Answer
<1>14. CASE restart_dockerd \/ unlink_temp_file
  BY <1>1, <1>14 DEF restart_dockerd, unlink_temp_file, ThreadLine
<1>15. CASE fcgi_start
  <2>1. line = "none"
    BY <1>15 DEF fcgi_start, main_Boot, ThreadEndsFirst
  <2> QED
    BY <1>15, <2>1 DEF fcgi_start, ThreadLine
<1>16. CASE fcgi_start_Fails \/ main_Goes \/ OtherEvents
  BY <1>1, <1>16 DEF fcgi_start_Fails, main_Goes, OtherEvents
<1>17. CASE fcgi_stop \/ fcgi_stop_Joins
  BY <1>1, <1>17, EmptySeq DEF fcgi_stop, Shutdown, fcgi_stop_Joins
<1>18. CASE process_Crashes \/ DevicePowerLoss
  BY <1>18, EmptySeq DEF process_Crashes, DevicePowerLoss, ThreadIsGone, ThreadLine, Answer
<1>19. ASSUME NEW r \in Requests, Connect(r) PROVE ThreadInv'
  <2>1. r \in Request
    BY FcgiAssumption
  <2>2. Append(backlog, r) \in Seq(Request)
    BY <2>1, AppendProperties
  <2> QED
    BY <1>1, <1>19, <2>2 DEF Connect
<1>20. CASE UNCHANGED fvars
  BY <1>1, <1>20 DEF fvars
<1> QED
  BY <1>3, <1>4, <1>5, <1>6, <1>7, <1>8, <1>9, <1>10, <1>11, <1>12, <1>13, <1>14, <1>15,
     <1>16, <1>17, <1>18, <1>19, <1>20
     DEF FcgiNext, MainSteps, ServerThread, HandlerSteps

-------------------------------------------------------------------------------
\* Each step of the thread and of what surrounds it is one of the supervisor's, or
\* leaves the supervisor alone.
LEMMA FcgiStepImplements ==
  ASSUME ThreadInv, [FcgiNext]_fvars
  PROVE  [Next]_vars
<1>1. line \notin {"none", "accept"} =>
        request.file \in CertFile \cup {"malformed"}
  BY RequestFields DEF ThreadInv, ThreadType, RequestIsServed
<1>2. CASE FCGX_Accept_r \/ FCGX_Accept_r_Fails \/ FCGX_Finish_r
  BY <1>2 DEF FCGX_Accept_r, FCGX_Accept_r_Fails, FCGX_Finish_r
<1>3. CASE \/ malformed_request \/ unsupported_request \/ delete_request_Refused
           \/ fcgi_write_file_from_stream \/ tls_file_has_correct_format
           \/ copy_to_localdata_Refused \/ unlink_temp_file
  BY <1>3 DEF malformed_request, unsupported_request, delete_request_Refused,
     fcgi_write_file_from_stream, tls_file_has_correct_format,
     copy_to_localdata_Refused, unlink_temp_file, Responds
<1>4. CASE remove_from_localdata
  <2>1. request.file \in CertFile /\ delete_request(request.file)
    BY <1>1, <1>4 DEF remove_from_localdata, Handles
  <2> QED
    BY <2>1 DEF Next, Environment
<1>5. CASE copy_to_localdata_Begins
  <2>1. request.file \in CertFile /\ copy_to_localdata(request.file)
    BY <1>5 DEF copy_to_localdata_Begins, ThreadInv, RequestIsServed
  <2> QED
    BY <2>1 DEF Next, Environment
<1>6. CASE copy_to_localdata_Finishes \/ restart_dockerd
  BY <1>6 DEF copy_to_localdata_Finishes, restart_dockerd, Next, FcgiThread
<1>7. CASE MainSteps
  <2>1. Main => Next
    BY DEF Next, MainThread
  <2> QED
    BY <1>7, <2>1 DEF MainSteps, fcgi_start, fcgi_start_Fails, fcgi_stop,
       fcgi_stop_Joins, main_Goes, process_Crashes, Main, Next
<1>8. CASE \E r \in Requests : Connect(r)
  BY <1>8 DEF Connect
<1>9. CASE DevicePowerLoss \/ OtherEvents
  BY <1>9 DEF DevicePowerLoss, OtherEvents, Next, Environment
<1>10. CASE UNCHANGED fvars
  BY <1>10 DEF fvars
<1> QED
  BY <1>2, <1>3, <1>4, <1>5, <1>6, <1>7, <1>8, <1>9, <1>10
     DEF FcgiNext, ServerThread, HandlerSteps

\* The part of the invariant that relates them to the main thread
ThreadControl ==
  ThreadEndsFirst /\ LeavesNoTempFile /\ CrashEnds /\ CertsAreFiles /\ RequestProgress

\* Every step keeps the thread within the life of the process, its file in /tmp within
\* post_request(), and the supervisor's view of the files and the request right.
LEMMA ThreadControlInductive ==
  ASSUME TypeOK, Control, ThreadInv, ThreadControl, [FcgiNext]_fvars
  PROVE  ThreadControl'
<1> USE DEF ThreadControl, ThreadEndsFirst, LeavesNoTempFile, CrashEnds, CertsAreFiles,
            RequestProgress, files, connections, thread, device, app
<1>1. /\ certs \in [CertFile -> BOOLEAN]
      /\ localdata \in [CertFile -> Body \cup {"absent", "partial"}]
  BY DEF TypeOK, DeviceType, ThreadInv, ThreadType
<1>2. line \notin {"none", "accept"} => request.body \in Body
  BY RequestFields DEF ThreadInv, ThreadType, RequestIsServed
<1>3. CASE FCGX_Accept_r \/ FCGX_Accept_r_Fails \/ FCGX_Finish_r
  BY <1>3 DEF FCGX_Accept_r, FCGX_Accept_r_Fails, FCGX_Finish_r, NextLine, vars
<1>4. CASE malformed_request \/ unsupported_request \/ delete_request_Refused
  BY <1>4 DEF malformed_request, unsupported_request, delete_request_Refused, Handles,
     Responds, vars
<1>5. CASE fcgi_write_file_from_stream \/ tls_file_has_correct_format
           \/ copy_to_localdata_Refused \/ unlink_temp_file
  BY <1>5 DEF fcgi_write_file_from_stream, tls_file_has_correct_format, Rejected,
     copy_to_localdata_Refused, unlink_temp_file, Handles, Responds, vars
<1>6. CASE remove_from_localdata
  BY <1>1, <1>6 DEF remove_from_localdata, delete_request, Handles
<1>7. CASE copy_to_localdata_Begins
  <2>1. temp \notin {"absent", "partial"}
    BY <1>2, <1>7, FcgiAssumption DEF copy_to_localdata_Begins, ThreadInv, RequestIsServed
  <2>2. /\ line = "copy" /\ request.file \in CertFile
        /\ certs' = [certs EXCEPT ![request.file] = TRUE]
        /\ req' = IF certs[request.file] THEN "stored" ELSE "copying"
        /\ UNCHANGED <<temp, socket, exitCode, pc>>
    BY <1>7 DEF copy_to_localdata_Begins, copy_to_localdata, ThreadInv, RequestIsServed
  <2>3. CASE /\ localdata[request.file] = "absent" /\ line' = "copying"
             /\ localdata' = [localdata EXCEPT ![request.file] = "partial"]
    <3>1. CertsAreFiles'
      BY <1>1, <2>2, <2>3
    <3> QED
      BY <2>2, <2>3, <3>1
  <2>4. CASE /\ localdata[request.file] # "absent" /\ line' = "allow"
             /\ localdata' = [localdata EXCEPT ![request.file] = temp]
    <3>1. CertsAreFiles'
      BY <1>1, <2>1, <2>2, <2>4
    <3> QED
      BY <2>2, <2>4, <3>1
  <2> QED
    BY <1>7, <2>3, <2>4 DEF copy_to_localdata_Begins
<1>8. CASE copy_to_localdata_Finishes
  <2>1. temp \notin {"absent", "partial"}
    BY <1>2, <1>8, FcgiAssumption
       DEF copy_to_localdata_Finishes, ThreadInv, RequestIsServed
  <2>2. localdata[request.file] # "absent"
    BY <1>8 DEF copy_to_localdata_Finishes, ThreadInv, RequestIsServed
  <2> QED
    BY <1>1, <1>8, <2>1, <2>2 DEF copy_to_localdata_Finishes, copy_to_localdata_Ends
<1>9. CASE restart_dockerd
  BY <1>9 DEF restart_dockerd, restart_dockerd_after_file_upload_Allow,
     restart_dockerd_after_file_upload_Quit
<1>10. CASE fcgi_start
  BY <1>10 DEF fcgi_start, main_Boot
<1>11. CASE fcgi_start_Fails
  BY <1>11 DEF fcgi_start_Fails, main_BootFails
<1>12. CASE fcgi_stop
  BY <1>12 DEF fcgi_stop, Shutdown, vars
<1>13. CASE fcgi_stop_Joins
  BY <1>13 DEF fcgi_stop_Joins, main_Exit, Joined
<1>14. CASE main_Goes
  <2>1. UNCHANGED <<certs, req>> /\ pc # "done" /\ pc' \notin {"boot", "done"}
    BY <1>14, MainGoesOn DEF main_Goes
  <2> QED
    BY <1>14, <2>1 DEF main_Goes
<1>15. CASE process_Crashes
  BY <1>15 DEF process_Crashes, build_daemon_args_Crashes, ThreadIsGone
<1>16. CASE \E r \in Requests : Connect(r)
  BY <1>16 DEF Connect, vars
<1>17. CASE DevicePowerLoss
  BY <1>17 DEF DevicePowerLoss, PowerLoss, ThreadIsGone
<1>18. CASE OtherEvents
  BY <1>18 DEF OtherEvents, ChangeParam, DockerdExit, Signal, GlibReap
<1>19. CASE UNCHANGED fvars
  BY <1>19 DEF fvars, vars
<1> QED
  BY <1>3, <1>4, <1>5, <1>6, <1>7, <1>8, <1>9, <1>10, <1>11, <1>12, <1>13, <1>14, <1>15,
     <1>16, <1>17, <1>18, <1>19 DEF FcgiNext, MainSteps, ServerThread, HandlerSteps

\* It holds initially.
LEMMA ThreadControlInitial == FcgiInit => ThreadControl
BY DEF FcgiInit, Init, ThreadControl, ThreadEndsFirst, LeavesNoTempFile, CrashEnds,
   CertsAreFiles, RequestProgress

\* The inductive invariant of the thread and the supervisor together
FcgiInv == TypeOK /\ Control /\ ThreadInv /\ ThreadControl

\* It holds in every reachable state.
LEMMA FcgiInvariant == FcgiSpec => []FcgiInv
<1>1. FcgiInit => FcgiInv
  BY TypeInitial, ControlInitial, ThreadInitial, ThreadControlInitial
     DEF FcgiInit, FcgiInv
<1>2. FcgiInv /\ [FcgiNext]_fvars => FcgiInv'
  <2> SUFFICES ASSUME FcgiInv, [FcgiNext]_fvars PROVE FcgiInv'
    OBVIOUS
  <2>1. [Next]_vars
    BY FcgiStepImplements DEF FcgiInv
  <2>2. TypeOK' /\ Control'
    BY <2>1, TypeInductive, ControlInductive DEF FcgiInv
  <2>3. ThreadInv'
    BY ThreadInductive DEF FcgiInv, ThreadControl
  <2>4. ThreadControl'
    BY ThreadControlInductive DEF FcgiInv
  <2> QED
    BY <2>2, <2>3, <2>4 DEF FcgiInv
<1> QED
  BY <1>1, <1>2, PTL DEF FcgiSpec

\* The thread with its requests and the supervisor together implement the supervisor,
\* so that whatever is proved of the supervisor holds with every request and failure.
THEOREM FcgiComposition == FcgiSpec => Spec
<1>1. FcgiInit => Init
  BY DEF FcgiInit
<1>2. FcgiInv /\ [FcgiNext]_fvars => [Next]_vars
  BY FcgiStepImplements DEF FcgiInv
<1> QED
  BY <1>1, <1>2, FcgiInvariant, PTL DEF FcgiSpec, Spec

\* Every variable of the thread and the supervisor keeps its type.
THEOREM FcgiTypeCorrect == FcgiSpec => []FcgiTypeOK
<1>1. FcgiInv => FcgiTypeOK
  BY DEF FcgiInv, ThreadInv, FcgiTypeOK
<1> QED
  BY <1>1, FcgiInvariant, PTL

\* The thread ends before main() frees what it uses and returns.
THEOREM ThreadIsJoined == FcgiSpec => []ThreadEndsFirst
<1>1. FcgiInv => ThreadEndsFirst
  BY DEF FcgiInv, ThreadControl
<1> QED
  BY <1>1, FcgiInvariant, PTL

\* No request leaves its temporary file behind, whichever of its calls fails.
THEOREM TempFilesAreRemoved == FcgiSpec => []LeavesNoTempFile
<1>1. FcgiInv => LeavesNoTempFile
  BY DEF FcgiInv, ThreadControl
<1> QED
  BY <1>1, FcgiInvariant, PTL

\* What the supervisor takes for a certificate file is a file in localdata.
THEOREM SupervisorSeesFiles == FcgiSpec => []CertsAreFiles
<1>1. FcgiInv => CertsAreFiles
  BY DEF FcgiInv, ThreadControl
<1> QED
  BY <1>1, FcgiInvariant, PTL

-------------------------------------------------------------------------------
\* An initial state of the thread is one of the store.
LEMMA StoreInitial == FcgiInit => Certificates!Init
BY FcgiAssumption
   DEF FcgiInit, Certificates!Init, Certificates!Contents, Progress, ClientsReply

\* Every step of the thread is a step of the store or leaves it alone.
LEMMA StoreStep ==
  ASSUME ThreadInv, ThreadEndsFirst, [FcgiNext]_fvars
  PROVE  [Certificates!Next]_(Certificates!vars)
<1> USE DEF files, connections, thread, Progress, ClientsReply, Certificates!vars,
            Certificates!Next
<1>1. /\ line \in ThreadLine /\ (line \in {"none", "accept"} <=> request = NoRequest)
      /\ line \notin {"none", "accept"} =>
           request.method \in Method /\ request.body \in Body
           /\ request.file \in CertFile \cup {"malformed"}
  BY RequestFields DEF ThreadInv, ThreadType, RequestIsServed
<1>2. ASSUME UNCHANGED <<files, thread>> PROVE UNCHANGED Certificates!vars
  BY <1>2
<1>3. CASE FCGX_Accept_r
  <2>1. Head(backlog) \in Request
    BY <1>3, HeadTailProperties DEF FCGX_Accept_r, ThreadInv, ThreadType
  <2> QED
    BY <1>1, <1>3, <2>1 DEF FCGX_Accept_r, Certificates!Receive
<1>4. CASE FCGX_Accept_r_Fails
  BY <1>4 DEF FCGX_Accept_r_Fails
<1>5. CASE FCGX_Finish_r
  BY <1>1, <1>5 DEF FCGX_Finish_r, NextLine, Certificates!Reply, ThreadInv, AnswerIsGiven
<1>6. ASSUME NEW code \in Answer \ {"none", "204"}, NEW next \in {"unlink", "finish"},
             Responds(code, next), localdata' = localdata,
             line \in {"callback", "check", "copy"}
      PROVE  UNCHANGED Certificates!vars
  BY <1>6 DEF Responds
<1>7. CASE malformed_request \/ unsupported_request \/ delete_request_Refused
  BY <1>6, <1>7 DEF malformed_request, unsupported_request, delete_request_Refused,
     Handles, Answer
<1>8. CASE remove_from_localdata
  <2>1. request.file \in CertFile /\ Certificates!Remove(request.file)
    BY <1>1, <1>8 DEF remove_from_localdata, Handles, Certificates!Remove
  <2> QED
    BY <2>1
<1>9. CASE fcgi_write_file_from_stream
  <2>1. CASE Responds("422", "finish") /\ UNCHANGED files
    BY <1>6, <1>9, <2>1 DEF fcgi_write_file_from_stream, Handles, Answer
  <2>2. CASE line' = "check" /\ UNCHANGED <<request, answer, localdata>>
    BY <1>9, <2>2 DEF fcgi_write_file_from_stream, Handles
  <2> QED
    BY <1>9, <2>1, <2>2 DEF fcgi_write_file_from_stream
<1>10. CASE tls_file_has_correct_format
  <2>1. CASE Responds("400", Rejected)
    BY <1>6, <1>10, <2>1 DEF tls_file_has_correct_format, Rejected, Answer
  <2>2. CASE line' = "copy" /\ UNCHANGED <<request, answer>>
    BY <1>10, <2>2 DEF tls_file_has_correct_format
  <2> QED
    BY <1>10, <2>1, <2>2 DEF tls_file_has_correct_format
<1>11. CASE copy_to_localdata_Refused
  BY <1>6, <1>11 DEF copy_to_localdata_Refused, Answer
<1>12. ASSUME line \in {"copy", "copying"}
       PROVE  Certificates!Uploads(request.file) /\ temp = request.body
  BY <1>1, <1>12 DEF Certificates!Uploads, ThreadInv, RequestIsServed, AnswerIsGiven,
     HasCorrectFormat, is_key_file
<1>13. CASE copy_to_localdata_Begins
  <2>1. request.file \in CertFile /\ line = "copy"
    BY <1>13 DEF copy_to_localdata_Begins, ThreadInv, RequestIsServed
  <2>2. CASE localdata[request.file] = "absent" /\ line' = "copying"
    <3>1. Certificates!Begin(request.file)
      BY <1>12, <1>13, <2>1, <2>2 DEF copy_to_localdata_Begins, Certificates!Begin
    <3> QED
      BY <2>1, <3>1
  <2>3. CASE localdata[request.file] # "absent" /\ line' = "allow"
    <3>1. Certificates!Store(request.file)
      BY <1>12, <1>13, <2>1, <2>3 DEF copy_to_localdata_Begins, Certificates!Store
    <3> QED
      BY <2>1, <3>1
  <2> QED
    BY <1>13, <2>2, <2>3 DEF copy_to_localdata_Begins
<1>14. CASE copy_to_localdata_Finishes
  <2>1. request.file \in CertFile /\ line = "copying"
    BY <1>14 DEF copy_to_localdata_Finishes, ThreadInv, RequestIsServed
  <2>2. CASE line' = "allow"
    <3>1. Certificates!Store(request.file)
      BY <1>12, <1>14, <2>1, <2>2 DEF copy_to_localdata_Finishes, Certificates!Store
    <3> QED
      BY <2>1, <3>1
  <2>3. CASE line' = "unlink" /\ answer' = "500"
    BY <1>14, <2>3 DEF copy_to_localdata_Finishes, Certificates!GiveUp
  <2> QED
    BY <1>14, <2>2, <2>3 DEF copy_to_localdata_Finishes
<1>15. CASE restart_dockerd
  BY <1>15 DEF restart_dockerd, Certificates!Announce, ThreadInv, AnswerIsGiven
<1>16. CASE unlink_temp_file
  BY <1>16 DEF unlink_temp_file
<1>17. CASE MainSteps \/ OtherEvents
  <2>1. CASE fcgi_start
    BY <2>1 DEF fcgi_start, main_Boot, ThreadEndsFirst
  <2>2. CASE process_Crashes
    BY <2>2 DEF process_Crashes, ThreadIsGone, Certificates!Stop
  <2>3. CASE fcgi_start_Fails \/ fcgi_stop \/ fcgi_stop_Joins \/ main_Goes \/ OtherEvents
    BY <1>2, <2>3 DEF fcgi_start_Fails, fcgi_stop, fcgi_stop_Joins, main_Goes, OtherEvents
  <2> QED
    BY <1>17, <2>1, <2>2, <2>3 DEF MainSteps
<1>18. CASE \E r \in Requests : Connect(r)
  BY <1>2, <1>18 DEF Connect
<1>19. CASE DevicePowerLoss
  BY <1>19 DEF DevicePowerLoss, ThreadIsGone, Certificates!Stop
<1>20. CASE UNCHANGED fvars
  BY <1>2, <1>20 DEF fvars
<1> QED
  BY <1>3, <1>4, <1>5, <1>7, <1>8, <1>9, <1>10, <1>11, <1>13, <1>14, <1>15, <1>16,
     <1>17, <1>18, <1>19, <1>20 DEF FcgiNext, ServerThread, HandlerSteps

\* The HTTP interface keeps the promises of the abstract store: for any files, contents
\* and requests, with any of the calls failing, a crash or a loss of power.
THEOREM StoreImplementation == FcgiSpec => ImplementsStore
<1>1. FcgiInv /\ [FcgiNext]_fvars => [Certificates!Next]_(Certificates!vars)
  BY StoreStep DEF FcgiInv, ThreadControl
<1> QED
  BY <1>1, StoreInitial, FcgiInvariant, PTL
     DEF FcgiSpec, ImplementsStore, Certificates!Spec

===============================================================================
