------------------------------ MODULE FcgiServer ------------------------------
(***************************************************************************)
(* The FCGI thread of app/fcgi_server.c with the requests of               *)
(* app/http_request.c that it serves one at a time: how a certificate gets *)
(* from a client to localdata, what else the thread leaves behind, and how *)
(* main() starts, stops and joins the thread.                              *)
(*                                                                         *)
(* Supervisor sees only the files appear and disappear and the calls of    *)
(* restart_dockerd_after_file_upload(); here each of these is made by a    *)
(* line of the request handler.  How fcgi_write_file_from_stream() takes   *)
(* the file out of the request is the subject of MultipartUpload; here it  *)
(* stores the body or fails.                                               *)
(*                                                                         *)
(* Of the web server it is assumed that it passes on requests for the three*)
(* certificate files only (manifest.json), or ones whose URI has no slash, *)
(* and that it does not withhold the rest of a request for ever.           *)
(***************************************************************************)
EXTENDS SupervisorProperties

CONSTANTS
  CertBody,    \* contents with the header and the footer of a certificate
  KeyBody,     \* contents with those of one of the two kinds of private key
  OtherBody,   \* contents with neither
  InitFiles,   \* what the application may find in localdata
  Requests,    \* the requests that clients send
  MaxRequests, \* how many they send: bounds the model
  FcgiFaults   \* what may fail

Body == CertBody \cup KeyBody \cup OtherBody
Method == {"POST", "DELETE", "other"}
Request == [method : Method, file : CertFile \cup {"malformed"}, body : Body]
NoRequest == [method |-> "none"]

\* A transfer of the file that is cut short or malformed, a localdata that cannot be
\* written to, a file that cannot be removed, an accept() that fails while the server runs
FcgiFault == {"upload", "copy", "remove", "accept"}

ASSUME FcgiAssumption ==
  /\ CertBody \cap KeyBody = {} /\ CertBody \cap OtherBody = {}
  /\ KeyBody \cap OtherBody = {}
  /\ {"absent", "partial", "none"} \cap Body = {}
  /\ InitFiles \subseteq [CertFile -> Body \cup {"absent", "partial"}]
  /\ Requests \subseteq Request
  /\ MaxRequests \in Nat
  /\ Budget["upload"] >= MaxRequests /\ Budget["delete"] >= MaxRequests
  /\ FcgiFaults \subseteq FcgiFault

\* Where the thread is: not running, in FCGX_Accept_r(), at the top of
\* http_request_callback(), in post_request() before the check, the copying and the end
\* of the copying of the file, in restart_dockerd_after_file_upload(), at unlink(), and
\* before FCGX_Finish_r().
ThreadLine == {"none", "accept", "callback", "check", "copy", "copying", "allow", "quit",
               "unlink", "finish"}

\* response_*()
Answer == {"none", "204", "400", "404", "405", "422", "500"}

VARIABLES
  localdata,   \* of each file: absent, partial, or its contents
  temp,        \* the contents of the file in /tmp; "none": there is no such file
  socket,      \* g_socket: closed, listening, or shutdown
  backlog,     \* the requests that wait to be accepted
  unsent,      \* how many requests are still to be sent
  line,        \* where the thread is
  request,     \* the request being served
  answer       \* in its output stream; FCGX_Finish_r() sends it

files == <<localdata, temp>>
connections == <<socket, backlog, unsent>>
thread == <<line, request, answer>>
fvars == <<vars, files, connections, thread>>

-------------------------------------------------------------------------------
\* tls.c

is_key_file(f) == f = "server-key.pem"

\* Header and footer not compared
HasCorrectFormat_Bug(f, b) == TRUE
HasCorrectFormat(f, b) == b \in IF is_key_file(f) THEN KeyBody ELSE CertBody

-------------------------------------------------------------------------------
\* fcgi_server.c: the thread

FCGX_Accept_r ==
  /\ line = "accept" /\ backlog # <<>>
  /\ request' = Head(backlog) /\ backlog' = Tail(backlog)
  /\ answer' = "none"
  /\ line' = "callback"
  /\ UNCHANGED <<vars, files, socket, unsent>>

\* The thread ends.
FCGX_Accept_r_Fails ==
  /\ line = "accept"
  /\ socket = "shutdown" \/ "accept" \in FcgiFaults
  /\ line' = "none"
  /\ UNCHANGED <<vars, files, connections, request, answer>>

\* The thread ends with a request that it could not make sense of.
NextLine_Bug == IF answer = "405" THEN "none" ELSE "accept"
NextLine == "accept"

FCGX_Finish_r ==
  /\ line = "finish"
  /\ line' = NextLine
  /\ request' = NoRequest
  /\ UNCHANGED <<vars, files, connections, answer>>

-------------------------------------------------------------------------------
\* http_request.c

\* The handler has its answer, and leaves the rest of the process alone.
Responds(code, next) ==
  /\ answer' = code /\ line' = next
  /\ UNCHANGED <<vars, connections, request>>

Handles(method) ==
  line = "callback" /\ request.file # "malformed" /\ request.method = method

malformed_request ==
  /\ line = "callback" /\ request.file = "malformed"
  /\ Responds("400", "finish")
  /\ UNCHANGED files

unsupported_request ==
  /\ Handles("other")
  /\ Responds("405", "finish")
  /\ UNCHANGED files

delete_request_Refused ==
  /\ Handles("DELETE")
  /\ \/ localdata[request.file] = "absent" /\ Responds("404", "finish")
     \/ localdata[request.file] # "absent" /\ "remove" \in FcgiFaults
        /\ Responds("500", "finish")
  /\ UNCHANGED files

remove_from_localdata ==
  /\ Handles("DELETE") /\ localdata[request.file] # "absent"
  /\ delete_request(request.file)
  /\ localdata' = [localdata EXCEPT ![request.file] = "absent"]
  /\ answer' = "204" /\ line' = "finish"
  /\ UNCHANGED <<temp, connections, request>>

\* On failure fcgi_write_file_from_stream() has removed its file.
fcgi_write_file_from_stream ==
  /\ Handles("POST")
  /\ \/ /\ temp' = request.body /\ line' = "check"
        /\ UNCHANGED <<vars, connections, request, answer, localdata>>
     \/ /\ "upload" \in FcgiFaults
        /\ Responds("422", "finish")
        /\ UNCHANGED files

\* A file that is rejected is left in /tmp.
Rejected_Bug == "finish"
Rejected == "unlink"

tls_file_has_correct_format ==
  /\ line = "check"
  /\ \/ /\ HasCorrectFormat(request.file, temp)
        /\ line' = "copy"
        /\ UNCHANGED <<vars, connections, request, answer>>
     \/ /\ ~HasCorrectFormat(request.file, temp)
        /\ Responds("400", Rejected)
  /\ UNCHANGED files

copy_to_localdata_Refused ==
  /\ line = "copy" /\ "copy" \in FcgiFaults
  /\ Responds("500", "unlink")
  /\ UNCHANGED files

\* A file that is missing is created in place, one that is there is written beside it
\* and renamed.
copy_to_localdata_Begins ==
  /\ line = "copy"
  /\ copy_to_localdata(request.file)
  /\ \/ /\ localdata[request.file] = "absent"
        /\ localdata' = [localdata EXCEPT ![request.file] = "partial"]
        /\ line' = "copying"
        /\ UNCHANGED answer
     \/ /\ localdata[request.file] # "absent"
        /\ localdata' = [localdata EXCEPT ![request.file] = temp]
        /\ answer' = "204" /\ line' = "allow"
  /\ UNCHANGED <<temp, connections, request>>

\* A copy that fails half-way leaves a new file as it is.
copy_to_localdata_Finishes ==
  /\ line = "copying"
  /\ copy_to_localdata_Ends
  /\ \/ /\ req' = "stored"
        /\ localdata' = [localdata EXCEPT ![request.file] = temp]
        /\ answer' = "204" /\ line' = "allow"
     \/ /\ req' = "idle"
        /\ answer' = "500" /\ line' = "unlink"
        /\ UNCHANGED localdata
  /\ UNCHANGED <<temp, connections, request>>

restart_dockerd ==
  /\ \/ /\ line = "allow" /\ line' = "quit"
        /\ restart_dockerd_after_file_upload_Allow
     \/ /\ line = "quit" /\ line' = "unlink"
        /\ restart_dockerd_after_file_upload_Quit
  /\ UNCHANGED <<files, connections, request, answer>>

unlink_temp_file ==
  /\ line = "unlink" /\ line' = "finish"
  /\ temp' = "none"
  /\ UNCHANGED <<vars, localdata, connections, request, answer>>

HandlerSteps ==
  \/ malformed_request \/ unsupported_request
  \/ delete_request_Refused \/ remove_from_localdata
  \/ fcgi_write_file_from_stream \/ tls_file_has_correct_format
  \/ copy_to_localdata_Refused \/ copy_to_localdata_Begins
  \/ copy_to_localdata_Finishes \/ restart_dockerd \/ unlink_temp_file

ServerThread == FCGX_Accept_r \/ FCGX_Accept_r_Fails \/ FCGX_Finish_r \/ HandlerSteps

-------------------------------------------------------------------------------
\* fcgi_server.c: what main() calls

fcgi_start ==
  /\ main_Boot
  /\ socket' = "listening" /\ line' = "accept"
  /\ UNCHANGED <<files, backlog, unsent, request, answer>>

fcgi_start_Fails ==
  /\ main_BootFails
  /\ UNCHANGED <<files, connections, thread>>

\* Only FCGX_ShutdownPending(), which a thread that is in accept() does not look at
Shutdown_Bug == "listening"
Shutdown == "shutdown"

fcgi_stop ==
  /\ pc = "join" /\ socket = "listening"
  /\ socket' = Shutdown
  /\ UNCHANGED <<vars, files, backlog, unsent, thread>>

\* main() does not wait for the thread.
Joined_Bug == TRUE
Joined == line = "none"

\* What is still in the backlog is dropped.
fcgi_stop_Joins ==
  /\ main_Exit
  /\ socket = "shutdown" /\ Joined
  /\ socket' = "closed" /\ backlog' = <<>>
  /\ UNCHANGED <<files, unsent, thread>>

main_Goes ==
  /\ MainThread /\ pc \notin {"boot", "join"} /\ exitCode' # "crash"
  /\ UNCHANGED <<files, connections, thread>>

\* The process is gone, and nothing tells the client or removes the file in /tmp.
ThreadIsGone ==
  /\ line' = "none" /\ request' = NoRequest /\ answer' = "none"
  /\ socket' = "closed" /\ backlog' = <<>>
  /\ UNCHANGED <<localdata, unsent>>

process_Crashes == build_daemon_args_Crashes /\ ThreadIsGone /\ UNCHANGED temp

MainSteps ==
  fcgi_start \/ fcgi_start_Fails \/ fcgi_stop \/ fcgi_stop_Joins \/ main_Goes
  \/ process_Crashes

-------------------------------------------------------------------------------
\* Clients and the rest of the outside world

Connect(r) ==
  /\ socket = "listening"
  /\ unsent > 0 /\ unsent' = unsent - 1
  /\ backlog' = Append(backlog, r)
  /\ UNCHANGED <<vars, files, socket, thread>>

\* /tmp is in memory.
DevicePowerLoss == PowerLoss /\ ThreadIsGone /\ temp' = "none"

OtherEvents ==
  /\ \/ \E p \in Changeable : ChangeParam(p)
     \/ \E cause \in Cause : DockerdExit(cause)
     \/ Signal \/ GlibReap
  /\ UNCHANGED <<files, connections, thread>>

-------------------------------------------------------------------------------
FcgiInit ==
  /\ Init
  /\ localdata \in InitFiles
  /\ \A f \in CertFile : certs[f] = (localdata[f] # "absent")
  /\ temp = "none"
  /\ socket = "closed" /\ backlog = <<>> /\ unsent = MaxRequests
  /\ line = "none" /\ request = NoRequest /\ answer = "none"

FcgiNext ==
  \/ MainSteps \/ ServerThread
  \/ \E r \in Requests : Connect(r)
  \/ DevicePowerLoss \/ OtherEvents

\* Both threads run.  Nothing obliges a client to connect or a call to fail.
FcgiFairness == WF_fvars(MainSteps) /\ WF_fvars(ServerThread)

FcgiSpec == FcgiInit /\ [][FcgiNext]_fvars
FcgiFairSpec == FcgiSpec /\ FcgiFairness

===============================================================================
