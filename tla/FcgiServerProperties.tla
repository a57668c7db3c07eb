------------------------- MODULE FcgiServerProperties -------------------------
(***************************************************************************)
(* What the FCGI thread promises its clients, and main().                  *)
(***************************************************************************)
EXTENDS FcgiServer

ThreadType ==
  /\ localdata \in [CertFile -> Body \cup {"absent", "partial"}]
  /\ temp \in Body \cup {"none"}
  /\ socket \in {"closed", "listening", "shutdown"}
  /\ backlog \in Seq(Request) /\ unsent \in Nat
  /\ line \in ThreadLine /\ request \in Request \cup {NoRequest} /\ answer \in Answer

FcgiTypeOK == TypeOK /\ ThreadType

-------------------------------------------------------------------------------
\* Safety

\* main() frees what the callback of the thread uses, and returns, only when the thread
\* has ended; and the thread has then finished the request that it was serving.
ThreadEndsFirst ==
  line # "none" => pc \notin {"boot", "done"} /\ socket # "closed"

\* There is a file in /tmp only while post_request() works on it, whatever becomes of
\* the request, unless the process has crashed.
LeavesNoTempFile ==
  temp # "none" =>
    \/ line \in {"check", "copy", "copying", "allow", "quit", "unlink"}
    \/ exitCode = "crash"

-------------------------------------------------------------------------------
\* Liveness

\* Every request that has been accepted, or waits to be, is answered or, while the
\* application ends, dropped.
Busy == backlog # <<>> \/ request # NoRequest
RequestsAreServed == Busy ~> ~Busy

\* fcgi_stop() returns, whether the thread waits for a connection or serves a request
\* when the application ends.
ServerStops == pc = "join" ~> pc # "join"

-------------------------------------------------------------------------------
\* The abstract store of certificates, and how the thread's state maps to it

Progress ==
  CASE line = "copying" -> "begun"
    [] line \in {"allow", "quit"} -> "stored"
    [] line \in {"unlink", "finish"} /\ answer = "204" -> "complete"
    [] OTHER -> "none"

\* The client has an answer once FCGX_Finish_r() has sent it.
ClientsReply ==
  IF line \notin {"none", "accept"} \/ answer = "none" THEN "none"
  ELSE IF answer = "204" THEN "ok" ELSE "refused"

Certificates == INSTANCE CertificateStore
                  WITH File <- CertFile,
                       Valid <- {v \in CertFile \X Body :
                                   v[2] \in IF v[1] = "server-key.pem" THEN KeyBody
                                            ELSE CertBody},
                       store <- localdata, progress <- Progress, reply <- ClientsReply

\* The thread implements the store: no file gets contents that are not valid for it, one
\* that is there is never seen half-written, and a client gets 204 if and only if all of
\* its request has been done, the restart of dockerd asked for included.
ImplementsStore == Certificates!Spec

-------------------------------------------------------------------------------
\* The inductive invariants behind the safety properties

\* A process that has crashed does nothing any more.
CrashEnds == exitCode = "crash" => pc = "done"

\* The supervisor looks at the files that are there.
CertsAreFiles == \A f \in CertFile : certs[f] = (localdata[f] # "absent")

\* What the thread has under way is where the supervisor takes it to be.
RequestProgress ==
  req = CASE line = "copying" -> "copying"
          [] line = "allow" -> "stored"
          [] line = "quit" -> "allowed"
          [] OTHER -> "idle"

\* A request is served until it is finished, and the file in /tmp is its body.
RequestIsServed ==
  /\ line \in {"none", "accept"} <=> request = NoRequest
  /\ line \in {"check", "copy", "copying", "allow", "quit", "unlink"} =>
       request.method = "POST" /\ request.file \in CertFile
  /\ line \in {"check", "copy", "copying"} => temp = request.body
  /\ line = "copying" => localdata[request.file] = "partial"

\* Its file is copied only if it is valid, and the answer is known by the end of that.
AnswerIsGiven ==
  /\ line \in {"copy", "copying"} => HasCorrectFormat(request.file, request.body)
  /\ line \in {"allow", "quit"} => answer = "204"
  /\ line \in {"unlink", "finish"} => answer # "none"

===============================================================================
