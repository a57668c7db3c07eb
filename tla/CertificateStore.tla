--------------------------- MODULE CertificateStore ---------------------------
(***************************************************************************)
(* What the HTTP interface of the application promises about the           *)
(* certificates in localdata, without threads, sockets, temporary files and*)
(* the format of requests: a file has only contents that are valid for it, *)
(* one that is there is replaced or removed as a whole, and "ok" is        *)
(* answered if and only if all of the request has been done, which for an  *)
(* upload includes that the supervisor has been told to restart dockerd.   *)
(***************************************************************************)
CONSTANTS
  File, Body,
  Valid,       \* the pairs of a file and contents that it may have
  Request,     \* records with the fields method, file and body
  NoRequest

VARIABLES
  store,       \* of each file: absent, partial, or its contents
  request,     \* the request being served
  progress,    \* of the request: none, begun, stored, or complete
  reply        \* to the last request: ok, refused, or none

vars == <<store, request, progress, reply>>

Contents == [File -> Body \cup {"absent", "partial"}]

Init ==
  /\ store \in Contents
  /\ request = NoRequest /\ progress = "none" /\ reply = "none"

Uploads(f) ==
  request # NoRequest /\ request.method = "POST" /\ request.file = f
  /\ f \in File /\ <<f, request.body>> \in Valid

Receive ==
  /\ request = NoRequest
  /\ request' \in Request
  /\ reply' = "none"
  /\ UNCHANGED <<store, progress>>

\* Only a file that was absent may be seen while it is being written.
Begin(f) ==
  /\ Uploads(f) /\ progress = "none" /\ store[f] = "absent"
  /\ store' = [store EXCEPT ![f] = "partial"]
  /\ progress' = "begun"
  /\ UNCHANGED <<request, reply>>

Store(f) ==
  /\ Uploads(f)
  /\ progress = "begun" \/ (progress = "none" /\ store[f] # "absent")
  /\ store' = [store EXCEPT ![f] = request.body]
  /\ progress' = "stored"
  /\ UNCHANGED <<request, reply>>

GiveUp ==
  /\ progress = "begun" /\ progress' = "none"
  /\ UNCHANGED <<store, request, reply>>

Announce ==
  /\ progress = "stored" /\ progress' = "complete"
  /\ UNCHANGED <<store, request, reply>>

Remove(f) ==
  /\ request # NoRequest /\ request.method = "DELETE" /\ request.file = f
  /\ progress = "none" /\ store[f] # "absent"
  /\ store' = [store EXCEPT ![f] = "absent"]
  /\ progress' = "complete"
  /\ UNCHANGED <<request, reply>>

Reply ==
  /\ request # NoRequest /\ request' = NoRequest
  /\ progress \in {"none", "complete"} /\ progress' = "none"
  /\ reply' = IF progress = "complete" THEN "ok" ELSE "refused"
  /\ UNCHANGED store

\* The device loses power, or the application crashes.
Stop ==
  /\ request' = NoRequest /\ progress' = "none" /\ reply' = "none"
  /\ UNCHANGED store

Next ==
  \/ Receive \/ GiveUp \/ Announce \/ Reply \/ Stop
  \/ \E f \in File : Begin(f) \/ Store(f) \/ Remove(f)

Spec == Init /\ [][Next]_vars

===============================================================================
