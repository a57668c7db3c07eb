----------------------------- MODULE MCFcgiServer -----------------------------
(***************************************************************************)
(* Small instances of FcgiServer for TLC.                                  *)
(***************************************************************************)
EXTENDS FcgiServerProperties

TlsSelected == {[p \in Param |-> p \in {"TCPSocket", "UseTLS"}]}
LacksKey == {[f \in CertFile |-> f # "server-key.pem"]}

KeyIsMissing ==
  {[f \in CertFile |-> IF f = "server-key.pem" THEN "absent" ELSE "cert"]}

FcgiBudget ==
  [e \in Event |-> IF e \in {"upload", "delete"} THEN 2
                   ELSE IF e \in {"copy_failure", "signal", "power_loss", "boot_failure",
                                  "read_failure"} THEN 1 ELSE 0]

\* Every kind of request that post_request() and delete_request() tell apart, for the
\* file that is missing and for one that is there.
Upload(f, b) == [method |-> "POST", file |-> f, body |-> b]
Delete(f) == [method |-> "DELETE", file |-> f, body |-> "junk"]
SomeRequests ==
  {Upload("server-key.pem", "key"), Upload("server-key.pem", "cert"),
   Upload("ca.pem", "cert"), Delete("server-key.pem"),
   [method |-> "other", file |-> "ca.pem", body |-> "junk"],
   [method |-> "POST", file |-> "malformed", body |-> "key"]}
=============================================================================
