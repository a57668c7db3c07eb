---------------------------- MODULE MCSupervisor ----------------------------
(***************************************************************************)
(* Small instances of Supervisor for TLC.                                  *)
(***************************************************************************)
EXTENDS SupervisorProperties

\* Parameter values and files at start
OnlyYes(ps) == [p \in Param |-> p \in ps]
TcpOnly == {OnlyYes({"TCPSocket"})}
TlsSelected == {OnlyYes({"TCPSocket", "UseTLS"})}
IpcOnSdCard == {OnlyYes({"IPCSocket", "SDCardSupport"})}

AllCerts == {[f \in CertFile |-> TRUE]}
LacksOne == {[f \in CertFile |-> f # "server-key.pem"]}
LacksOneOrMore ==
  {[f \in CertFile |-> TRUE], [f \in CertFile |-> f # "server-key.pem"],
   [f \in CertFile |-> FALSE]}

\* How often each outside event happens; the events not named never do.
Only(b) == [e \in Event |-> IF e \in DOMAIN b THEN b[e] ELSE 0]
SettingsBudget == Only([param |-> 2, signal |-> 1])
ExitsBudget == Only([exit |-> 2, upload |-> 1, param |-> 1, signal |-> 1])
FailuresBudget ==
  [e \in Event |-> IF e \in {"upload", "exit", "copy_failure"} THEN 0 ELSE 1]

\* The scenarios of the runs that TLC must find violated
OneUpload == Only([upload |-> 1])
OneChange == Only([param |-> 1])
ChangeAndExit == Only([param |-> 1, exit |-> 1])
=============================================================================
