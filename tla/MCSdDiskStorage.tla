--------------------------- MODULE MCSdDiskStorage ---------------------------
(***************************************************************************)
(* Small instances of SdDiskStorage for TLC.                               *)
(***************************************************************************)
EXTENDS SdDiskStorageProperties

OnlyYes(ps) == [p \in Param |-> p \in ps]
IpcOnSdCard == {OnlyYes({"IPCSocket", "SDCardSupport"})}
AllCerts == {[f \in CertFile |-> TRUE]}
Only(b) == [e \in Event |-> IF e \in DOMAIN b THEN b[e] ELSE 0]

SdBudget == Only([exit |-> 1])
FailuresBudget ==
  [e \in Event |-> IF e \in {"upload", "delete", "exit", "signal", "copy_failure"}
                   THEN 0 ELSE 1]

\* A card comes, is written about, and goes.
InAndOut ==
  {<<"absent", "writable">>, <<"writable", "writable">>, <<"writable", "exiting">>}
\* It may also stay after all.
InOutAndStays == InAndOut \cup {<<"exiting", "writable">>}
=============================================================================
