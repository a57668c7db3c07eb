--------------------------- MODULE DockerdLifecycle ---------------------------
(***************************************************************************)
(* What the supervisor of app/dockerdwrapper.c promises about dockerd,     *)
(* without its settings, main loops, timers and callbacks: there is one    *)
(* dockerd at a time, it is started only while that is permitted, its end  *)
(* is noticed before the next one starts and decides whether there may be  *)
(* a next one, and the application ends only after dockerd has.            *)
(***************************************************************************)

VARIABLES
  daemon,     \* absent, up, or dead: it has ended and that is not yet noticed
  permitted,  \* may dockerd be started?
  phase       \* of the application: booting, serving, closing, ended

vars == <<daemon, permitted, phase>>

Init == daemon = "absent" /\ permitted = TRUE /\ phase = "booting"

\* The application is set up, or fails to.
Boot ==
  /\ phase = "booting"
  /\ phase' \in {"serving", "ended"}
  /\ UNCHANGED <<daemon, permitted>>

Start ==
  /\ phase = "serving" /\ permitted
  /\ daemon = "absent"
  /\ daemon' = "up"
  /\ UNCHANGED <<permitted, phase>>

\* By itself or because it has been asked to.
End ==
  /\ daemon = "up"
  /\ daemon' = "dead"
  /\ UNCHANGED <<permitted, phase>>

\* A failure forbids the next start.
Notice(failure) ==
  /\ phase = "serving"
  /\ daemon = "dead"
  /\ daemon' = "absent"
  /\ permitted' = ~failure
  /\ UNCHANGED phase

\* A parameter change or an upload may have resolved the problem.
Permit ==
  /\ phase \in {"serving", "closing"}
  /\ permitted' = TRUE
  /\ UNCHANGED <<daemon, phase>>

Close ==
  /\ phase = "serving"
  /\ daemon # "up"
  /\ phase' = "closing"
  /\ UNCHANGED <<daemon, permitted>>

Finish ==
  /\ phase = "closing"
  /\ phase' = "ended"
  /\ UNCHANGED <<daemon, permitted>>

\* The application crashes while it prepares a start.
Crash ==
  /\ phase = "serving" /\ permitted
  /\ daemon = "absent"
  /\ phase' = "ended"
  /\ UNCHANGED <<daemon, permitted>>

Restart ==
  /\ daemon' = "absent" /\ permitted' = TRUE /\ phase' = "booting"

Next ==
  \/ Boot \/ Start \/ End \/ (\E failure \in BOOLEAN : Notice(failure))
  \/ Permit \/ Close \/ Finish \/ Crash \/ Restart

Spec == Init /\ [][Next]_vars

\* The end of dockerd is noticed, unless the application itself comes to an end.
EndIsNoticed == daemon = "dead" ~> daemon = "absent" \/ phase # "serving"

===============================================================================
