---------------------------- MODULE SdDiskStorage ----------------------------
(***************************************************************************)
(* The SD card storage of app/sd_disk_storage.c between the storage        *)
(* service of the device and the supervisor: the subscription, the         *)
(* asynchronous setup and the handle, and which calls of sd_card_callback()*)
(* the supervisor gets from them.                                          *)
(*                                                                         *)
(* Supervisor lets a storage callback call sd_card_callback() as it likes; *)
(* here each call is made by a line of subscribe_cb() or setup_cb().  When *)
(* sd_card_callback() blocks in stop_dockerd(), the line to go on with is  *)
(* put on a stack, for the main loop that it runs may dispatch the next    *)
(* storage callback meanwhile.                                             *)
(*                                                                         *)
(* Of the service it is assumed that it queues its callbacks in order, that*)
(* a card is not WRITABLE while it is EXITING, that it sets a card up only *)
(* while it is WRITABLE, and that it unmounts only after subscribe_cb() has*)
(* had its chance to let go of the card.                                   *)
(***************************************************************************)
EXTENDS SupervisorProperties

CONSTANTS
  CardMoves,   \* the changes of the card, but for its being unmounted
  MaxMoves,    \* how many of them happen: bounds the model
  Faults       \* the calls of the storage library that may fail

\* WRITABLE is the status of "writable", EXITING that of "exiting"; "readonly"
\* has neither.
Card == {"absent", "readonly", "writable", "exiting"}

\* A queued callback: subscribe_cb() without and with an error, setup_cb() with a
\* handle and with an error.
Callback == {"event", "event_error", "handle", "failed"}

\* Where a storage callback goes on: at the check of EXITING, at release(), at the
\* check of WRITABLE, or at its end.
Line == {"exiting", "release", "writable", "return"}

\* A subscription that fails, an event that reports an error, a status that cannot be
\* read, a setup that cannot be asked for or that fails, a path that cannot be had
Fault == {"subscribe", "event", "status", "ask", "setup", "path"}

ASSUME StorageAssumption ==
  /\ CardMoves \subseteq Card \X Card
  /\ \A m \in CardMoves : m[2] # "absent" /\ (m[1] = "absent" => m[2] # "exiting")
  /\ MaxMoves \in Nat
  /\ Faults \subseteq Fault

VARIABLES
  card,        \* what the service knows of the card
  moves,       \* how many CardMoves are left
  subscribed,  \* storage->subscription_id # 0
  inbox,       \* the callbacks queued in the main context
  asked,       \* setups asked for and not yet answered
  handle,      \* storage->handle # NULL
  frames,      \* where the storage callbacks that wait in stop_dockerd() go on
  line         \* where the running storage callback is; "none" runs

service == <<card, moves>>
library == <<subscribed, inbox, asked>>
callbacks == <<frames, line>>
svars == <<vars, service, library, handle, callbacks>>

-------------------------------------------------------------------------------
\* Calls of sd_card_callback()

\* The storage callback goes on at line next when the call has returned.
storage_callback(area, next) ==
  \/ /\ sd_card_callback(area) \/ (~area /\ sd_card_callback_Unmount)
     /\ line' = next
     /\ UNCHANGED frames
  \/ /\ ~area /\ sd_card_callback_StopsDockerd
     /\ frames' = Append(frames, next)
     /\ line' = "none"

\* The main loop dispatches the callback at the head of the queue.
Begins(callback) ==
  /\ InStorageCallback /\ line = "none"
  /\ inbox # <<>> /\ Head(inbox) = callback
  /\ inbox' = Tail(inbox)

Goes(from, to) == line = from /\ line' = to /\ UNCHANGED <<vars, frames>>

-------------------------------------------------------------------------------
\* subscribe_cb()

subscribe_cb ==
  /\ Begins("event")
  /\ Goes("none", "exiting")
  /\ UNCHANGED <<service, subscribed, asked, handle>>

subscribe_cb_Error ==
  /\ Begins("event_error")
  /\ storage_callback(FALSE, "exiting")
  /\ UNCHANGED <<service, subscribed, asked, handle>>

\* The card released first, and dockerd never stopped
ExitingCalls_Bug == Goes("exiting", "release")

\* dockerd is stopped before the card is released.
ExitingCalls == line = "exiting" /\ storage_callback(FALSE, "release")

subscribe_cb_Exiting ==
  /\ \/ card = "exiting" /\ ExitingCalls
     \/ (card # "exiting" \/ "status" \in Faults) /\ Goes("exiting", "writable")
  /\ UNCHANGED <<service, library, handle>>

release ==
  /\ Goes("release", "writable")
  /\ handle' = FALSE
  /\ UNCHANGED <<service, library>>

subscribe_cb_Writable ==
  /\ \/ /\ card = "writable"
        /\ Goes("writable", "return")
        /\ asked' = asked + 1
     \/ /\ card = "writable" /\ "ask" \in Faults
        /\ line = "writable" /\ storage_callback(FALSE, "return")
        /\ UNCHANGED asked
     \/ /\ card # "writable" \/ "status" \in Faults
        /\ Goes("writable", "return")
        /\ UNCHANGED asked
  /\ UNCHANGED <<service, subscribed, inbox, handle>>

-------------------------------------------------------------------------------
\* setup_cb()

setup_cb ==
  /\ Begins("handle")
  /\ handle' = TRUE
  /\ \/ storage_callback(TRUE, "return")
     \/ "path" \in Faults /\ storage_callback(FALSE, "return")
  /\ UNCHANGED <<service, subscribed, asked>>

setup_cb_Error ==
  /\ Begins("failed")
  /\ storage_callback(FALSE, "return")
  /\ UNCHANGED <<service, subscribed, asked, handle>>

-------------------------------------------------------------------------------
\* The storage callbacks on the stack of the main thread

storage_Returns ==
  /\ line = "return" /\ line' = "none"
  /\ sd_disk_storage_Returns
  /\ UNCHANGED <<service, library, handle, frames>>

storage_Resumes ==
  /\ sd_card_callback_Resumes
  /\ frames # <<>>
  /\ line' = Last(frames)
  /\ frames' = Front(frames)
  /\ UNCHANGED <<service, library, handle>>

-------------------------------------------------------------------------------
\* The rest of the main thread: main() initialises and frees the storage, and no
\* callback is dispatched that is not queued.

\* The first event tells what the card is.  Without a card slot, or when subscribing
\* fails, there are no events.
sd_disk_storage_init ==
  /\ main_Boot
  /\ \/ subscribed' = TRUE /\ inbox' = <<"event">>
     \/ "subscribe" \in Faults /\ UNCHANGED <<subscribed, inbox>>
  /\ UNCHANGED <<service, asked, handle, callbacks>>

LetsGo == handle' = FALSE /\ subscribed' = FALSE /\ inbox' = <<>> /\ asked' = 0

\* An answer that is still due finds no main loop any more.
sd_disk_storage_free ==
  /\ main_Teardown
  /\ LetsGo
  /\ UNCHANGED <<service, callbacks>>

\* The library closes what a process that has crashed has left behind.
storage_Crashes ==
  /\ build_daemon_args_Crashes
  /\ LetsGo
  /\ UNCHANGED <<service, callbacks>>

main_Continues ==
  /\ Main /\ pc \notin {"boot", "teardown"} /\ exitCode' # "crash"
  /\ line = "none"
  /\ "sd" \in batch' \ batch => inbox # <<>>
  /\ UNCHANGED <<service, library, handle, callbacks>>

storage_NotReached ==
  /\ main_BootFails
  /\ UNCHANGED <<service, library, handle, callbacks>>

MainSteps ==
  \/ sd_disk_storage_init \/ storage_NotReached \/ sd_disk_storage_free
  \/ storage_Crashes \/ main_Continues
  \/ subscribe_cb \/ subscribe_cb_Error \/ subscribe_cb_Exiting \/ release
  \/ subscribe_cb_Writable
  \/ setup_cb \/ setup_cb_Error \/ storage_Returns \/ storage_Resumes

-------------------------------------------------------------------------------
\* The storage service

Notify ==
  \E e \in {"event"} \cup (IF "event" \in Faults THEN {"event_error"} ELSE {}) :
    inbox' = IF subscribed THEN Append(inbox, e) ELSE inbox

CardChanges(to) ==
  /\ <<card, to>> \in CardMoves
  /\ moves > 0 /\ moves' = moves - 1
  /\ card' = to
  /\ Notify
  /\ UNCHANGED <<vars, subscribed, asked, handle, callbacks>>

\* Is subscribe_cb() still to be called, or still to let go of the card?
EventsHandled ==
  /\ \A i \in DOMAIN inbox : inbox[i] \in {"handle", "failed"}
  /\ \A i \in DOMAIN frames : frames[i] = "return"
  /\ line \in {"none", "return"}

Unmount ==
  /\ card = "exiting" /\ EventsHandled
  /\ card' = "absent"
  /\ Notify
  /\ UNCHANGED <<vars, moves, subscribed, asked, handle, callbacks>>

AnswerSetup ==
  /\ asked > 0 /\ asked' = asked - 1
  /\ \/ card = "writable" /\ inbox' = Append(inbox, "handle")
     \/ (card # "writable" \/ "setup" \in Faults) /\ inbox' = Append(inbox, "failed")
  /\ UNCHANGED <<vars, service, subscribed, handle, callbacks>>

\* The card survives, and is no longer on its way out.
DevicePowerLoss ==
  /\ PowerLoss
  /\ card' = IF card = "exiting" THEN "writable" ELSE card
  /\ LetsGo
  /\ frames' = <<>> /\ line' = "none"
  /\ UNCHANGED moves

OtherEvents ==
  /\ FcgiThread \/ Environment
  /\ pc' = pc
  /\ UNCHANGED <<service, library, handle, callbacks>>

Service == (\E to \in Card : CardChanges(to)) \/ Unmount \/ AnswerSetup

-------------------------------------------------------------------------------
SdInit ==
  /\ Init
  /\ card \in Card \ {"exiting"} /\ moves = MaxMoves
  /\ subscribed = FALSE /\ inbox = <<>> /\ asked = 0
  /\ handle = FALSE
  /\ frames = <<>> /\ line = "none"

SdNext == MainSteps \/ Service \/ DevicePowerLoss \/ OtherEvents

\* The main thread runs, GLib dispatches what stays ready, the service answers and
\* unmounts.  Nothing obliges the card to move or a call to fail.
SdFairness ==
  /\ WF_svars(MainSteps)
  /\ \A k \in Source : SF_svars(main_Continues /\ Iterate /\ k \in batch')
  /\ WF_svars(AnswerSetup) /\ WF_svars(Unmount)
  /\ WF_svars(OtherEvents /\ FcgiThread)
  /\ WF_svars(OtherEvents /\ GlibReap)
  /\ WF_svars(OtherEvents /\ sig = "kill" /\ DockerdExit("signal"))

SdSpec == SdInit /\ [][SdNext]_svars
SdFairSpec == SdSpec /\ SdFairness

===============================================================================
