----------------------- MODULE SdDiskStorageProperties -----------------------
(***************************************************************************)
(* What the storage and the supervisor together promise the SD card.       *)
(***************************************************************************)
EXTENDS SdDiskStorage

SdTypeOK ==
  /\ TypeOK
  /\ card \in Card /\ moves \in Nat
  /\ subscribed \in BOOLEAN /\ inbox \in Seq(Callback) /\ asked \in Nat
  /\ handle \in BOOLEAN
  /\ frames \in Seq(Line) /\ line \in Line \cup {"none"}

-------------------------------------------------------------------------------
\* Safety

\* Does dockerd run with its data root on the card?
UsesCard == proc = "alive" /\ settings["SDCardSupport"]

\* When the service unmounts the card, no file on it is open: dockerd does not run on
\* it and the application has neither a handle nor, while it still listens, the area,
\* whatever setup, event or restart was under way (sd_disk_storage.h: unmounting fails
\* otherwise).
UnmountFindsCardUnused ==
  [][card = "exiting" /\ card' = "absent" =>
       ~UsesCard /\ ~handle /\ (subscribed => ~sdArea)]_svars

\* The application lets go of the card's handle only when dockerd does not use it.
ReleasedAfterUse == [][handle /\ ~handle' => ~UsesCard']_svars

-------------------------------------------------------------------------------
\* Liveness

\* A card that stays writable is announced to the supervisor and stays so, unless
\* the application ends.
CardBecomesKnown ==
  <>[](card = "writable" /\ subscribed) => <>[]sdArea

-------------------------------------------------------------------------------
\* The invariants behind the safety properties

\* A storage callback is at one of its lines only while the main loop dispatches it.
CallbackRuns == line # "none" => InStorageCallback

\* The callbacks that wait in stop_dockerd() are the stops on the stack, but for the
\* one of main().
OwnStop == IF pc = "stopping" THEN 1 ELSE 0
Nesting == Len(stops) - OwnStop = Len(frames)

\* Without a subscription there is nothing to come, to release or to leave.
NotSubscribed ==
  ~subscribed =>
    /\ inbox = <<>> /\ asked = 0 /\ ~handle
    /\ frames = <<>> /\ line = "none"
    /\ ~sdArea \/ pc \in Ending

\* release() is reached only after sd_card_callback(NULL) has returned.
ReleaseComesLast == line = "release" => ~sdArea

\* The news that the card is exiting is behind every handle that is still queued...
EventIsQueued ==
  \E i \in DOMAIN inbox :
    /\ inbox[i] \in {"event", "event_error"}
    /\ \A j \in DOMAIN inbox : j > i => inbox[j] # "handle"

\* ... or has been taken up: no handle is to come, and subscribe_cb() is on its way to
\* release() or everything is released.
NoHandle == \A j \in DOMAIN inbox : inbox[j] # "handle"
LettingGo ==
  \/ line \in {"exiting", "release"}
  \/ \E i \in DOMAIN frames : frames[i] \in {"exiting", "release"}
  \/ ~sdArea /\ ~handle
EventIsTakenUp == NoHandle /\ LettingGo

ExitIsAnnounced == card = "exiting" /\ subscribed => EventIsQueued \/ EventIsTakenUp

\* The storage callbacks that wait in stop_dockerd() and the stops on the main thread's
\* stack agree, however they nest; nothing is queued, asked for or kept without a
\* subscription; a handle is released only after its area has been withdrawn
\* (sd_card_callback(), setup_cb() and subscribe_cb()).
StorageControl ==
  CallbackRuns /\ Nesting /\ NotSubscribed /\ ReleaseComesLast

===============================================================================
