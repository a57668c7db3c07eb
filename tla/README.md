# A TLA+ model of the Docker ACAP supervisor

This directory holds TLA+ specifications of the program under `app/`: the application that starts
`dockerd` (through `rootlesskit`) on an Axis device, keeps it running, restarts it when its settings
change, stops it before the SD card is unmounted, and accepts TLS certificates over HTTP. TLC checks
the specifications on small instances; TLAPS proves every safety property of the runs that pass,
for all values of the constants that meet stated assumptions.

## The system

| Component | State | Operations | Interacts with |
| --- | --- | --- | --- |
| Restart loop (`main()`, `dockerdwrapper.c`) | `application_exit_code`, `rootlesskit_pid`, `allow_dockerd_to_start_atomic` | initialise, start, run the loop, stop, tear down | everything below, through one `GMainLoop` |
| Settings (`read_settings()`) | `struct settings`, the parameters, the certificates in `localdata` | read and verify one by one, wait up to 5 s for the SD card, report a `Status` | parameter server, `tls.c`, SD card callback |
| dockerd process | `rootlesskit_pid`, wait status, `time_since_sigterm` | spawn, SIGTERM, monitor, SIGKILL, child watch | GLib, kernel |
| Parameter callbacks, signals | queued callbacks, 1 s timers | permit a start and arm a timer; quit the program | parameter server, main loop |
| SD card callback | `sd_card_area` | stop dockerd, record the area, quit the loop | `sd_disk_storage.c` |
| SD card storage (`sd_disk_storage.c`) | subscription, handle | subscribe, set up asynchronously, release | axstorage, SD card callback |
| HTTP requests (`http_request.c`, `tls.c`) | files in `localdata`, temporary file | POST (store, permit, quit the loop), DELETE | main thread, from another thread |
| FCGI server (`fcgi_server.c`) | socket, thread | start, accept, shut down, join | HTTP requests |
| Multipart upload (`fcgi_write_file_from_stream.c`) | buffer, boundary | copy the payload to a file | HTTP requests |
| Logging (`log.c`) | `debug_log_enabled` | set the level | restart loop |

What is hard about this program is the main loop. There is one `GMainLoop`, and `g_main_loop_run()` is
called in four situations: by `main()`, by the wait for the SD card in `read_settings()`, by
`stop_dockerd()` called from `main()`, and by `stop_dockerd()` called from `sd_card_callback()`, which
is itself a callback of one of the others. `g_main_loop_quit()` is called by ten, one of them on
another thread. A quit does not say whom it is for. The properties of each component:

- *Restart loop*: one dockerd at a time; no start that is forbidden; no exit over a running dockerd;
  every termination signal ends the application.
- *Settings*: the reason that `Status` gives for dockerd's not running is the present one; dockerd ends
  up with the last values that were written.
- *dockerd process*: dockerd is told to end only by a stop that then waits for its end, and each stop
  ends, also when dockerd ignores SIGTERM; each end is noticed; an error forbids the next start until the
  operator acts; `Status` is `RUNNING` when dockerd is.
- *Parameter callbacks*: each announced change is followed by an attempt to start dockerd.
- *SD card callback*: it returns only when dockerd does not use the card any more.
- *SD card storage*: when the card is unmounted, the application has no handle and no file on it open,
  whatever setups, events and stops were under way; a card that stays becomes known.
- *HTTP requests*: a certificate that is there has valid contents and is never seen half-written; 204 is
  answered if and only if all of the request has been done; nothing stays in `/tmp`; each successful
  upload is followed by an attempt to start dockerd.
- *FCGI server*: each request is answered; `main()` can always join the thread, and does so before it
  returns.
- *Multipart upload*: what is accepted is stored as it was sent; every well-formed upload is accepted; a
  request with a header keeps the function within its buffer.

## Modules

| Module | What it is |
| --- | --- |
| `Supervisor` | The program: `dockerdwrapper.c`, with the parts of `tls.c`, `http_request.c` and `sd_disk_storage.c` that act on it |
| `SupervisorProperties` | Types, safety and liveness properties, the inductive invariant, the refinement mapping |
| `DockerdLifecycle` | Abstract specification: what the supervisor promises about dockerd, without loops, settings and timers |
| `SdDiskStorage`, `SdDiskStorageProperties` | `sd_disk_storage.c` and the storage service, composed with `Supervisor` |
| `FcgiServer`, `FcgiServerProperties` | `fcgi_server.c` and `http_request.c` with the format check of `tls.c`, composed with `Supervisor` |
| `CertificateStore` | Abstract specification: what the HTTP interface promises about the files in `localdata` |
| `MultipartUpload`, `MultipartUploadProperties` | `fcgi_write_file_from_stream.c` |
| `MC*` and the `.cfg` files | Small instances for TLC |
| `Supervisor_proofs`, `SupervisorStatus_proofs` | Theorems about the supervisor and their proofs; the second is about what it has come to when it waits |
| `SdDiskStorage_proofs`, `FcgiServer_proofs` | The same for the two compositions |
| `MultipartUpload_proofs`, `MultipartForms_proofs` | The same for the upload; the second is about which uploads are accepted |

`Supervisor` is open towards the two components that run beside it: a storage callback may call
`sd_card_callback()` with an area or `NULL` as it likes, and the FCGI thread may store and delete files
and call `restart_dockerd_after_file_upload()` as it likes. `SdDiskStorage` and `FcgiServer` extend it.
Each has a next-state relation of its own, in which these steps are taken only together with the line of
code that takes them, and each implements `Supervisor`'s specification (`Composition`, `FcgiComposition`),
so that what is proved of `Supervisor` holds of both.

Definitions whose names end in `_Bug` are not part of the model. Each is what a plausible mistake
would make of the definition after it; put in its place, it violates the property that
`PROJECT.json` names.

### How `Supervisor` corresponds to the code

`pc` is the control point of the main thread. Its values up to `spawn` are the points of
`read_settings()` and `start_dockerd()` between which another thread, the parameter server or the
storage service may act; `looping`, `waiting` and `stopping` say which function on the main thread's
stack has called `g_main_loop_run()`. Calls of `stop_dockerd()` nest: `stops` is the stack of their
`time_since_sigterm`, and its first element belongs to `main()` if `pc = "stopping"`, the others to
storage callbacks.

GLib is modelled as its documentation and source have it, since most properties depend on it:

- `g_main_loop_run()` sets `is_running`, which forgets every earlier quit, and the loops on the stack
  share the flag (`main_loop_run`, `LoopIsOver`).
- An iteration collects ready sources and dispatches them all before it looks at the flag again
  (`Iterate`, `batch`); a nested run discards what the outer iteration had not dispatched yet, to be
  collected again. The order and the choice are free, since priorities, poll times and the arrival of
  events decide them.
- The callbacks of the storage service are delivered by sources of their own, so that one may be
  dispatched by a loop that another has entered.
- `GlibReap` collects the wait status of an ended child. `is_process_alive()` may do that first; GLib
  then has no status and reports the end as a clean one (`is_process_alive_Reap`).
- A signal handler is removed when it has run (`G_SOURCE_REMOVE`); a second signal of the same kind
  then takes its default action, which is not modelled (`Budget["signal"] <= 1`).

The FCGI thread serves one request at a time (`req`). Storing a file, permitting a start and quitting
the loop are separate steps. The environment changes parameters (`ChangeParam`: the value is stored
first, the callback is queued), inserts and removes the card, uploads and deletes files, sends a
signal, ends dockerd, makes calls fail and cuts the power. A name ending in `Fails` or `Crashes` is the
error path of the action it is named after. Time is not modelled: a timer may expire whenever it is
armed, except that `monitor_dockerd_termination()` counts its calls. The spawn and the writing of
`RUNNING` (lines 607 and 624) are one step, since nothing else writes `Status` between them:
`StatusTracksDockerd` does not speak of that short window, in which dockerd exists and `Status` still has
its old value.

Data are abstracted to what the properties distinguish: a Boolean parameter or log level is `TRUE` for
`yes` or `debug`; an area of the SD card is there or not; a stored certificate has passed the check of
its format. `settings` keeps what dockerd was started with, which the code forgets, and two history
variables serve the properties: `pendingChange` (an announced change or upload not yet followed by an
attempt) and `reported` (this run of the application has written `Status`). `exitCause`, `waitStatus`
and `sig` are set back when a new attempt begins.

### How `SdDiskStorage` corresponds to the code

`card` is what the service knows of the card, `inbox` the queue of callbacks in the main context, `asked`
the calls of `ax_storage_setup_async()` that have not been answered, `handle` whether `storage->handle`
is set. `line` is the point at which the running `subscribe_cb()` or `setup_cb()` is: before the check
of EXITING, before `release()`, before the check of WRITABLE, or at its end. A call of
`sd_card_callback()` that blocks in `stop_dockerd()` puts the line to go on with on the stack `frames`;
the loop it runs may dispatch the next callback of the queue. The status of the card is read at each
check, not when the event is queued.

Of the storage service, which is not in the repository, it is assumed that it queues its callbacks in
order, that WRITABLE is not reported while EXITING is, that a setup succeeds only while the card is
WRITABLE, and that the card is unmounted only when the queued calls of `subscribe_cb()` have had their
chance to let go of it. A card that is torn out without being announced is not modelled.

### How `FcgiServer` corresponds to the code

`line` is the point at which the FCGI thread is, `socket` what has become of `g_socket`, `backlog` the
connections not yet accepted. One action is one call of `http_request.c` that another thread, the main
thread's `tls_missing_certs()` or a client could tell from its neighbours. `copy_to_localdata()` takes two
steps for a file that is missing, for `g_file_copy()` creates it in place, and one for a file that is
there, which it writes beside and renames. `answer` is what has been written to the output stream; the
client has it at `FCGX_Finish_r()`.

Assumed are a web server that passes on only requests for the three names of `manifest.json` (or ones
without a slash, which `malformed_request` answers) and that does not withhold the rest of a request for
ever, and a kernel that may still hand over connections of the backlog after `shutdown()`.

### How `MultipartUpload` corresponds to the code

One action for each part of the body of the loop: fill the buffer, find the end of the header, find the
closing boundary, one call of `write()`, keep the last `boundary_len` bytes. Pointers are offsets in
`buffer`, which holds only the bytes that have been read. `FCGX_GetStr()` returns fewer bytes than asked
for only at the end of the stream. Where the code reads memory that has not been written, `outcome` is
`undefined`; where it follows an invalid pointer, `crash`. One such read has only one outcome, so it is
modelled: a boundary at the beginning of the buffer is compared with the four bytes before it, which are
taken not to be `\r\n--`. The length of the boundary is not bounded: one that is as long as the buffer
makes `strstr()` start outside of it, which is `undefined` too.

## Model checking

`tlc -config X.cfg M` checks a run, with the module `M` of the table. All bounds are in the `.cfg` files
and `MC` modules: `Budget` says how often each outside event happens, `TimeToSigkill` is lowered from 13
to 1 or 2 (what matters is that SIGKILL comes after some calls of the monitor that it does not precede),
`InitParams`, `InitCerts` and `InitFiles` choose the initial values, `MaxStops` bounds the nested stops (9
where the composed storage bounds them itself), `MaxMoves`, `MaxRequests` and `MaxShort` the card, the
clients and `write()`. Each run gives a budget to the events whose interleavings its properties are about;
two changes, three moves of the card, two ends of dockerd and two requests are enough for a second event
to arrive in every phase of the handling of the first. No symmetry is used. Deadlock is not checked: the
application may end, and it waits forever when the budget is spent.

### Runs that pass

| Run | Module | Events | Shows |
| --- | --- | --- | --- |
| `settings` | `MCSupervisor` | 2 parameter changes, 1 signal; a certificate is missing | `IdleStatusTruth`, `IdleIsUpToDate`, `StopReturns`, `SignalExits`, `ChangeIsTried`, `AppliesChanges` |
| `dockerd_exits` | `MCSupervisor` | 2 ends of dockerd of any kind, 1 change, 1 upload, 1 signal | `SignalledIsWatched`, `StopsBeforeExit`, `ReportedErrorWaitsForOperator`, `EndIsNoticed`, `SignalExits` |
| `failures` | `MCSupervisor` | each call that can fail, once; power loss; 2 nested stops; with compose | `SignalledIsWatched`, `IpcSocketIsShared`, `ImplementsLifecycle` |
| `sd_card` | `MCSdDiskStorage` | 3 moves of the card, its unmounting, 1 end of dockerd | `UnmountFindsCardUnused`, `ReleasedAfterUse`, `CardBecomesKnown`, `DataRootOnMountedCard`, `StatusTracksDockerd`, `IdleStatusTruth`, `StopReturns` |
| `storage_faults` | `MCSdDiskStorage` | 2 moves; every call of the storage library may always fail, those of the supervisor once; power loss | `StorageControl`, `StatusTracksDockerd` |
| `fcgi` | `MCFcgiServer` | 2 of 6 kinds of request, 1 signal; transfers, copies and removals fail; power loss | `ImplementsStore`, `ThreadEndsFirst`, `LeavesNoTempFile`, `RequestsAreServed`, `ServerStops` |
| `multipart` | `MCMultipartUpload` | some 180 requests, each with every way in which `write()` is short once for a buffer | `StoredAsSent`, `OverrunsOnlyWithoutHeader`, `AcceptsUnlessSplit`, `Terminates`, `Advances` |

`dockerd_exits`, `sd_card`, `fcgi` and `multipart` check the type invariants too.

A property that passes in one run may be violated in another, where the code lets the hazard through:
`IdleStatusTruth` holds for parameter changes and for the coming and going of the card, and fails for
uploads. The passing run then shows how far the promise goes. `multipart` lowers the buffer from 2048
bytes to 16 and the boundary to two; its requests spread over up to four buffers, so that the closing
boundary lies at each of the 14 offsets by which the buffers advance.

### Runs that show a disagreement

Each of these checks one property that a document or comment of the repository states, and TLC finds
it violated by what the code does.

| Run | Property | What happens |
| --- | --- | --- |
| `lost_upload` | `IdleStatusTruth` | The missing certificate is uploaded after `tls_missing_certs()` and before `main_loop_run()`: the quit is forgotten, `Status` stays `TLS CERT MISSING` |
| `lost_change` | `ChangeIsTried` | dockerd fails within the second that a change is delayed: the permission is withdrawn again, and the restart that `README.md:169` announces does not follow |
| `sd_deselected` | `DataRootOnMountedCard` | The card is removed within a second of its deselection: the callback does not stop dockerd |
| `stale_settings` | `AppliesChanges` | A change during the wait for the SD card ends the wait; dockerd runs with the values read before |
| `boundary_split` | `AcceptsEveryForm` | The closing boundary is the first thing in a buffer, and the `\r\n--` before it has been written out with the previous one: the upload is rejected |

### Further behaviours

These are in the models too, and no run is devoted to them.

Of the main loop:

- SIGTERM during the wait for the SD card ends only that wait, as a parameter change does in
  `stale_settings`: the application goes on until something else quits the loop of `main()`.
- `quit_program()` called by `read_settings()` when `chmod()` fails is forgotten by the `main_loop_run()`
  that follows (`read_settings_ShareIPCFails`): the application does not end.
- When `waitpid()` in `is_process_alive()` collects the error code of dockerd, GLib reports a clean end:
  `Status` is `DOCKERD STOPPED` and dockerd is restarted without the operator.
  `ReportedErrorWaitsForOperator` is about the errors that GLib reports.
- A comment says that the 20th call of `monitor_dockerd_termination()` sends SIGTERM again; the code sends
  SIGKILL, from the 13th on.
- A change of `ApplicationLogLevel` dispatched during the wait for the SD card is not taken over: `main()`
  reads the level only after its own loop.

Of `Status`:

- A failing spawn sets `Status` to `NOT STARTED`, as the comment of `start_dockerd()` says, while the
  README of the application says that the application is not started then.
- After a runtime error, removing the card overwrites `Status` with `NO SD CARD`; its return does not
  correct it, since dockerd is not allowed to start.
- When the initialisation fails after a power loss, `Status` is still `RUNNING`.

Of the SD card:

- With `CardMoves <- InOutAndStays` in `sd_card.cfg`, a card that is announced as leaving and stays after
  all may not become known (`CardBecomesKnown`): the callback that announces its area is dispatched by the
  loop in which `sd_card_callback(NULL)` waits, and when that returns it overwrites the area with `NULL`.
- When `SDCardSupport` cannot be read while the card is leaving, the callback takes it for unused, and
  dockerd runs on with its data on the card. The theorems about the card exclude that.

Of requests and uploads:

- A copy to a new file that fails half-way leaves the file, which `tls_missing_certs()` then takes for a
  certificate (`CertificateStore!GiveUp`).
- When the process crashes in `build_daemon_args()` during an upload, the file in `/tmp` stays. It crashes
  there when `ApplicationLogLevel` cannot be read, and when `gethostbyname()` returns `NULL`, which is not
  checked before its `h_addr_list` is read (`resolve_failure`).
- Any failure of `FCGX_Accept_r()` ends the thread, and with it the HTTP interface, without the application
  noticing (`"accept"` in `FcgiFaults`, which violates `RequestsAreServed`).
- `written` is the length of the last `write()`, not the sum: with two short writes for a buffer the third
  call repeats or skips bytes (`MaxShort = 2` in `multipart.cfg` violates `StoredAsSent`).
- A request without a content type makes `strncmp()` read `NULL`; a header that does not end within the
  first buffer makes `p_payload` `NULL + 4`; one that ends within its last `boundary_len` bytes makes the
  next buffer begin with memory that has not been written; a boundary of 2048 bytes or more, or a first
  buffer that holds no more than the boundary, makes `strstr()` start where nothing has been read.
  `OverrunsOnlyWithoutHeader` says that there is no further case.

### Fairness

`FairSpec` assumes what the platform provides and no more: both threads go on running (weak fairness of
`MainThread` and `FcgiThread`); a source that is ready again and again is dispatched (strong fairness
per source, since other sources may come first and nested loops start the collection over); GLib
collects the status of an ended child; a killed process ends. Nothing makes dockerd obey SIGTERM, and
no outside event has to happen. `WF_vars(MainThread)` does not make the calls that may fail succeed:
failing is limited by the budget, and liveness properties are checked where the budget of the failures
is zero, except in `fcgi` and `multipart`, whose properties hold with them.

`SdFairness` is the same for the composition, and adds that the service answers each setup and at last
unmounts a card that it has announced as leaving. Nothing makes a card move. `FcgiFairness` is weak
fairness of the two threads alone: `main()` must be able to join the FCGI thread whatever the sources do.
`MultipartUpload` is sequential; its `WF_vars(Next)` says that the function goes on.

## Proofs

`tlapm M.tla` checks each of the six proof modules from nothing, in a minute or two each. The theorems hold
for all values of the constants that satisfy the assumptions of the module (`ConstantsAssumption`,
`StorageAssumption`, `FcgiAssumption`, `UploadAssumption`: their types, distinct contents, a budget that
covers the requests) and the assumptions named below.

`Supervisor_proofs`:

- `TypeCorrect`: `TypeOK` is inductive.
- `ControlCorrect`: `Control` is an invariant. `StopsBeforeExit` and `StatusTracksDockerd` are not
  inductive: that no dockerd exists when one is started (`StartsAlone`) depends on no stop being on the
  stack then (`CallStack`), that there is none when a stop returns depends on what its counter says
  (`EndedStops`), and that the child callback clears `rootlesskit_pid` of the right dockerd depends on
  when the child watch was collected (`ChildWatch`). `DeadAtTop` carries what a stop established over to
  the next round of the loop, and `UploadsEnd` says that no request is in progress once the thread has
  been joined. `Control` is their conjunction. `ExitsAfterDockerd` and `StatusFollowsDockerd` follow.
- `StopsAreWatched`: `SignalledIsWatched`, from the invariant `Signalled`, that dockerd has been signalled
  exactly if a stop is on the stack, and `EndedStops` of `Control`, which says that the monitor of a stop is
  over only when dockerd has ended.
- `ErrorsWait`: the action property `ReportedErrorWaitsForOperator`, from the invariant `ErrorForbids`.
- `IpcSocketStaysShared`: `IpcSocketIsShared`, from `IpcPrepared` and `Control`.
- `CardHoldsDataRoot`: `DataRootOnMountedCard`, from `RootPrepared`, assuming `SdCardIsDecided`: the
  operator does not change `SDCardSupport`, and it can be read. Without either the property is false (see
  `sd_deselected` and "Further behaviours").
- `Implementation`: `Spec => ImplementsLifecycle`. Initial states map to initial states
  (`InitialRefines`); each step maps to a step of `DockerdLifecycle` or to a stutter (`StepRefines`),
  where `Control` shows that a start meets the guard of the abstract one.

`SupervisorStatus_proofs` is about a supervisor that waits in the loop of `main()` with no event due. Its two
theorems hold for the events that their assumptions leave, for others the code violates them; the
assumptions are about constants only, and each part of the invariants has a lemma of its own:

- `StatusIsTrueWhenIdle`: `IdleStatusTruth`, assuming `AttemptsReport`: nothing is uploaded (see
  `lost_upload`), no attempt fails in a way that writes no `Status` or a general one, and on a product
  with a card slot dockerd does not end with an error (both: see "Further behaviours"). `IdleStatusTruth`
  is about the moments when nothing is due; the invariant `StatusInv` is about all: when `main()` has made
  up its mind (`Settled`), `Status` is the present reason or a change of a parameter is on its way
  (`StatusExplained`), and what `read_settings()` has read so far is present or a change is on its way
  (`TcpIsPresent`).
- `SettingsAreAppliedWhenIdle`: `IdleIsUpToDate`, that a dockerd that runs then was started with the
  present values, assuming `NeverWaitsForCard`: no start follows a wait for the SD card (see
  `stale_settings`), and the parameters can be read. The invariant `SettingsInv` says at each point of
  `read_settings()` which values are present (`ReadSoFar`), unless a change is on its way.

`SdDiskStorage_proofs`:

- `Composition`: `SdSpec => Spec`; `CardHoldsDataRootInStorage` is `CardHoldsDataRoot` carried over by it.
- `SdTypeCorrect`, and `StorageControlCorrect`: the storage callbacks that wait and the stops of the
  supervisor correspond (`Nesting`), nothing is left of a storage without a subscription
  (`NotSubscribed`), `release()` is reached only when the area has been withdrawn (`ReleaseComesLast`).
- `UnmountIsSafe`: `UnmountFindsCardUnused`, from `ExitIsAnnounced`: while a card is leaving, the event that
  says so is still queued behind every handle, or has been taken up and `release()` is on its way or done.
  That needs `SdCardIsDecided` and that the status of the card can be read (`"status" \notin Faults`).
- `ReleaseIsSafe`: `ReleasedAfterUse`, assuming `SdCardIsDecided` only.
- `StatusIsTrueInStorage` is `StatusIsTrueWhenIdle` carried over by `Composition`.

`FcgiServer_proofs`:

- One inductive invariant of the thread (`RequestProgress`: where the supervisor takes the request to be;
  `RequestIsServed`, `AnswerIsGiven`: what each line may rely on; `CertsAreFiles`; `CrashEnds`) gives
  `FcgiComposition`, `FcgiTypeCorrect`, `ThreadIsJoined`, `TempFilesAreRemoved` and `SupervisorSeesFiles`.
- `StoreImplementation`: `FcgiSpec => ImplementsStore`. Each line of the handler is a step of
  `CertificateStore` or a stutter; that an answer 204 is given only for what is complete needs
  `AnswerIsGiven`.

`MultipartUpload_proofs`:

- `UploadTypeCorrect`: `UploadTypeOK`, together with `Offsets`, for any size of the buffer and any boundary:
  what `FCGX_GetStr()` reads fits the buffer, and `write()` is given only bytes of it that have been read. It
  does not say that the function stays within the buffer: where it does not, the model ends with the
  outcome `crash` or `undefined`.
- `HeadersKeepWithin`: `OverrunsOnlyWithoutHeader`, for any size of the buffer, any boundary and any
  `MaxShort`: these outcomes need a request without a content type, or one whose header does not end where
  the first buffer has room for it. The comparison with the four bytes before the buffer (line 100) is
  excepted, see "How `MultipartUpload` corresponds to the code". The invariant `HeaderInv` says that each
  buffer is full unless the stream has ended (`ReadsOn`), and that the payload begins, and writing ends,
  before the bytes that are kept (`Within`).
- `AcceptedIsAsSent`: `StoredAsSent`, assuming `MaxShort <= 1`. The invariant `Sent` says that the buffer is
  a window of the body (`Window`) and that the file ends where the payload in the window begins
  (`BeforeWriting`), or where what is still to be written begins (`WhileWriting`); the latter allows for a
  delimiter that overlaps the end of the header, in which case nothing has been stored.
- `StepsAreFinite`: `Advances`, for every `MaxShort`. `Rank` counts the runs of the loop that the unread bytes
  allow for, and the steps that are left of the present one; each step lowers it, and it is a natural
  number. The reason is that there is always room in the buffer when it is filled (`Room`), so that a call of
  `FCGX_GetStr()` that yields nothing has met the end of the stream. This is `Terminates` without the
  assumption that the function goes on.

`MultipartForms_proofs`:

- `FormsAreAccepted`: `AcceptsUnlessSplit`, assuming `MaxShort <= 1` as `AcceptedIsAsSent` does. Every buffer
  but the first begins at a multiple of `Stride`, the length of a buffer less that of the boundary, and not
  behind the end of the file (`InStep`). So the closing boundary lies in one buffer as a whole, not before
  that buffer's turn, and it lies at the buffer's beginning exactly if the remainder of its offset by
  `Stride` says so (`IsSplit`). `CopyInv` says that up to there the file has been copied as it is
  (`Copies`): nothing in it has been taken for a boundary, and no buffer that is not full has been
  taken for the last.

Only model-checked are the properties that need fairness, which is beyond the prover: `StopReturns`,
`SignalExits`, `ChangeIsTried`, `AppliesChanges`, `EndIsNoticed`, `CardBecomesKnown`, `RequestsAreServed`,
`ServerStops` and `Terminates`. `IdleIsUpToDate` and `Advances` are what can be proved of `AppliesChanges` and
`Terminates`. Every other property of a passing run is stated by a theorem.

## Not modelled

- `ax_parameter_set()` always succeeds and `prevent_others_from_using_our_ipc_socket()` too; the code
  ignores their failures. The failure of `ax_storage_release_async()` is only logged.
- Every event of a WRITABLE card asks for another setup, and `setup_cb()` overwrites the handle it has. The
  model has one Boolean for the handle: whether the library counts setups of the same disk cannot be told
  from this code.
- Command lines, paths and the 1024 bytes they are put together in: what is cut off depends on the length
  of the area's path, which the device chooses.
- Log texts (`log.c`, of which only `debug_log_enabled` has an effect on the rest), the page under `html/`,
  build and packaging files.
- A second signal of the same kind, and signals before `init_signals()`.
- `kill()` of a process that has been reaped: the monitor may send SIGKILL to a process id that GLib has
  already collected; the model sends signals to nobody then.

## Plan

What could still be added, in this order:

1. What can be proved of `CardBecomesKnown`: when no callback of the storage is due or under way, a card that
   is there is known, unless it was announced as leaving and stayed.
2. An abstract specification of the upload (a file that grows along the body), which `MultipartUpload`
   implements.
3. Failing `ax_parameter_set()`: `StatusTracksDockerd` weakened to what is then still true.
4. The two compositions in one module, with uploads during nested stops. Each refines `Supervisor`, which
   allows both at once, so that the proofs cover this already; liveness would gain.
