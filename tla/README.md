# Verification of edgehog-device-runtime

TLA+ models of the core of the Edgehog Device Runtime, TLC configurations that
check them on small instances, and proofs, checked by TLAPS, of what must hold
for every instance. Paths are relative to the repository.

| Module | Models | Lines of code in |
|---|---|---|
| `Rauc` | RAUC and the bootloader of a two-slot device (external) | used by `ota/rauc.rs`, `ota/mod.rs` |
| `Ota` | handler, task and publisher of the over-the-air updates, the record on disk, the Reboot command | `src/src/ota/`, `repository/`, `power_management.rs`, `controller/mod.rs` |
| `OtaAttempt` | what the OTA component promises: the abstract life of an update | |
| `MCOta` | small instances of `Ota` | |
| `OtaProofs` | theorems about `Ota` | |
| `JobQueue` | the persistent job queue | `src/src/jobs/mod.rs` |
| `FileJobs` | receivers of file requests, FileTransfer, StorageTask, the file store and its properties | `src/src/file_transfer/`, `src/src/storage/`, `controller/actor.rs` |
| `MCFileJobs` | small instances of `FileJobs` | |
| `FileJobsProofs` | theorems about `FileJobs` | |
| `ContainerStore` | the tables of the containers in sqlite, one operator per transaction or query | `edgehog-device-runtime-containers/src/store/`, `edgehog-device-runtime-store/src/models/containers/` |
| `Deployments` | requests about containers, the service that works on them, its start, the listener of Docker events | `edgehog-device-runtime-containers/src/service/`, `resource/`, `events/` |
| `Ownership` | what the service promises of the containers in Docker | |
| `MCDeployments` | a small instance of `Deployments` | |
| `DeploymentsProofs` | theorems about `Deployments`: types and ownership | |
| `ServiceProofs` | what the service works on; what is freed before anything is started | |
| `PropertyProofs` | the properties of the containers | |
| `StartedProofs` | what the store says is started | |
| `Forwarder` | sessions, the connections manager and its connections | `src/src/forwarder.rs`, `edgehog-device-runtime-forwarder/src/` |
| `MCForwarder` | a small instance of `Forwarder` | |
| `ForwarderProofs` | theorems about `Forwarder` | |

To repeat the checks, in this directory:

    tlc -workers 2 -config MCOta.cfg MCOta        (and every other .cfg)
    tlapm OtaProofs.tla
    tlapm FileJobsProofs.tla
    tlapm ForwarderProofs.tla
    tlapm DeploymentsProofs.tla
    tlapm ServiceProofs.tla
    tlapm PropertyProofs.tla
    tlapm StartedProofs.tla

## The system

The runtime is one tokio process on a device. It receives Astarte events from a
server and serves them with tasks that exchange messages over bounded channels.

| Component | Source (`src/...`) | State | Operations |
|---|---|---|---|
| Controller | `src/controller/mod.rs`, `event.rs`, `src/main.rs` | the sending halves of all channels | receives an event, converts it, hands it to one component; an await on a full channel holds back every later event; the end of a required task ends the process |
| Actors | `src/controller/actor.rs` | a channel, or the queue and a `Notify` | `Actor::run` (init, then a message at a time), `Persisted::handle` (insert, then notify) |
| OTA handler | `src/ota/ota_handler.rs` | `current`, `OtaInProgress` (shared) | Update, Cancel; the controller asks it before a Reboot |
| OTA task | `src/ota/mod.rs`, `rauc.rs`, `src/repository/` | `ota_status`, `state.json`, `update.bin` | download, deploy, reboot, report after the reboot |
| Power management | `src/power_management.rs`, `commands.rs` | none | waits five seconds, runs `shutdown -r now` |
| Job queue | `src/jobs/`, `edgehog-device-runtime-store/` | table `job_queue` (status, schedule) | init, insert, insert if missing, next, next scheduled, update, delete |
| File transfer | `src/file_transfer/` | the queue, the file store, `.part` files, properties | start (partial files, properties), downloads, uploads |
| File storage | `src/storage/` | the queue, the file store, properties | requested deletions, scheduled clean-ups, sleep until the next one |
| Container requests, store | `edgehog-device-runtime-containers/src/service/events.rs`, `store/` | sqlite tables of images, networks, volumes, containers, deployments | the handle stores a request, then sends its event to the service |
| Container service | `edgehog-device-runtime-containers/src/service/`, `resource/` | event channel, docker, properties, the store | creates resources; starts, stops, deletes, updates deployments; restores them at start; refreshes them on docker events |
| Docker client, events, stats, local API | `edgehog-device-runtime-containers/`, `src/containers.rs` | none | conversions, reads |
| Forwarder sessions | `src/forwarder.rs` | sessions by key, their properties | connects a session, reconnects it with a back-off, cancels it |
| Forwarder connections | `edgehog-device-runtime-forwarder/` | connections by id, bounded channels | proxies HTTP and websocket connections over the websocket of a session |
| Telemetry | `src/telemetry/` | configuration, overrides and their file, one sender task per interface | enable, period, unset; periodic sends |
| Others | `src/led_behavior.rs`, `src/data/`, `edgehog-device-runtime-service/`, `edgehogctl/`, `e2e-*`, D-Bus services | none that outlives a call | thin wrappers of I/O, tools, generated code |

How they interact:

- *calls by message*: controller → OTA handler → OTA task → publisher, each over
  a bounded channel that the sender awaits; controller → telemetry, forwarder,
  containers likewise;
- *shared memory*: `OtaInProgress` is stored by handler and task, read by the
  controller;
- *shared store*: the receivers, FileTransfer and StorageTask meet in the job
  queue, the file store and the Astarte properties, and in two `Notify`;
- *callbacks from outside*: RAUC signals, docker events, timers.

What makes each correct, and is hard:

| Component | Must hold | Hard because |
|---|---|---|
| OTA | one update at a time; a cancel in time stops it; what is reported after a reboot is what happened; every update ends | handler and task store the same flag; crash or power loss at any await; RAUC goes on without the runtime; a signal may be missed |
| Controller | no event is held up for ever | chain of bounded channels |
| Job queue, files | an accepted request is answered, once; a finished download is whole; properties list the store | status, answer and deletion of a job are three awaits; two tasks change store and properties; a wake-up may be lost; a restart anywhere |
| Containers | what the store says is started runs, or the server is told; a deletion leaves what others use; the status survives a restart, and what is not to run is stopped first; a container's property agrees with Docker | docker, property and row change one after the other; shared resources; events stored by one task, worked on by another |
| Forwarder | connections end with their session; no channel waits on another in a circle | two bounded channels in opposite directions; reconnection |
| Telemetry | one sender per interface with the configured period; overrides survive a restart | old and new sender overlap; file written after the change |

`PROJECT.json` lists each hazard at its line, with the properties that watch it.

## Ota

Every action of `Ota` is the code of one task between two awaits; between any two
of them another task, a crash or a power loss may come.

| Code | Model |
|---|---|
| `OtaHandler::current`, `OtaInProgress` | `current`, `flag` |
| channel to the task, channel to the publisher | `otaQ` (`MaxOtaOperation`), `pubQ` (`PubCapacity`) |
| `CancellationToken` | a number: `issued` of them so far, those in `cancelled` |
| `Ota::ota_status`, the position in `handle_ota_update` | `status`, `tpc` |
| `state.json` | `stateFile`: `None`, `Torn`, or uuid and slot |
| `handle_update` | `RejectUpdate`, `AcceptUpdate`, `SendUpdate` |
| `handle_cancel` | `CancelUpdate`, `RejectCancel` |
| Reboot in `controller/mod.rs`, `power_management::reboot` | `RebootCommand`, `ExecuteReboot` |
| `Actor::init`, `Actor::handle` | `ActorInit`, `Receive` |
| `handle_ota_update` | `IsOtaInProgress` (stores the flag), `PublishStatus`, `CancelStep`, `LateCancel`, and the step of the status |
| `next`: acknowledge, download, deploy, reboot, report | `Advance`, `Download*`, `DeployBegins` … `ReceiveCompleted`, `PublishRebooting`, `Reboot`, `CheckReboot` |
| end of an update, `clear` | `PublishFinal`, `Clear` |
| `OtaPublisher` | `SendOtaEvent` |

Abstractions. Percentages and messages of a status, and the file `update.bin`,
are left out. A repeated Update of the update in progress, and a refused Reboot,
change nothing and are left out. A graceful shutdown is one `Crash`: it stops the
tasks at some await. File operations are durable when they return, and a crash
in the middle of a write leaves `Torn`. `Error` is only ever published, so it is
no status of the task. An attempt to download makes progress, fails, ends, or does
none of it for ever.

External assumptions (`Rauc`). RAUC invalidates the slot that is not booted,
writes it, and makes it the primary at the end; it goes on when the runtime
stops. `Completed` reaches only who is subscribed when it is emitted. The
bootloader boots the primary, and falls back to the other slot only from one
that was never marked good since it was written.

Cancellation. `handle_ota_update` gives the step of a cancellable status up with
`run_until_cancelled`, which refuses at the call when the token is cancelled already,
and from then on polls the step before the token. So a status that begins under a
cancelled token goes no further (`Polls`), an attempt to download that is under way
may still end before the cancel is seen (`DownloadEnds`, `DownloadError`), and one that
waits, for the server (`tpc = "download"`) or between two attempts (`"sleep"`), is given
up (`CancelStep`). When the cancel and the last answer come together the answer wins:
lines 822-828 then report a cancellation that failed, without the id of the update, and the update is
deployed. No text of the repository says who should win. `CancelStopsUpdate` is therefore
about the updates cancelled in time (`doomed`): while the update waits in the channel,
before the download begins, or between two attempts.

`OtaAttempt` says what an observer of the server and the disk may see: an update
is accepted, is installed or fails or is cancelled; a restart forgets it or finds
the record, which ends in success or failure; success only after installation.
`ImplementsAttempt` is the refinement, with `PhaseBar` and `ActiveBar` computed
from the task's position, its status and the record.

| Run | Shows |
|---|---|
| `ota` | type, safety and refinement, for two updates, capacities 1, two attempts, and any two of crash, power loss and failed removal (1,037,090 states) |
| `ota_live` | `UpdateEnds`, `HandlerReturns`, `RecordIsResolved`, under `FairSpec` (325,996 states) |
| `ota_one_update` | violated: the flag is cleared by the task while an accepted update waits in the channel, and another is accepted |
| `ota_no_reboot` | violated: the flag is read five seconds before the shutdown |
| `ota_cancel` | violated: a cancel of a finished update is not answered |

Bounds. A channel of capacity 1 is full with one message, so both the full and
the empty channel occur; two updates are what it takes for one to wait while the
other is worked on, and a third finds nothing a second does not. Two faults let
a crash hit the recovery from a crash. `CHECK_DEADLOCK FALSE`: when the bound on
requests is reached the device may have nothing left to do. Slots and updates
are interchangeable, hence the symmetry of the safety run; the liveness run has
none.

Fairness. tokio polls every task that can run (weak fairness of each task's
steps). Senders that wait for room in a channel are queued by tokio's semaphore
and served in turn, so neither handler nor task can be kept out for ever by the
other (strong fairness of the publishing steps). RAUC and D-Bus on the device
answer, installations end, and a shutdown that was started takes place. Nothing is
assumed of the server of the bundle: neither the client (`http.rs`,
`create_http_client`) nor `wget` has a timeout, so an attempt to download may last for
ever. Nothing makes an external reboot happen, and nobody owes the task a `Completed`
that was emitted before it subscribed. `Waiting` names these three cases, and the
liveness properties except them, only where the task waits *for ever*
(`[]Waiting`); they are recorded as hazards. A stalled download counts as one only as
long as the update is not cancelled: `UpdateEnds` says that a cancel ends it.

`CleanWhenIdle` excepts a removal of `state.json` that failed: the code only logs it,
and the record is found, and reported again, by the next start.

## FileJobs

`JobQueue` has one operator per transaction of `jobs/mod.rs`; `FileJobs` composes
it with the receivers and the two tasks.

| Code | Model |
|---|---|
| table `job_queue`, key (id, type, tag) | `jobs`, `Keys` |
| `Persisted::handle` | `Receive` (insert), `Notify` |
| the two `Notify` | `transferPermit`, `storagePermit` |
| `FileTransfer::run`: `storage.init`, `sync_stored_files` | `FtInit`, `FetchProps`, `ListStore`, `SyncFile`, `SyncUnset`, `SyncEnd` |
| `jobs` of FileTransfer | `NextTransfer`, `WaitTransfer` |
| `download_store`: `try_exists`, `create_write_handle`, `download_to_write_handle`, `finalize`, extraction, `Space::finalize`, property, `queue_cleanup` | `CheckExists`, `Open`, `Download`, `Finalize`, `Extract`, `Quota`, `Publish`, `QueueCleanUp` |
| uploads, downloads elsewhere | `Upload` |
| `job_done`, `job_error` | `UpdateTransfer`, `SendTransfer`, `DeleteTransfer` |
| StorageTask: `jobs`, `inner_delete`, answer | `NextDelete`, `RemoveStored`, `UnsetDeleted`, `UpdateDelete`, `SendDelete`, `DeleteDelete` |
| scheduled clean-ups | `NextCleanUp`, `CleanUp`, `UnsetCleaned`, `DeleteCleanUp` |
| `wait_next` | `CheckDeletes`, `CheckSchedule`, `WakeByPermit`, `WakeByTime` |
| `jobs.init` at start | `Restart` |

Abstractions. A timestamp is past or not (`Elapse` makes it past, at any time);
`created_at` has a resolution of one second and the order of jobs is left open.
An error of sqlite is left out, except where a request is inserted, which the
server is told of. A file in the store is absent, being extracted, damaged by a
removal that failed half way, or complete; an empty directory counts as damaged.
A download to a path or a pipe, and an upload, keep no shared state: one action
with any result. Invalid requests, progress events and HTTP ranges are left out.
A graceful stop is a `Restart`, and so is the error of a task that ends the
runtime (a property that cannot be set in `sync_stored_files`, an answer to a
deletion that cannot be sent). The removal of a `.part` file does not fail.

| Run | Shows |
|---|---|
| `files` | type and safety: no accepted request is lost, answered twice, or left in progress; a download of one file that is answered as done was not left half written; after the start every stored file is listed (4,366,973 states) |
| `files_live` | `EveryRequestAnswered`, `DueIsTaken`, under `FairSpec` (122,757 states) |
| `files_extracted` | violated: an archive whose extraction failed is taken for complete by the next request for it |
| `files_listed` | violated: a deletion between the end of a download and its property leaves a listed file that does not exist |

Bounds. One file, because files meet only in the queue: jobs of different kinds
for one id already have different keys, and the download, upload, deletion and
clean-up of one file are all in the queue together. Every encoding (plain,
compressed, archive), downloads with and without a time to live, three requests
(two that race and one that follows), one restart or lost message. The liveness
run has two requests, which suffice for a request to come between a task's last
look at the queue and its wait. `CHECK_DEADLOCK FALSE`: with no request left both
tasks wait.

Fairness. tokio polls every task that can run, the disk, the database and the Astarte
client answer, time passes. Nothing obliges the server to send, nor the runtime to
stop. Nor is a transfer owed an end: neither the HTTP clients nor the FIFOs that stream
to a local peer have a timeout, and a transfer that stalls holds up every later one
(`Transferring`). `EveryRequestAnswered` excepts, for uploads and downloads, a transfer
that never ends; a deletion is answered whatever the transfers do. A job that was finished and whose answer
was lost stays in the queue and nothing takes it again (`Stuck`);
`EveryRequestAnswered` excepts it too, and the hazards list both. `DoneIsWhole` is about
downloads of one file; of an archive that is taken for complete only the run
`files_extracted` speaks.

Modelled, and stated as no property because no text of the repository says what
should hold: a clean-up that fails keeps its job in progress until the next
start, when it may delete a file that was downloaded again; StorageTask does not
sleep while a finished deletion is in the queue; a file stays in the store when
the download fails because the disk is full.

## Deployments

The server describes images, volumes, networks, containers and deployments in
requests of their own, that may come in any order; then it commands deployments
to start, stop, update or go. `ContainerStore` has the tables and one operator per
transaction; `Deployments` composes it with the handle that stores requests, the
service that works on one event at a time, the listener, and Docker.

| Code | Model |
|---|---|
| rows of deployments, containers and resources, their status | `db.dep`, `db.cont`, `db.res` |
| `deployment_containers`, `deployment_missing_containers` | `db.rows`, `db.lacks` |
| `image_id` and `container_X`, `container_missing_X` | `db.links`, `db.missing` |
| the foreign keys with `ON DELETE CASCADE` | `WithoutContainers`, `DeleteResource`, `DeleteDeployment` |
| `create_*`, `update_deployment_status`, `deployment_update` | `CreateResource`, `CreateContainer`, `CreateDeployment`, `SetDeployment`, `UpdateDeployments` |
| `is_deployment_complete`, `find_deployment_for_delete`, `load_deployment_containers*` | `IsComplete`, `ContainersToDelete`, `ResourcesToDelete`, `InOrder`, `ContainersToStop` |
| `ServiceHandle::on_event`, `persist_request` | `ReceiveCreation`, `ReceiveCommand`, `ReceiveUpdate`, `SendEvent` |
| the channel to the service | `queue` (`Capacity`) |
| `initialize` | `phase`, `batch`: `NextPhase`, `TakeLoaded` |
| `handle_event` | `TakeEvent`, `Begin*` |
| what the service read from the store, and has still to do | `op`, `todo` |
| `publish`, `fetch` | `Publish`, `Fetch` |
| `up`: `fetch`, `create`, `start` | `Up`, `Create`, `Created`, `Start`, `Started` |
| `stop`, `down` | `StopLook`, `Down`, `Halt`, `Stopped`, `RemoveObject`, `Unset`, `Drop` |
| events of a deployment | `Report` |
| `?` in an operation; the restart of what a failed update stopped | `Fail`, `CallFails`, `RestartLook` |
| `RuntimeListener` | `Listen` |
| Docker, and a container that exits or is removed by hand | `docker`, `present`, `ChangeOutside` |

The service works from what it read when the operation began: `todo` is a list of
steps, each one call to Docker, or the property and the row that record a call.
Between two of them the handle may store any request, the runtime may crash, and
Docker may change.

Abstractions. Networks, device mappings and requests, file binds and env files
are stored, looked for and deleted as volumes are; the model has volumes. A request to
create what was created before is left out. Containers to stop in an update come by index in the model; the query has no order, and no
property depends on it. Local
ids of Docker objects, names, and the intermediate events (Starting, Stopping,
Updating ...) are left out. The property and the row of one result are one step,
except in a deletion, where a crash between them leaves a row without a property
(`Unset`, `Drop`). The first three phases of `initialize`, that publish what was
never published, are one phase for resources and one each for containers and
deployments. The Docker events of the service's own operations find what the
service has just written and are left out; the tries of a listener that lost its
stream are not counted. `errors` has the deployments of a request that was
answered with an error, both of them for an update. A failure of sqlite, Docker or
Astarte is one failure of the step (`CallFails`).

`Ownership` says what the server may rely on: a container comes to Docker only as
long as a deployment of the store has it, and keeps an owner until it is removed
from Docker, so that no crash, failure or sharing leaves one that no command
reaches. `ImplementsOwnership` maps the owners to the deployments whose row of the
container `find_deployment_for_delete` can join.

| Run | Shows |
|---|---|
| `deployments` | type; a started deployment runs once nothing is left to do (`StartedRuns`); what is not to run is stopped before anything is started again (`FreedBeforeStart`); the property of a container agrees with Docker (`PropertyIsTrue`); `ImplementsOwnership`; an update leaves alone what both deployments have (`UpdateKeepsShared`) (3,692,992 states) |
| `deployments_stopped` | violated: a Start stored before the deployment is published is overwritten with Stopped; the deployment runs, and the next start of the runtime stops it |

Bounds. Two deployments that share a container, one of them with a second
container that needs a volume: the shared container is at the same index in both,
so that it is shared for a deletion, the image is shared by both containers, and
the volume is not. The image (pulled always) and the shared container are known at
the start, as of an earlier run; all other requests come in every order. Two
commands give every pair (start and delete, update and stop, twice the same).
`Capacity` 1 makes the channel full at once. One mishap: a failed call, a crash, or a
container that exits or is removed by hand. Deadlock is checked: `Rest` is the one
step of a system that has nothing to do, and is possible only then.

The invariants except what the code does not promise. `StartedRuns` holds when
nothing failed, and excepts deployments that were answered with an error, containers
that another deployment names too, as the last command wins, and containers whose
image was not there all along. That last one is a limit of the code:
`is_deployment_complete` is documented to find no missing rows, and is content with one
complete container, and `join_resources` leaves out those without an image; a deployment
that is started before the image of its second container has come is started without
that container, which then waits for the next command or the next start of the
runtime. `PropertyIsTrue` is stated without crashes, as a container that was started
just before one is not looked at again unless its deployment is started or stopped by
the next start. `FreedBeforeStart` holds whatever fails; it says for what reason a
container that runs before the first start may still run.

## Forwarder

Three levels of tasks: the actor, one task per session, one task per connection.

| Code | Model |
|---|---|
| `Actor::init`: `unset_all`; `handle_sessions` | `phase`, `UnsetAll`, `RequestSession` |
| the task of a session: `handle_session`, `connect` | `pc`, `HandleSession`, `Finished` |
| `SessionState::send` and the property | `Report`, `prop` |
| the back-off of `connect` and `reconnect` | `BackOff` |
| `ConnectionsManager::event_loop`, `select_ws_event` | `ReceiveRequest`, `ReceiveFrame`, `SendToWs`, `StopServing`, `Disconnect` |
| `handle_ws`, `ConnectionHandle::send` | `TakeFrame`, `HandleFrame`; `waits` while there is no room |
| channel of all connections to their manager | `out` (`WsCapacity`) |
| channel of a WebSocket | `inq` of its connection (`ConCapacity`); only its length matters |
| `Connection::task`, `spawn_inner` | `Say`, `Answer`, `Build`, `Write`, `Read`, `End` |
| `remove_terminated` | `Over` |
| the exit of the runtime, that waits for no session | `Restart` |

Abstractions. A message is an id, and whether it answers a request. Pings, the url
and the TLS configuration are left out. The WebSocket to Edgehog either takes a
message or is lost; what is received is a request or a frame for some id.
The task of a session is "ending" from its last report until its handle says that
it is finished; meanwhile a request for the same session is ignored. Sessions
that differ in host, port or TLS may have the same token, and then they write the same
property.

| Run | Shows |
|---|---|
| `forwarder` | type and capacities; `UnsetWhenOver`, `ConnectedIsOpen`: the property follows the sessions of its token; `OwedIsUnderway`: every accepted request has one answer underway, that was neither dropped nor is sent twice; `RequestAnswered`, `CancelEnds` under fairness (332,402 states) |

`owed` and `stale` are history: how many answers a session owes to an id, and the
tokens of which the last report to Astarte failed, which nothing repeats.

An answer is what the service of a request, or the upgrade of a WebSocket, gives, or the
Bad Gateway in its place. A WebSocket that fails after it was upgraded sends one more
HTTP response with the id of its request, a Bad Gateway
(`connection/mod.rs:174`): the model counts it with the frames (`"other"`), as
something that comes after the answer, and `OwedIsUnderway` says nothing of it.

The manager waits in `handle_ws` for room in the channel of a connection; that
connection may be waiting for room in the channel to the manager. Then neither
goes on, and not even a cancellation ends the session, since that wait is not
cancelled (`connections_manager.rs:367`). The run reaches this state: it is `Stuck`,
excepted by both liveness properties, and the hazards list it.

The other waits without an end are for somebody outside, and each has a name.
`AwaitsEdgehog`: for the answer to an attempt to connect, which has no timeout, since
`max_elapsed_time` is looked at only between two attempts, and which ignores the
cancellation (`connections_manager.rs:144`); or for Edgehog to take a message
(`:280`), which a cancellation ends. `AwaitsService`: in `handle_ws`, for a local
service that does not read (`websocket.rs:201`) or does not accept the upgrade; the
cancellation is not looked at. `Unanswered`: of a connection, for the answer of its
service. The properties take them as premises, infinitely often not so.
`RequestAnswered` says that a request is answered if its own service answers and the
manager goes on: a service that does not answer holds up no other request.
`CancelEnds` says that a cancellation ends the session even if Edgehog does not take what
is sent and no service answers. Without any one of its premises each property is
violated.

Bounds. Two sessions of one token; a request of each kind; capacities of 1, so that
both channels are full with one message; three messages of Edgehog, which suffice
to reuse an id and to fill the channel of a WebSocket and wait; one frame of the
local service; one fault. `CHECK_DEADLOCK FALSE`: without an init that succeeded, or
with all messages of the bounds used, the server need not ask again.

Fairness. tokio polls the tasks of sessions and connections: weak fairness of the
steps of a session that do not wait for Edgehog, and of `Say`, the one step of a
connection that waits for nobody outside. `select!` chooses at random among what is
ready, so none of its branches is passed over for ever, and the bounds on what
Edgehog and the services send make their messages finite. The Astarte client takes a
report or fails. Nothing is assumed of Edgehog, of local services, of the
actor or of a reset.

`run_until_cancelled` lets an event that is there together with the cancellation be
taken once more. Nothing else depends on the token, so that the model has it as the event
taken before the cancellation.

## Proofs

| Theorem | Module | Property |
|---|---|---|
| `Invariance` | `OtaProofs`, `FileJobsProofs` | the inductive invariant `IInv` |
| `TypeCorrect` | `OtaProofs`, `FileJobsProofs`, `DeploymentsProofs`, `ForwarderProofs` | `TypeOK` |
| `NeverInconsistentThm`, `FlagCoversTaskThm`, `CurrentIsLiveThm`, `CancelStopsUpdateThm`, `RebootIsRecordedThm`, `SuccessIsInstalledThm`, `CleanWhenIdleThm` | `OtaProofs` | the safety invariants of `Ota` of the same names |
| `AttemptImplemented` | `OtaProofs` | `ImplementsAttempt` (a refinement) |
| `NoRequestLost` | `FileJobsProofs` | `OwedIsQueued` |
| `AtMostOneAnswer` | `FileJobsProofs` | `AnsweredOnce` |
| `InProgressHeld` | `FileJobsProofs` | `InProgressIsHeld` |
| `DownloadIsWhole` | `FileJobsProofs` | `DoneIsWhole` |
| `SyncComplete` | `FileJobsProofs` | `SyncListsAll` (an action property) |
| `OwnershipImplemented` | `DeploymentsProofs` | `ImplementsOwnership` (a refinement) |
| `Wellformed`, `OwnershipKept` | `DeploymentsProofs` | the two inductive invariants behind it |
| `SharedKept` | `ServiceProofs` | `UpdateKeepsShared` (an action property) |
| `FreedFirst` | `ServiceProofs` | `FreedBeforeStart` |
| `ServicedAlways`, `FreedAlways` | `ServiceProofs` | the inductive invariants behind them |
| `PropertyCorrect`, from `ToldAlways` | `PropertyProofs` | `PropertyIsTrue` |
| `StartedAlways`, from `RestoredAlways` | `StartedProofs` | `StartedRuns` |
| `SessionCorrect` | `ForwarderProofs` | the inductive invariant of the sessions |
| `UnsetWhenOverAlways`, `ConnectedIsOpenAlways`, `OwedIsUnderwayAlways` | `ForwarderProofs` | the safety invariants of `Forwarder` |

The assumptions are the named ASSUMEs of the modules: two distinct slots, state
files that cannot be mistaken for a torn or a missing one, at
least one place in each channel, at least one attempt, constants of the expected
sorts, a request to download a file that stores it under its own id, uuids that
name one deployment, container or resource, finitely many resources, one image
to a container, and a value for "no event" that is no event. The number of updates, requests, files, deployments, containers and
faults, what is shared between deployments, and the capacities are arbitrary.

`Ota`. The invariants are not inductive: that the flag covers the task depends on
where the task can be with which status. `IInv` is `TypeOK`, `Shape` (position and
status fit together), `FlagCoversTask`, `CurrentIsLast` (the update the handler
remembers is the last one in the channel, or else the task's, which works on it
while the flag is set), `CancelInTime` (an update cancelled in time is still in the
channel, or where the next poll gives it up, or over), `Recorded` (the record names the
update from before the installation until the reboot), `CleanWhenIdle`, `Anonymous`
(no update is named between two of them), and two parts that tie the record to the
slots. `Installed`: while the device runs from the recorded slot, only the recorded
update can be installing, and what it activates holds that update; it leaves the
slot by a boot, after which nothing installs, and a fall-back ends in the recorded
slot, which is still good. `Reported`: a success comes from a record that names
another slot. Together they give `SuccessIsInstalled`, through any number of
crashes, power losses and failed removals. Each part is preserved by each action,
given the parts before it; the theorems follow. The proofs need two slots and
channels with room, and no bound.

`OtaAttempt`. Under the mapping (`PhaseBar`, `ActiveBar`, `RecordedUuid`) most steps
change neither the status, nor the record, nor the side of the recovery and of the
installation the task is on, and stutter (`AttemptStutters`). `AttemptMoves`,
`AttemptDeploys` and `AttemptRecovers` name the step of `OtaAttempt` that each of the
others is. `Recorded` is what the step `Install` needs, `Anonymous` the steps `Accept`
and `Erase`.

`FileJobs`. `IInv` has the types; `QueueInv`, that ties the position of each task
to the row and the debt of its job (`TransferHolds`, `StorageHolds`), says that
only requests are owed an answer (`OwedKinds`) and every unfinished one is
(`UnfinishedIsOwed`), with `OwedIsQueued` and `InProgressIsHeld`; `WholeFromQuota`,
which is `DoneIsWhole` from the moment the file is stored; and `SyncInv`, that
follows `sync_stored_files`: while it runs files only disappear, so a stored file
that was listed keeps its property. The operations of the queue are lemmas
(`InsertFacts`, `SetStatusFacts`, `RemoveFacts`, `ResetFacts`, `ClaimFacts`) that
the steps cite. The proof that every unfinished request is owed an answer needs
that status, answer and deletion come in that order, which is the point of
`job_done`.

`Deployments`. `Wellformed` types the operation that is under way; the lists of steps
that `start_deployment`, `stop_deployment` and `delete_deployment` make are followed
from the sets they come from (`SetToSeqFacts`, `InOrderFacts`, `EachFacts`). That each
container in Docker has an owner (`Reachable`) is not inductive: `delete_deployment`
decides what is not shared when it begins, and deletes rows long after. `Kept` adds
what holds in between. `Deletes`: for every container in Docker, the steps to come
that would take its last owner away (the row of the container, of its image, of the
only deployment that has it) stand behind the step that removes the container
(`Guarded`). `Brings` and `OneWay`: an operation creates only what has an owner, and
none that deletes also creates. `GoesLast`: the deployment's own row goes last.
`RowsOK` and `LinksOK`: rows and links are among what the requests named, so that
the one image of a container is the one its owner joined. Requests that come
meanwhile only add rows (`Grows`), so that what is at risk shrinks (`RisksShrink`):
a deployment that is stored while another one that shares its containers is being
deleted loses nothing in Docker that it could not stop. `DeleteGuarded` is the
heart: the lists that `find_deployment_for_delete` returns are guarded when they
are made. `NextKept` then takes the actions one by one, each with the step of
`Ownership` it is.

`Deployments`, what the service works on. `Serviced` types an operation by its kind
(`Does`, `PhaseDoes`): which steps it may still have before it, about which sort of
object, in which phase of `initialize`. `Filed`: rows are of stored containers, and what
the server has not asked to create has none. `UpdateOK`: an update stops no container of
the deployment it goes to, which lacks nothing. The last is what `SharedKept` needs, and
it needs that a complete deployment gains no row (`RowsStay`), though the handle goes on
storing requests while the update is under way. `StoreStep` says what the tables may do
in a step: a creation, a status, or a deletion that the service is at.

`FreedFirst`. `Freed` follows `initialize` through its phases, one conjunct for each,
since the phases read the store at different times: no deployment is left that was never
published (`ReceivedOK`), nor one to delete that has no event and no error (`DeletedOK`);
what runs while the service stops belongs to a deployment that is live or about to be
stopped (`StoppedOK`), and when it starts, to one that is live (`StartOK`). Live is what
the property says: started, answered with an error, or with an event on the way.
`PendingStays` and `StatusChanges` are the lemmas behind it: an event that was stored is
taken or lost with the process, and only a request or the service changes a status.
That a container that runs belongs to a deployment of the store at all is
`Reachable`: the order of the phases frees nothing without the ownership.

`PropertyCorrect`. `Told` has five parts. `Ordered`: a call to Docker about a container is
followed at once by the step that records it (`Follows`, a relation between neighbours of
`todo`, that is carried through concatenation and tail). `FoundOK`: what is in Docker, or
about to be created or started, has a row that misses nothing, so that fetch finds it.
`UpOK`: `publish_received` finds the rows it has loaded, so that without a failure the
service is never down. `HeadOK`: what the next step is going to record is true in Docker.
`SaidOK`: a property that differs from Docker has a refresh on the way (`Due`) or is the
one the next step sends.

`StartedAlways`. `Restored` says where a deployment with the status Started is
(`Placed`): `initialize` has still to load it (`ToLoad`), the event that starts it is on
the way (`Asked`), it was answered with an error (`Refused`), or its containers run or
are about to be started (`Running`). This is not inductive alone, for three reasons, each a
part of the invariant: a stop that was sent before the start must not be the last
word (`Answered`: behind every event that opposes comes one that starts); an
operation for another deployment must not stop its containers (`StopsOwn`); and the
store must not learn of further images of its containers (`KnownBorn`). `UpdatesBorn`
keeps an update to a deployment that is gone from becoming one that stops.

`Forwarder`. Two invariants, side by side. For the sessions: a property of which the
last report did not fail is not unset only while a session of its token is
between its first and its last report (`ShownBySome`), with `ConnectedIsOpen`; both are
inductive together, and `UnsetWhenOver` follows. For the answers: `OwedIsUnderway`
written with a count (`AllOwe`), and that a connection that was just built has nothing
to say (`BuiltFirst`), without which `Answer` could be counted twice. The arithmetic is
in `CountAppend`, `CountTail` and `CountEmpty`: what a message added or taken
does to the number of positions that hold an answer. `None` differs from the
messages: that is the only assumption on it.

Only model-checked: the liveness properties (`UpdateEnds`, `HandlerReturns`,
`RecordIsResolved`, `EveryRequestAnswered`, `DueIsTaken`, `RequestAnswered`,
`CancelEnds`), since the prover has no rule for fairness. The runs that expect a
violation are counterexamples, and TLC's.

## Not modelled

Telemetry keeps a configuration, its overrides in a file, and one task per
interface that sends at its period. The tasks share nothing with each other or with
another component; its two hazards (the file written after the change, the old
task that may send once more) are visible in the code and listed.

The stored forms of networks, devices, file binds and env files have no operators
of their own (see `Deployments`). The conversions to and from the Docker API, the
protobuf messages and the events of Astarte compute and keep nothing; statistics and
the local API of containers only read.

The LED, the connection to Astarte, the process's options, the I/O adapters, the
D-Bus services, gRPC and the tools have no state that outlives a call, or belong to a
library; the models take a call to them as one that succeeds or fails.

Behaviours that are modelled, or seen while modelling, and that no property is about,
since no text of the repository says what should hold: a cancel that comes too late
answers without the id of the update; an Update with the id of the current one and
another url is refused as a different one; updates that wait in the channel are lost
with the process; a clean-up that fails keeps its job in progress; StorageTask
does not sleep while a Delete job of any status is in the queue; a request for
a session that is ending is ignored.

## Next

Networks and devices with rows of their own; the intermediate events of a deployment;
Telemetry with its file and a crash.
