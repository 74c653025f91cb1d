------------------------------ MODULE FileJobs ------------------------------
(***************************************************************************)
(* The requests about files, and the tasks that share the job queue, the   *)
(* file store and the Astarte properties that list the stored files:       *)
(*                                                                         *)
(*   receivers     the Persisted actors of src/src/file_transfer/mod.rs    *)
(*                 and src/src/storage/mod.rs (controller/actor.rs)        *)
(*   FileTransfer  src/src/file_transfer/mod.rs, downloads and uploads     *)
(*   StorageTask   src/src/storage/mod.rs, deletions and clean-ups         *)
(*                                                                         *)
(* Every step ends at an await.  A download goes to the file store; other  *)
(* destinations, and uploads, keep no state and are represented by the     *)
(* Upload jobs.  The answers to invalid requests, and progress events, are *)
(* left out.                                                               *)
(***************************************************************************)
EXTENDS JobQueue, Naturals

CONSTANTS
    Requests,     \* the requests of the server
    Encodings,    \* how the server sends files: "plain", "gz", "tar"
    MaxRequests,  \* bound: requests received in a behaviour
    MaxFaults     \* bound: crashes, and messages that could not be sent

ASSUME FileJobsAssumption ==
    /\ Requests \subseteq [key : [id : Ids, tag : TransferTags \cup {"Delete"}],
                           file : Ids, ttl : BOOLEAN]
    /\ \A r \in Requests : r.key.tag = "Download" => r.file = r.key.id
    /\ Encodings \subseteq {"plain", "gz", "tar"}
    /\ MaxRequests \in Nat
    /\ MaxFaults \in Nat

VARIABLES
    \* receivers: those that inserted a job and have not notified its task yet
    notifying,
    \* the permits of the two Notify
    transferPermit,
    storagePermit,
    \* FileTransfer
    fpc,          \* where the task is
    fjob,         \* the job it works on
    fresult,      \* what becomes of it, until it is stored: "Done" or "Error"
    listed,       \* sync_stored_files: properties left
    found,        \* sync_stored_files: directory entries left
    \* StorageTask
    spc,
    sjob,
    sresult,
    asleepFor,    \* the clean-ups that were pending when it went to sleep
    \* the device and the server
    encoding,     \* how the server sends each file: as it is, or compressed
    store,        \* the file store
    partial,      \* files with a .part file
    props,        \* files listed by a property
    \* history
    owed,         \* jobs that were inserted and not answered
    requests,
    faults

queueVars    == <<jobs, owed>>
receiverVars == <<notifying, requests>>
permitVars   == <<transferPermit, storagePermit>>
transferVars == <<fpc, fjob, fresult, listed, found>>
storageVars  == <<spc, sjob, sresult, asleepFor>>
fileVars     == <<encoding, store, partial, props>>
vars == <<queueVars, receiverVars, permitVars, transferVars, storageVars,
          fileVars, faults>>

(* A file is extracting while it is written, and remains so when that      *)
(* fails; it is damaged when its removal fails half way.                   *)
FileStates == {"absent", "extracting", "damaged", "complete"}

FilesTypeOK ==
    /\ encoding \in [Ids -> Encodings]
    /\ store \in [Ids -> FileStates]
    /\ partial \subseteq Ids
    /\ props \subseteq Ids

TypeOK ==
    /\ JobQueueTypeOK /\ FilesTypeOK
    /\ notifying \subseteq {"transfer", "storage"}
    /\ transferPermit \in BOOLEAN /\ storagePermit \in BOOLEAN
    /\ fpc \in {"init", "fetch", "list", "sync", "next", "wait", "upload",
                "exists", "open", "download", "finalize", "extract", "quota",
                "publish", "ttl", "update", "send", "delete"}
    /\ fjob \in Keys \cup {NoJob}
    /\ fresult \in {"Done", "Error"}
    /\ listed \subseteq Ids /\ found \subseteq Ids
    /\ spc \in {"next", "remove", "unset", "update", "send", "delete",
                "due", "clean", "cleanUnset", "cleanDelete",
                "contains", "schedule", "sleep"}
    /\ sjob \in Keys \cup {NoJob}
    /\ sresult \in {"Done", "Error"}
    /\ asleepFor \subseteq Ids
    /\ owed \subseteq Keys
    /\ requests \in 0..MaxRequests
    /\ faults \in 0..MaxFaults

ProcessInit ==
    /\ notifying = {}
    /\ transferPermit = FALSE /\ storagePermit = FALSE
    /\ fpc = "init" /\ fjob = NoJob /\ fresult = "Done"
    /\ listed = {} /\ found = {}
    /\ spc = "next" /\ sjob = NoJob /\ sresult = "Done" /\ asleepFor = {}

Init ==
    /\ ProcessInit
    /\ jobs = [k \in Keys |-> NoJob]
    /\ owed = {} /\ requests = 0 /\ faults = 0
    /\ encoding \in [Ids -> Encodings]
    /\ store = [f \in Ids |-> "absent"]
    /\ partial = {} /\ props = {}

(* The runtime is stopped or killed, and started again.                    *)
Restart ==
    /\ faults < MaxFaults /\ faults' = faults + 1
    /\ notifying' = {}
    /\ transferPermit' = FALSE /\ storagePermit' = FALSE
    /\ fpc' = "init" /\ fjob' = NoJob /\ fresult' = "Done"
    /\ listed' = {} /\ found' = {}
    /\ spc' = "next" /\ sjob' = NoJob /\ sresult' = "Done" /\ asleepFor' = {}
    /\ ResetInProgress
    /\ UNCHANGED <<owed, requests, fileVars>>

(* A message to Astarte could not be sent.                                 *)
Fault == faults < MaxFaults /\ faults' = faults + 1

-----------------------------------------------------------------------------
(* The receivers.                                                          *)

WorkerOf(k) == IF k.tag \in TransferTags THEN "transfer" ELSE "storage"

(* The job is inserted, unless there is one with its key, or the insertion *)
(* fails and the server is told that the device is busy.                   *)
Receive(r) ==
    /\ requests < MaxRequests /\ requests' = requests + 1
    /\ WorkerOf(r.key) \notin notifying
    /\ notifying' = notifying \cup {WorkerOf(r.key)}
    /\ \/ /\ Insert(r.key, NewRow(r.file, r.ttl))
          /\ owed' = IF jobs[r.key] = NoJob THEN owed \cup {r.key} ELSE owed
       \/ UNCHANGED queueVars
    /\ UNCHANGED <<permitVars, transferVars, storageVars, fileVars, faults>>

(* Mutant: notify_waiters, that leaves no permit.                          *)
NotifyWaiters(w) ==
    /\ w \in notifying /\ notifying' = notifying \ {w}
    /\ transferPermit' = (transferPermit \/ (w = "transfer" /\ fpc = "wait"))
    /\ storagePermit' = (storagePermit \/ (w = "storage" /\ spc = "sleep"))
    /\ UNCHANGED <<queueVars, requests, transferVars, storageVars, fileVars,
                   faults>>

(* notify_one leaves a permit for a task that does not wait.               *)
Notify(w) ==
    /\ w \in notifying /\ notifying' = notifying \ {w}
    /\ transferPermit' = (transferPermit \/ w = "transfer")
    /\ storagePermit' = (storagePermit \/ w = "storage")
    /\ UNCHANGED <<queueVars, requests, transferVars, storageVars, fileVars,
                   faults>>

-----------------------------------------------------------------------------
(* FileTransfer.                                                           *)

FGoto(pc, to) == fpc = pc /\ fpc' = to

FResult(pc, result) == FGoto(pc, "update") /\ fresult' = result

(* Of a step of FileTransfer: what it usually leaves alone.                *)
FOthers == UNCHANGED <<receiverVars, permitVars, storageVars, encoding>>

(* storage.init: partial files without a download are removed.             *)
FtInit ==
    /\ FGoto("init", "fetch")
    /\ partial' = {f \in partial : jobs[[id |-> f, tag |-> "Download"]] # NoJob}
    /\ UNCHANGED <<queueVars, fjob, fresult, listed, found, store, props, faults>>
    /\ FOthers

FetchProps ==
    /\ FGoto("fetch", "list")
    /\ listed' = props
    /\ UNCHANGED <<queueVars, fjob, fresult, found, store, partial, props, faults>>
    /\ FOthers

ListStore ==
    /\ FGoto("list", "sync")
    /\ found' = {f \in Ids : store[f] # "absent"}
    /\ UNCHANGED <<queueVars, fjob, fresult, listed, store, partial, props, faults>>
    /\ FOthers

(* Mutant: the properties are looked up, not removed from the set.         *)
SyncFileContains ==
    /\ FGoto("sync", "sync")
    /\ \E f \in found :
          /\ found' = found \ {f}
          /\ props' = props \cup {f}
    /\ UNCHANGED <<queueVars, fjob, fresult, listed, store, partial, faults>>
    /\ FOthers

(* A file without a property gets one; when that fails the task ends, and  *)
(* with it the runtime: a Restart.                                         *)
SyncFile ==
    /\ FGoto("sync", "sync")
    /\ \E f \in found :
          /\ found' = found \ {f}
          /\ listed' = listed \ {f}
          /\ props' = props \cup ({f} \ listed)
    /\ UNCHANGED <<queueVars, fjob, fresult, store, partial, faults>>
    /\ FOthers

SyncUnset ==
    /\ FGoto("sync", "sync")
    /\ found = {}
    /\ \E f \in listed :
          /\ listed' = listed \ {f}
          /\ \/ props' = props \ {f} /\ UNCHANGED faults
             \/ Fault /\ UNCHANGED props
    /\ UNCHANGED <<queueVars, fjob, fresult, found, store, partial>>
    /\ FOthers

SyncEnd ==
    /\ FGoto("sync", "next")
    /\ found = {} /\ listed = {}
    /\ UNCHANGED <<queueVars, fjob, fresult, listed, found, store, partial,
                   props, faults>>
    /\ FOthers

(* jobs: the next pending job, or wait for a permit.                       *)
NextTransfer ==
    /\ \/ \E k \in Jobs(TransferTags, {"Pending"}) :
             /\ FGoto("next", IF k.tag = "Download" THEN "exists" ELSE "upload")
             /\ Claim(k) /\ fjob' = k
       \/ /\ Jobs(TransferTags, {"Pending"}) = {}
          /\ FGoto("next", "wait")
          /\ UNCHANGED <<jobs, fjob>>
    /\ UNCHANGED <<owed, fresult, listed, found, store, partial, props, faults>>
    /\ FOthers

WaitTransfer ==
    /\ FGoto("wait", "next")
    /\ transferPermit /\ transferPermit' = FALSE
    /\ UNCHANGED <<queueVars, receiverVars, storagePermit, fjob, fresult,
                   listed, found, storageVars, fileVars, faults>>

Upload ==
    /\ \E result \in {"Done", "Error"} : FResult("upload", result)
    /\ UNCHANGED <<queueVars, fjob, listed, found, store, partial, props, faults>>
    /\ FOthers

(* Mutant: a compressed file exists when there is one.                     *)
FileExistsOpen(f) ==
    \/ encoding[f] = "plain" /\ store[f] = "complete"
    \/ encoding[f] = "gz" /\ store[f] # "absent"
    \/ encoding[f] = "tar" /\ store[f] # "absent" /\ f \notin partial

(* try_exists: the digest of a plain file is checked, a compressed file is *)
(* never taken for complete, a directory is when it has no partial file.   *)
FileExists(f) ==
    \/ encoding[f] = "plain" /\ store[f] = "complete"
    \/ encoding[f] = "tar" /\ store[f] # "absent" /\ f \notin partial

CheckExists ==
    /\ \/ FGoto("exists", "ttl") /\ FileExists(fjob.id) /\ UNCHANGED fresult
       \/ FGoto("exists", "open") /\ ~FileExists(fjob.id) /\ UNCHANGED fresult
       \/ FResult("exists", "Error")
    /\ UNCHANGED <<queueVars, fjob, listed, found, store, partial, props, faults>>
    /\ FOthers

(* create_write_handle: the partial file is opened, or created, and stays  *)
(* when there is no space for the download.                                *)
Open ==
    /\ \/ /\ FGoto("open", "download") /\ UNCHANGED fresult
          /\ partial' = partial \cup {fjob.id}
       \/ /\ FResult("open", "Error")
          /\ partial' \in {partial, partial \cup {fjob.id}}
    /\ UNCHANGED <<queueVars, fjob, listed, found, store, props, faults>>
    /\ FOthers

(* download_to_write_handle, resumed from what the partial file holds.     *)
Download ==
    /\ \/ FGoto("download", "finalize") /\ UNCHANGED <<fresult, partial>>
       \/ FResult("download", "Error") /\ partial' = partial \ {fjob.id}
    /\ UNCHANGED <<queueVars, fjob, listed, found, store, props, faults>>
    /\ FOthers

(* WriteHandle::finalize: a plain file is renamed, an archive is extracted.*)
Finalize ==
    /\ \/ /\ FGoto("finalize", "quota") /\ UNCHANGED fresult
          /\ encoding[fjob.id] = "plain"
          /\ store' = [store EXCEPT ![fjob.id] = "complete"]
          /\ partial' = partial \ {fjob.id}
       \/ /\ FGoto("finalize", "extract") /\ UNCHANGED <<fresult, partial>>
          /\ encoding[fjob.id] # "plain"
          /\ store' = [store EXCEPT ![fjob.id] = "extracting"]
       \/ /\ FResult("finalize", "Error")
          /\ partial' = partial \ {fjob.id} /\ UNCHANGED store
    /\ UNCHANGED <<queueVars, fjob, listed, found, props, faults>>
    /\ FOthers

(* The file may have been removed, or damaged, meanwhile.                  *)
Extract ==
    /\ \/ /\ FGoto("extract", "quota") /\ UNCHANGED fresult
          /\ store' = IF store[fjob.id] = "extracting"
                      THEN [store EXCEPT ![fjob.id] = "complete"] ELSE store
       \/ FResult("extract", "Error") /\ UNCHANGED store
    /\ partial' = partial \ {fjob.id}
    /\ UNCHANGED <<queueVars, fjob, listed, found, props, faults>>
    /\ FOthers

(* Space::finalize: fails when the file is gone or the disk is full; the   *)
(* file stays.                                                             *)
Quota ==
    /\ \/ /\ FGoto("quota", "publish") /\ UNCHANGED fresult
          /\ store[fjob.id] # "absent"
       \/ FResult("quota", "Error")
    /\ UNCHANGED <<queueVars, fjob, listed, found, store, partial, props, faults>>
    /\ FOthers

Publish ==
    /\ FGoto("publish", "ttl")
    /\ \/ props' = props \cup {fjob.id} /\ UNCHANGED faults
       \/ Fault /\ UNCHANGED props
    /\ UNCHANGED <<queueVars, fjob, fresult, listed, found, store, partial>>
    /\ FOthers

CleanUpKey(f) == [id |-> f, tag |-> "CleanUp"]

(* Mutant: StorageTask is not told.                                        *)
QueueCleanUpSilent ==
    /\ FResult("ttl", "Done")
    /\ IF jobs[fjob].ttl /\ jobs[CleanUpKey(fjob.id)] = NoJob
       THEN Insert(CleanUpKey(fjob.id), NewRow(fjob.id, FALSE))
       ELSE UNCHANGED jobs
    /\ UNCHANGED <<owed, receiverVars, permitVars, fjob, listed, found,
                   storageVars, fileVars, faults>>

(* queue_cleanup, of a download with a time to live.                       *)
QueueCleanUp ==
    /\ FResult("ttl", "Done")
    /\ IF jobs[fjob].ttl /\ jobs[CleanUpKey(fjob.id)] = NoJob
       THEN /\ Insert(CleanUpKey(fjob.id), NewRow(fjob.id, FALSE))
            /\ storagePermit' = TRUE
       ELSE UNCHANGED <<jobs, storagePermit>>
    /\ UNCHANGED <<owed, receiverVars, transferPermit, fjob, listed, found,
                   storageVars, fileVars, faults>>

(* Mutant: the job is deleted before its answer is sent.                   *)
UpdateTransferDeletes ==
    /\ FGoto("update", "send")
    /\ Remove(fjob) /\ fresult' = "Done"
    /\ UNCHANGED <<owed, fjob, listed, found, store, partial, props, faults>>
    /\ FOthers

(* job_done and job_error: the status is stored, the answer is sent, and   *)
(* the job is deleted unless the answer could not be sent.                 *)
UpdateTransfer ==
    /\ FGoto("update", "send")
    /\ SetStatus(fjob, fresult) /\ fresult' = "Done"
    /\ UNCHANGED <<owed, fjob, listed, found, store, partial, props, faults>>
    /\ FOthers

SendTransfer ==
    /\ \/ FGoto("send", "delete") /\ owed' = owed \ {fjob} /\ UNCHANGED <<fjob, faults>>
       \/ FGoto("send", "next") /\ fjob' = NoJob /\ Fault /\ UNCHANGED owed
    /\ UNCHANGED <<jobs, fresult, listed, found, store, partial, props>>
    /\ FOthers

DeleteTransfer ==
    /\ FGoto("delete", "next")
    /\ Remove(fjob) /\ fjob' = NoJob
    /\ UNCHANGED <<owed, fresult, listed, found, store, partial, props, faults>>
    /\ FOthers

-----------------------------------------------------------------------------
(* StorageTask.                                                            *)

SGoto(pc, to) == spc = pc /\ spc' = to

(* Of a step of StorageTask: what it usually leaves alone.                 *)
SOthers == UNCHANGED <<receiverVars, permitVars, transferVars, encoding, partial>>

(* Mutant: the task keeps the file, not the job.                           *)
NextDeleteFile ==
    /\ \/ \E k \in Jobs({"Delete"}, {"Pending"}) :
             SGoto("next", "remove") /\ Claim(k) /\ sjob' = jobs[k].file
       \/ /\ Jobs({"Delete"}, {"Pending"}) = {}
          /\ SGoto("next", "due") /\ UNCHANGED <<jobs, sjob>>
    /\ UNCHANGED <<owed, sresult, asleepFor, store, props, faults>>
    /\ SOthers

(* jobs: the next pending deletion, or on to the clean-ups.                *)
NextDelete ==
    /\ \/ \E k \in Jobs({"Delete"}, {"Pending"}) :
             SGoto("next", "remove") /\ Claim(k) /\ sjob' = k
       \/ /\ Jobs({"Delete"}, {"Pending"}) = {}
          /\ SGoto("next", "due") /\ UNCHANGED <<jobs, sjob>>
    /\ UNCHANGED <<owed, sresult, asleepFor, store, props, faults>>
    /\ SOthers

(* inner_delete; a removal that fails may have removed a part of the file. *)
Deleted(f) == store[f] # "absent" /\ store' = [store EXCEPT ![f] = "absent"]
NotDeleted(f) ==
    \/ UNCHANGED store
    \/ store[f] # "absent" /\ store' = [store EXCEPT ![f] = "damaged"]

RemoveStored ==
    /\ \/ SGoto("remove", "unset") /\ Deleted(jobs[sjob].file) /\ UNCHANGED sresult
       \/ SGoto("remove", "update") /\ NotDeleted(jobs[sjob].file) /\ sresult' = "Error"
    /\ UNCHANGED <<queueVars, sjob, asleepFor, props, faults>>
    /\ SOthers

(* An error is only logged.                                                *)
Unset(f) ==
    \/ props' = props \ {f} /\ UNCHANGED faults
    \/ Fault /\ UNCHANGED props

UnsetDeleted ==
    /\ SGoto("unset", "update") /\ sresult' = "Done"
    /\ Unset(jobs[sjob].file)
    /\ UNCHANGED <<queueVars, sjob, asleepFor, store>>
    /\ SOthers

UpdateDelete ==
    /\ SGoto("update", "send")
    /\ SetStatus(sjob, sresult) /\ sresult' = "Done"
    /\ UNCHANGED <<owed, sjob, asleepFor, store, props, faults>>
    /\ SOthers

(* When this fails the task ends, and with it the runtime: a Restart.      *)
SendDelete ==
    /\ SGoto("send", "delete")
    /\ owed' = owed \ {sjob}
    /\ UNCHANGED <<jobs, sjob, sresult, asleepFor, store, props, faults>>
    /\ SOthers

DeleteDelete ==
    /\ SGoto("delete", "next")
    /\ Remove(sjob) /\ sjob' = NoJob
    /\ UNCHANGED <<owed, sresult, asleepFor, store, props, faults>>
    /\ SOthers

DueCleanUps == {k \in Jobs({"CleanUp"}, {"Pending"}) : jobs[k].due}

NextCleanUp ==
    /\ \/ \E k \in DueCleanUps : SGoto("due", "clean") /\ Claim(k) /\ sjob' = k
       \/ DueCleanUps = {} /\ SGoto("due", "contains") /\ UNCHANGED <<jobs, sjob>>
    /\ UNCHANGED <<owed, sresult, asleepFor, store, props, faults>>
    /\ SOthers

(* The error of a clean-up is logged and its job stays in progress.        *)
CleanUp ==
    /\ \/ SGoto("clean", "cleanUnset") /\ Deleted(sjob.id) /\ UNCHANGED sjob
       \/ SGoto("clean", "due") /\ NotDeleted(sjob.id) /\ sjob' = NoJob
    /\ UNCHANGED <<queueVars, sresult, asleepFor, props, faults>>
    /\ SOthers

UnsetCleaned ==
    /\ SGoto("cleanUnset", "cleanDelete")
    /\ Unset(sjob.id)
    /\ UNCHANGED <<queueVars, sjob, sresult, asleepFor, store>>
    /\ SOthers

DeleteCleanUp ==
    /\ SGoto("cleanDelete", "due")
    /\ Remove(sjob) /\ sjob' = NoJob
    /\ UNCHANGED <<owed, sresult, asleepFor, store, props, faults>>
    /\ SOthers

(* wait_next does not wait while there is a job to delete a file, whatever *)
(* its status.                                                             *)
CheckDeletes ==
    /\ SGoto("contains", IF Jobs({"Delete"}, JobStatus) = {} THEN "schedule" ELSE "next")
    /\ UNCHANGED <<queueVars, sjob, sresult, asleepFor, store, props, faults>>
    /\ SOthers

CheckSchedule ==
    /\ \/ DueCleanUps # {} /\ SGoto("schedule", "next") /\ UNCHANGED asleepFor
       \/ /\ DueCleanUps = {} /\ SGoto("schedule", "sleep")
          /\ asleepFor' = {k.id : k \in Jobs({"CleanUp"}, {"Pending"})}
    /\ UNCHANGED <<queueVars, sjob, sresult, store, props, faults>>
    /\ SOthers

WakeByPermit ==
    /\ SGoto("sleep", "next")
    /\ storagePermit /\ storagePermit' = FALSE
    /\ asleepFor' = {}
    /\ UNCHANGED <<queueVars, receiverVars, transferPermit, transferVars, sjob,
                   sresult, fileVars, faults>>

WakeByTime ==
    /\ SGoto("sleep", "next")
    /\ \E f \in asleepFor : CleanUpKey(f) \in DueCleanUps
    /\ asleepFor' = {}
    /\ UNCHANGED <<queueVars, sjob, sresult, store, props, faults>>
    /\ SOthers

(* schedule_at passes.                                                     *)
Elapse(k) ==
    /\ k \in Jobs({"CleanUp"}, JobStatus) /\ ~jobs[k].due
    /\ jobs' = [jobs EXCEPT ![k].due = TRUE]
    /\ UNCHANGED <<owed, receiverVars, permitVars, transferVars, storageVars,
                   fileVars, faults>>

-----------------------------------------------------------------------------
TransferStep ==
    \/ FtInit \/ FetchProps \/ ListStore \/ SyncFile \/ SyncUnset \/ SyncEnd
    \/ NextTransfer \/ WaitTransfer \/ Upload \/ CheckExists \/ Open \/ Download
    \/ Finalize \/ Extract \/ Quota \/ Publish \/ QueueCleanUp
    \/ UpdateTransfer \/ SendTransfer \/ DeleteTransfer

StorageStep ==
    \/ NextDelete \/ RemoveStored \/ UnsetDeleted \/ UpdateDelete \/ SendDelete
    \/ DeleteDelete \/ NextCleanUp \/ CleanUp \/ UnsetCleaned \/ DeleteCleanUp
    \/ CheckDeletes \/ CheckSchedule \/ WakeByPermit \/ WakeByTime

Next ==
    \/ \E r \in Requests : Receive(r)
    \/ \E w \in notifying : Notify(w)
    \/ TransferStep
    \/ StorageStep
    \/ \E k \in Keys : Elapse(k)
    \/ Restart

Spec == Init /\ [][Next]_vars

(* FileTransfer waits for a server, or for the process at the other end of *)
(* a FIFO: neither has a timeout.                                          *)
Transferring == fpc \in {"upload", "download"}

(* tokio polls every task that can run, the disk, the database and the     *)
(* Astarte client answer, and time passes.  No transfer is owed an end.    *)
Fairness ==
    /\ \A w \in {"transfer", "storage"} : WF_vars(Notify(w))
    /\ WF_vars(~Transferring /\ TransferStep)
    /\ WF_vars(StorageStep)
    /\ WF_vars(\E k \in Keys : Elapse(k))

FairSpec == Spec /\ Fairness

-----------------------------------------------------------------------------
(* Safety.                                                                 *)

Held(k) ==
    \/ k = fjob /\ fpc \in {"upload", "exists", "open", "download", "finalize",
                            "extract", "quota", "publish", "ttl", "update"}
    \/ k = sjob /\ spc \in {"remove", "unset", "update"}

(* A job that was accepted and not answered stays in the queue, whatever   *)
(* stops the runtime, until its answer is sent: job_done and job_error     *)
(* delete it only after.                                                   *)
OwedIsQueued == \A k \in owed : jobs[k] # NoJob

(* A request is answered at most once: job_done and job_error store that   *)
(* the job is finished before they send, so that no restart takes it       *)
(* again.                                                                  *)
AnsweredOnce ==
    /\ fpc = "send" => fjob \in owed
    /\ spc = "send" => sjob \in owed

(* A request is in progress only while its task works on it: claiming it   *)
(* marks it, and a restart resets the mark, so none is lost half way.      *)
InProgressIsHeld ==
    \A k \in Jobs(TransferTags \cup {"Delete"}, {"InProgress"}) : Held(k)

(* A download that try_exists or finalize accepted, and that is not of an  *)
(* archive of several files, is not left half written.                     *)
DoneIsWhole ==
    fpc \in {"publish", "ttl"} /\ encoding[fjob.id] # "tar"
        => store[fjob.id] # "extracting"

(* When sync_stored_files ends, every file of the store has a property,    *)
(* though StorageTask deletes files meanwhile.                             *)
SyncListsAll ==
    [][SyncEnd => \A f \in Ids : store[f] # "absent" => f \in props]_vars

-----------------------------------------------------------------------------
(* Liveness, under FairSpec.                                               *)

(* The answer could not be sent, or the runtime was killed before it was:  *)
(* the job stays in the queue, finished, and nothing takes it again.       *)
Stuck(k) ==
    /\ k \in Jobs(TransferTags \cup {"Delete"}, {"Done", "Error"})
    /\ fjob # k /\ sjob # k

(* Every accepted request is answered, or stuck: no insertion is missed by *)
(* a task that is about to wait for its permit (jobs, Notify).  A transfer *)
(* that stalls for ever holds up the other transfers, and no deletion.     *)
EveryRequestAnswered ==
    \A r \in Requests : r.key \in owed ~>
        \/ r.key \notin owed
        \/ Stuck(r.key)
        \/ r.key.tag \in TransferTags /\ []Transferring

(* A clean-up whose time is past is taken: no wake-up of StorageTask is    *)
(* lost between its last look at the queue and its sleep.                  *)
DueIsTaken ==
    \A f \in Ids : CleanUpKey(f) \in DueCleanUps ~> CleanUpKey(f) \notin DueCleanUps

-----------------------------------------------------------------------------
(* What comments say of the code, and the code does not do.                *)

(* "the partial file does not exist this means the directory was fully     *)
(* extracted", file_system/mod.rs, check_dir.  A file that StorageTask is  *)
(* deleting is left out.                                                   *)
ExistsMeansExtracted ==
    fpc = "exists" /\ encoding[fjob.id] = "tar" /\ FileExists(fjob.id)
        => store[fjob.id] # "extracting"

(* "Astarte properties sent to list the local stored files",               *)
(* interface/file.rs: when both tasks wait and no message failed, what is  *)
(* listed is stored.                                                       *)
ListedIsStored ==
    fpc = "wait" /\ spc = "sleep" /\ faults = 0
        => \A f \in props : store[f] # "absent"

=============================================================================
