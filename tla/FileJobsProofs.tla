--------------------------- MODULE FileJobsProofs ---------------------------
(***************************************************************************)
(* Proofs about FileJobs, for every value of its constants: any number of  *)
(* files, requests, restarts and lost messages.                            *)
(***************************************************************************)
EXTENDS FileJobs, TLAPS

-----------------------------------------------------------------------------
(* The inductive invariant.                                                *)

RequestTags == TransferTags \cup {"Delete"}

FWork == {"upload", "exists", "open", "download", "finalize", "extract",
          "quota", "publish", "ttl", "update"}
SWork == {"remove", "unset", "update"}
SClean == {"clean", "cleanUnset", "cleanDelete"}
Finished == {"Done", "Error"}

(* The task's job is in the queue, in progress until its result is stored, *)
(* then finished, and owed an answer until that is sent.                   *)
TransferHolds ==
    /\ fpc \in FWork \cup {"send", "delete"} =>
          fjob \in Keys /\ fjob.tag \in TransferTags /\ jobs[fjob] \in Rows
    /\ fpc \in FWork => jobs[fjob].status = "InProgress"
    /\ fpc \in {"send", "delete"} => jobs[fjob].status \in Finished
    /\ fpc = "send" => fjob \in owed
    /\ fpc = "delete" => fjob \notin owed

StorageHolds ==
    /\ spc \in SWork \cup {"send", "delete"} =>
          sjob \in Keys /\ sjob.tag = "Delete" /\ jobs[sjob] \in Rows
    /\ spc \in SWork => jobs[sjob].status = "InProgress"
    /\ spc \in {"send", "delete"} => jobs[sjob].status \in Finished
    /\ spc = "send" => sjob \in owed
    /\ spc = "delete" => sjob \notin owed
    /\ spc \in SClean => sjob \in Keys /\ sjob.tag = "CleanUp" /\ jobs[sjob] \in Rows

(* Only requests are owed an answer, and every unfinished one is.          *)
OwedKinds == \A k \in owed : k.tag \in RequestTags
UnfinishedIsOwed ==
    \A k \in Keys : k.tag \in RequestTags /\ jobs[k] # NoJob
                    /\ jobs[k].status \in {"Pending", "InProgress"} => k \in owed

(* DoneIsWhole, from when the file is stored.                              *)
WholeFromQuota ==
    fpc \in {"quota", "publish", "ttl"} /\ encoding[fjob.id] # "tar"
        => store[fjob.id] # "extracting"

(* While sync_stored_files runs no file is added: what is deleted stays so *)
(* until its property is unset, and a stored file that was listed has its  *)
(* property, which is kept once the file was found.                        *)
Syncing == {"init", "fetch", "list", "sync"}
SyncInv ==
    /\ fpc \in Syncing /\ spc = "unset" => store[jobs[sjob].file] = "absent"
    /\ fpc \in Syncing /\ spc = "cleanUnset" => store[sjob.id] = "absent"
    /\ fpc \in {"list", "sync"} =>
          \A f \in listed : store[f] # "absent" => f \in props
    /\ fpc = "sync" =>
          \A f \in Ids \ found : store[f] # "absent" => f \in props /\ f \notin listed

QueueInv ==
    /\ TransferHolds /\ StorageHolds
    /\ OwedKinds /\ UnfinishedIsOwed /\ OwedIsQueued
    /\ InProgressIsHeld

IInv == TypeOK /\ QueueInv /\ WholeFromQuota /\ SyncInv

-----------------------------------------------------------------------------
(* The operations of the queue.                                            *)

(* insert_job and insert_if_missing touch one row, when it is missing.     *)
LEMMA InsertFacts ==
    ASSUME JobQueueTypeOK, NEW k \in Keys, NEW row \in Rows, Insert(k, row)
    PROVE  /\ JobQueueTypeOK'
           /\ jobs'[k] = IF jobs[k] = NoJob THEN row ELSE jobs[k]
           /\ \A j \in Keys \ {k} : jobs'[j] = jobs[j]
  BY DEF JobQueueTypeOK, Insert

(* update stores the status of one row and nothing else.                   *)
LEMMA SetStatusFacts ==
    ASSUME JobQueueTypeOK, NEW k \in Keys, NEW status \in JobStatus,
           jobs[k] \in Rows, SetStatus(k, status)
    PROVE  /\ JobQueueTypeOK'
           /\ jobs'[k] \in Rows
           /\ jobs'[k].status = status
           /\ jobs'[k].file = jobs[k].file
           /\ \A j \in Keys \ {k} : jobs'[j] = jobs[j]
<1>1. jobs' = [jobs EXCEPT ![k].status = status]
  BY JobQueueAssumption DEF SetStatus
<1>2. jobs'[k] = [jobs[k] EXCEPT !.status = status]
  BY <1>1 DEF JobQueueTypeOK
<1>3. jobs'[k] \in Rows /\ jobs'[k].status = status /\ jobs'[k].file = jobs[k].file
  BY <1>2 DEF Rows
<1> QED
  BY <1>1, <1>3 DEF JobQueueTypeOK

(* delete removes one row.                                                 *)
LEMMA RemoveFacts ==
    ASSUME JobQueueTypeOK, NEW k \in Keys, Remove(k)
    PROVE  /\ JobQueueTypeOK'
           /\ jobs'[k] = NoJob
           /\ \A j \in Keys \ {k} : jobs'[j] = jobs[j]
  BY DEF JobQueueTypeOK, Remove

(* init makes every job in progress pending again.                         *)
LEMMA ResetFacts ==
    ASSUME JobQueueTypeOK, ResetInProgress
    PROVE  /\ JobQueueTypeOK'
           /\ \A k \in Keys :
                /\ jobs[k] = NoJob <=> jobs'[k] = NoJob
                /\ jobs[k] # NoJob => jobs'[k].status # "InProgress"
                /\ jobs[k] # NoJob /\ jobs'[k].status = "Pending"
                     => jobs[k].status \in {"Pending", "InProgress"}
<1>1. ASSUME NEW k \in Keys, jobs[k] # NoJob, jobs[k].status = "InProgress"
      PROVE  /\ jobs'[k] \in Rows /\ jobs'[k].status = "Pending"
  <2>1. jobs'[k] = [jobs[k] EXCEPT !.status = "Pending"]
    BY <1>1 DEF ResetInProgress
  <2>2. jobs[k] \in Rows
    BY <1>1 DEF JobQueueTypeOK
  <2> QED
    BY <2>1, <2>2 DEF Rows, JobStatus
<1>2. ASSUME NEW k \in Keys, jobs[k] = NoJob \/ jobs[k].status # "InProgress"
      PROVE  jobs'[k] = jobs[k]
  BY <1>2 DEF ResetInProgress
<1>3. JobQueueTypeOK'
  <2>1. \A k \in Keys : jobs'[k] \in Rows \cup {NoJob}
    BY <1>1, <1>2 DEF JobQueueTypeOK
  <2>2. jobs' = [k \in Keys |-> jobs'[k]]
    BY DEF ResetInProgress
  <2> QED
    BY <2>1, <2>2 DEF JobQueueTypeOK
<1> QED
  BY <1>1, <1>2, <1>3, JobQueueAssumption DEF JobQueueTypeOK

(* Taking a pending job.                                                   *)
LEMMA ClaimFacts ==
    ASSUME JobQueueTypeOK, NEW tags, NEW k \in Jobs(tags, {"Pending"}), Claim(k)
    PROVE  /\ k \in Keys /\ k.tag \in tags
           /\ jobs[k] \in Rows /\ jobs[k].status = "Pending"
           /\ JobQueueTypeOK'
           /\ jobs'[k] \in Rows
           /\ jobs'[k].status = "InProgress"
           /\ jobs'[k].file = jobs[k].file
           /\ \A j \in Keys \ {k} : jobs'[j] = jobs[j]
<1>1. k \in Keys /\ k.tag \in tags /\ jobs[k] \in Rows /\ jobs[k].status = "Pending"
  BY DEF Jobs, JobQueueTypeOK
<1>2. "InProgress" \in JobStatus
  BY DEF JobStatus
<1> QED
  BY <1>1, <1>2, SetStatusFacts DEF Claim

(* Setting due leaves a row a row, with its other fields.                  *)
LEMMA DueFacts ==
    ASSUME NEW r \in Rows, NEW d \in BOOLEAN
    PROVE  /\ [r EXCEPT !.due = d] \in Rows
           /\ [r EXCEPT !.due = d].status = r.status
           /\ [r EXCEPT !.due = d].file = r.file
  BY DEF Rows

(* Time passes for one clean-up.                                           *)
LEMMA ElapseFacts ==
    ASSUME JobQueueTypeOK, NEW k \in Keys, Elapse(k)
    PROVE  /\ JobQueueTypeOK'
           /\ k.tag = "CleanUp"
           /\ jobs[k] \in Rows /\ jobs'[k] \in Rows
           /\ jobs'[k].status = jobs[k].status
           /\ jobs'[k].file = jobs[k].file
           /\ \A j \in Keys \ {k} : jobs'[j] = jobs[j]
<1>1. k.tag = "CleanUp" /\ jobs[k] \in Rows /\ jobs' = [jobs EXCEPT ![k].due = TRUE]
  BY DEF Elapse, Jobs, JobQueueTypeOK
<1>2. jobs'[k] = [jobs[k] EXCEPT !.due = TRUE]
  BY <1>1 DEF JobQueueTypeOK
<1>3. TRUE \in BOOLEAN
  OBVIOUS
<1>4. /\ [jobs[k] EXCEPT !.due = TRUE] \in Rows
      /\ [jobs[k] EXCEPT !.due = TRUE].status = jobs[k].status
      /\ [jobs[k] EXCEPT !.due = TRUE].file = jobs[k].file
  BY <1>1, <1>3, DueFacts, Zenon
<1>5. jobs'[k] \in Rows
  BY <1>2, <1>4, Zenon
<1>6. jobs'[k].status = jobs[k].status /\ jobs'[k].file = jobs[k].file
  BY <1>2, <1>4, Zenon
<1> QED
  BY <1>1, <1>5, <1>6 DEF JobQueueTypeOK

-----------------------------------------------------------------------------
(* Types.                                                                  *)

(* Every step keeps the types; a job that is stored or removed is one that  *)
(* its task holds.                                                          *)
LEMMA TypeStep ==
    ASSUME TypeOK, TransferHolds, StorageHolds, [Next]_vars
    PROVE  TypeOK'
<1> USE FileJobsAssumption
<1>r. ASSUME NEW r \in Requests, Receive(r)
      PROVE  TypeOK'
  <2>1. r.key \in Keys /\ NewRow(r.file, r.ttl) \in Rows
    BY DEF Keys, TransferTags, StorageTags, NewRow, Rows, JobStatus
  <2>2. JobQueueTypeOK'
    BY <1>r, <2>1, InsertFacts DEF Receive, TypeOK, JobQueueTypeOK, queueVars
  <2> QED
    BY <1>r, <2>1, <2>2 DEF Receive, WorkerOf, TypeOK, FilesTypeOK, queueVars,
       permitVars, transferVars, storageVars, fileVars
<1>n. ASSUME NEW w \in notifying, Notify(w)
      PROVE  TypeOK'
  <2>1. transferPermit' \in BOOLEAN /\ storagePermit' \in BOOLEAN
    BY <1>n, Zenon DEF Notify
  <2> QED
    BY <1>n, <2>1 DEF Notify, TypeOK, FilesTypeOK, JobQueueTypeOK, queueVars,
       transferVars, storageVars, fileVars
<1>1. ASSUME FtInit
      PROVE  TypeOK'
  BY <1>1 DEF FtInit, TypeOK, FilesTypeOK, JobQueueTypeOK, TransferHolds, FWork,
     Keys, FGoto, FResult, Fault, FileStates, FOthers, queueVars, receiverVars,
     permitVars, storageVars
<1>2. ASSUME FetchProps
      PROVE  TypeOK'
  BY <1>2 DEF FetchProps, TypeOK, FilesTypeOK, JobQueueTypeOK, TransferHolds,
     FWork, Keys, FGoto, FResult, Fault, FileStates, FOthers, queueVars,
     receiverVars, permitVars, storageVars
<1>3. ASSUME ListStore
      PROVE  TypeOK'
  BY <1>3 DEF ListStore, TypeOK, FilesTypeOK, JobQueueTypeOK, TransferHolds,
     FWork, Keys, FGoto, FResult, Fault, FileStates, FOthers, queueVars,
     receiverVars, permitVars, storageVars
<1>4. ASSUME SyncFile
      PROVE  TypeOK'
  BY <1>4 DEF SyncFile, TypeOK, FilesTypeOK, JobQueueTypeOK, TransferHolds,
     FWork, Keys, FGoto, FResult, Fault, FileStates, FOthers, queueVars,
     receiverVars, permitVars, storageVars
<1>5. ASSUME SyncUnset
      PROVE  TypeOK'
  BY <1>5 DEF SyncUnset, TypeOK, FilesTypeOK, JobQueueTypeOK, TransferHolds,
     FWork, Keys, FGoto, FResult, Fault, FileStates, FOthers, queueVars,
     receiverVars, permitVars, storageVars
<1>6. ASSUME SyncEnd
      PROVE  TypeOK'
  BY <1>6 DEF SyncEnd, TypeOK, FilesTypeOK, JobQueueTypeOK, TransferHolds,
     FWork, Keys, FGoto, FResult, Fault, FileStates, FOthers, queueVars,
     receiverVars, permitVars, storageVars
<1>7. ASSUME Upload
      PROVE  TypeOK'
  BY <1>7 DEF Upload, TypeOK, FilesTypeOK, JobQueueTypeOK, TransferHolds, FWork,
     Keys, FGoto, FResult, Fault, FileStates, FOthers, queueVars, receiverVars,
     permitVars, storageVars
<1>8. ASSUME CheckExists
      PROVE  TypeOK'
  BY <1>8 DEF CheckExists, TypeOK, FilesTypeOK, JobQueueTypeOK, TransferHolds,
     FWork, Keys, FGoto, FResult, Fault, FileStates, FOthers, queueVars,
     receiverVars, permitVars, storageVars
<1>9. ASSUME Open
      PROVE  TypeOK'
  BY <1>9 DEF Open, TypeOK, FilesTypeOK, JobQueueTypeOK, TransferHolds, FWork,
     Keys, FGoto, FResult, Fault, FileStates, FOthers, queueVars, receiverVars,
     permitVars, storageVars
<1>10. ASSUME Download
      PROVE  TypeOK'
  BY <1>10 DEF Download, TypeOK, FilesTypeOK, JobQueueTypeOK, TransferHolds,
     FWork, Keys, FGoto, FResult, Fault, FileStates, FOthers, queueVars,
     receiverVars, permitVars, storageVars
<1>11. ASSUME Finalize
      PROVE  TypeOK'
  BY <1>11 DEF Finalize, TypeOK, FilesTypeOK, JobQueueTypeOK, TransferHolds,
     FWork, Keys, FGoto, FResult, Fault, FileStates, FOthers, queueVars,
     receiverVars, permitVars, storageVars
<1>12. ASSUME Extract
      PROVE  TypeOK'
  BY <1>12 DEF Extract, TypeOK, FilesTypeOK, JobQueueTypeOK, TransferHolds,
     FWork, Keys, FGoto, FResult, Fault, FileStates, FOthers, queueVars,
     receiverVars, permitVars, storageVars
<1>13. ASSUME Quota
      PROVE  TypeOK'
  BY <1>13 DEF Quota, TypeOK, FilesTypeOK, JobQueueTypeOK, TransferHolds, FWork,
     Keys, FGoto, FResult, Fault, FileStates, FOthers, queueVars, receiverVars,
     permitVars, storageVars
<1>14. ASSUME Publish
      PROVE  TypeOK'
  BY <1>14 DEF Publish, TypeOK, FilesTypeOK, JobQueueTypeOK, TransferHolds,
     FWork, Keys, FGoto, FResult, Fault, FileStates, FOthers, queueVars,
     receiverVars, permitVars, storageVars
<1>15. ASSUME SendTransfer
      PROVE  TypeOK'
  BY <1>15 DEF SendTransfer, TypeOK, FilesTypeOK, JobQueueTypeOK, TransferHolds,
     FWork, Keys, FGoto, FResult, Fault, FileStates, FOthers, queueVars,
     receiverVars, permitVars, storageVars
<1>16. ASSUME RemoveStored
      PROVE  TypeOK'
  BY <1>16 DEF RemoveStored, TypeOK, FilesTypeOK, JobQueueTypeOK, Keys, SGoto,
     Deleted, NotDeleted, Unset, Fault, FileStates, SOthers, queueVars,
     receiverVars, permitVars, transferVars
<1>17. ASSUME UnsetDeleted
      PROVE  TypeOK'
  BY <1>17 DEF UnsetDeleted, TypeOK, FilesTypeOK, JobQueueTypeOK, Keys, SGoto,
     Deleted, NotDeleted, Unset, Fault, FileStates, SOthers, queueVars,
     receiverVars, permitVars, transferVars
<1>18. ASSUME SendDelete
      PROVE  TypeOK'
  BY <1>18 DEF SendDelete, TypeOK, FilesTypeOK, JobQueueTypeOK, Keys, SGoto,
     Deleted, NotDeleted, Unset, Fault, FileStates, SOthers, queueVars,
     receiverVars, permitVars, transferVars
<1>19. ASSUME CleanUp
      PROVE  TypeOK'
  BY <1>19 DEF CleanUp, TypeOK, FilesTypeOK, JobQueueTypeOK, Keys, SGoto,
     Deleted, NotDeleted, Unset, Fault, FileStates, SOthers, queueVars,
     receiverVars, permitVars, transferVars
<1>20. ASSUME UnsetCleaned
      PROVE  TypeOK'
  BY <1>20 DEF UnsetCleaned, TypeOK, FilesTypeOK, JobQueueTypeOK, Keys, SGoto,
     Deleted, NotDeleted, Unset, Fault, FileStates, SOthers, queueVars,
     receiverVars, permitVars, transferVars
<1>21. ASSUME CheckDeletes
      PROVE  TypeOK'
  BY <1>21 DEF CheckDeletes, TypeOK, FilesTypeOK, JobQueueTypeOK, Keys, SGoto,
     Deleted, NotDeleted, Unset, Fault, FileStates, SOthers, queueVars,
     receiverVars, permitVars, transferVars
<1>22. ASSUME CheckSchedule
      PROVE  TypeOK'
  BY <1>22 DEF CheckSchedule, Jobs, TypeOK, FilesTypeOK, JobQueueTypeOK, Keys,
     SGoto, Deleted, NotDeleted, Unset, Fault, FileStates, SOthers, queueVars,
     receiverVars, permitVars, transferVars
<1>23. ASSUME WakeByTime
      PROVE  TypeOK'
  BY <1>23 DEF WakeByTime, TypeOK, FilesTypeOK, JobQueueTypeOK, Keys, SGoto,
     Deleted, NotDeleted, Unset, Fault, FileStates, SOthers, queueVars,
     receiverVars, permitVars, transferVars

<1>24. ASSUME NextTransfer
      PROVE  TypeOK'
  <2>1. fjob' \in Keys \cup {NoJob} /\ JobQueueTypeOK'
    BY <1>24, ClaimFacts DEF NextTransfer, TypeOK, JobQueueTypeOK
  <2> QED
    BY <1>24, <2>1 DEF NextTransfer, FGoto, FOthers, storageVars, TypeOK,
       FilesTypeOK, queueVars, receiverVars, permitVars
<1>25. ASSUME WaitTransfer
      PROVE  TypeOK'
  <2>1. transferPermit' \in BOOLEAN
    BY <1>25, Zenon DEF WaitTransfer
  <2> QED
    BY <1>25, <2>1 DEF WaitTransfer, FGoto, storageVars, fileVars,
       JobQueueTypeOK, TypeOK, FilesTypeOK, queueVars, receiverVars, permitVars
<1>26. ASSUME QueueCleanUp
      PROVE  TypeOK'
  <2>1. fjob.id \in Ids
    BY <1>26 DEF QueueCleanUp, FResult, FGoto, TransferHolds, FWork, Keys
  <2>2. CleanUpKey(fjob.id) \in Keys /\ NewRow(fjob.id, FALSE) \in Rows
    BY <2>1 DEF CleanUpKey, Keys, StorageTags, NewRow, Rows, JobStatus
  <2>3. JobQueueTypeOK'
    BY <1>26, <2>2, InsertFacts DEF QueueCleanUp, TypeOK, JobQueueTypeOK
  <2>4. storagePermit' \in BOOLEAN
    <3>1. storagePermit' = TRUE \/ storagePermit' = storagePermit
      BY <1>26, Zenon DEF QueueCleanUp
    <3> QED
      BY <3>1, Zenon DEF TypeOK
  <2> QED
    BY <1>26, <2>3, <2>4 DEF QueueCleanUp, FResult, FGoto, storageVars,
       fileVars, TypeOK, FilesTypeOK, queueVars, receiverVars, permitVars
<1>27. ASSUME UpdateTransfer
      PROVE  TypeOK'
  <2>1. fjob \in Keys /\ jobs[fjob] \in Rows /\ fresult \in JobStatus
    BY <1>27 DEF UpdateTransfer, FGoto, TransferHolds, FWork, TypeOK, JobStatus
  <2>2. JobQueueTypeOK'
    BY <1>27, <2>1, SetStatusFacts DEF UpdateTransfer, TypeOK
  <2> QED
    BY <1>27, <2>2 DEF UpdateTransfer, FGoto, FOthers, storageVars, TypeOK,
       FilesTypeOK, queueVars, receiverVars, permitVars
<1>28. ASSUME DeleteTransfer
      PROVE  TypeOK'
  <2>1. fjob \in Keys
    BY <1>28 DEF DeleteTransfer, FGoto, TransferHolds
  <2>2. JobQueueTypeOK'
    BY <1>28, <2>1, RemoveFacts DEF DeleteTransfer, TypeOK
  <2> QED
    BY <1>28, <2>2 DEF DeleteTransfer, FGoto, FOthers, storageVars, TypeOK,
       FilesTypeOK, queueVars, receiverVars, permitVars
<1>29. ASSUME NextDelete
      PROVE  TypeOK'
  <2>1. sjob' \in Keys \cup {NoJob} /\ JobQueueTypeOK'
    BY <1>29, ClaimFacts DEF NextDelete, TypeOK, JobQueueTypeOK
  <2> QED
    BY <1>29, <2>1 DEF NextDelete, SGoto, SOthers, transferVars, TypeOK,
       FilesTypeOK, queueVars, receiverVars, permitVars
<1>30. ASSUME UpdateDelete
      PROVE  TypeOK'
  <2>1. sjob \in Keys /\ jobs[sjob] \in Rows /\ sresult \in JobStatus
    BY <1>30 DEF UpdateDelete, SGoto, StorageHolds, SWork, TypeOK, JobStatus
  <2>2. JobQueueTypeOK'
    BY <1>30, <2>1, SetStatusFacts DEF UpdateDelete, TypeOK
  <2> QED
    BY <1>30, <2>2 DEF UpdateDelete, SGoto, SOthers, transferVars, TypeOK,
       FilesTypeOK, queueVars, receiverVars, permitVars
<1>31. ASSUME DeleteDelete
      PROVE  TypeOK'
  <2>1. sjob \in Keys
    BY <1>31 DEF DeleteDelete, SGoto, StorageHolds
  <2>2. JobQueueTypeOK'
    BY <1>31, <2>1, RemoveFacts DEF DeleteDelete, TypeOK
  <2> QED
    BY <1>31, <2>2 DEF DeleteDelete, SGoto, SOthers, transferVars, TypeOK,
       FilesTypeOK, queueVars, receiverVars, permitVars
<1>32. ASSUME NextCleanUp
      PROVE  TypeOK'
  <2>1. sjob' \in Keys \cup {NoJob} /\ JobQueueTypeOK'
    BY <1>32, ClaimFacts DEF NextCleanUp, DueCleanUps, TypeOK, JobQueueTypeOK
  <2> QED
    BY <1>32, <2>1 DEF NextCleanUp, SGoto, SOthers, transferVars, TypeOK,
       FilesTypeOK, queueVars, receiverVars, permitVars
<1>33. ASSUME DeleteCleanUp
      PROVE  TypeOK'
  <2>1. sjob \in Keys
    BY <1>33 DEF DeleteCleanUp, SGoto, StorageHolds, SClean
  <2>2. JobQueueTypeOK'
    BY <1>33, <2>1, RemoveFacts DEF DeleteCleanUp, TypeOK
  <2> QED
    BY <1>33, <2>2 DEF DeleteCleanUp, SGoto, SOthers, transferVars, TypeOK,
       FilesTypeOK, queueVars, receiverVars, permitVars
<1>34. ASSUME WakeByPermit
      PROVE  TypeOK'
  <2>1. storagePermit' \in BOOLEAN
    BY <1>34, Zenon DEF WakeByPermit
  <2> QED
    BY <1>34, <2>1 DEF WakeByPermit, SGoto, JobQueueTypeOK, transferVars,
       fileVars, TypeOK, FilesTypeOK, queueVars, receiverVars, permitVars
<1>35. ASSUME Restart
      PROVE  TypeOK'
  <2>1. JobQueueTypeOK'
    BY <1>35, ResetFacts DEF Restart, TypeOK
  <2>2. transferPermit' \in BOOLEAN /\ storagePermit' \in BOOLEAN
    BY <1>35, Zenon DEF Restart
  <2> QED
    BY <1>35, <2>1, <2>2 DEF Restart, TypeOK, FilesTypeOK, fileVars
<1>36. ASSUME NEW k \in Keys, Elapse(k)
      PROVE  TypeOK'
  <2>1. JobQueueTypeOK'
    BY <1>36, ElapseFacts DEF TypeOK
  <2> QED
    BY <1>36, <2>1 DEF Elapse, transferVars, storageVars, fileVars, TypeOK,
       FilesTypeOK, queueVars, receiverVars, permitVars
<1>37. CASE UNCHANGED vars
  BY <1>37 DEF vars, queueVars, receiverVars, permitVars, transferVars,
     storageVars, fileVars, TypeOK, FilesTypeOK, JobQueueTypeOK
<1> QED
  BY <1>r, <1>n, <1>1, <1>2, <1>3, <1>4, <1>5, <1>6, <1>7, <1>8, <1>9, <1>10,
     <1>11, <1>12, <1>13, <1>14, <1>15, <1>16, <1>17, <1>18, <1>19, <1>20,
     <1>21, <1>22, <1>23, <1>24, <1>25, <1>26, <1>27, <1>28, <1>29, <1>30,
     <1>31, <1>32, <1>33, <1>34, <1>35, <1>36, <1>37 DEF Next, TransferStep,
     StorageStep

-----------------------------------------------------------------------------
(* The queue.                                                              *)

(* A job is owed until it is answered, queued until then, and held by its   *)
(* task while it is in progress.                                           *)
LEMMA QueueStep ==
    ASSUME TypeOK, QueueInv, [Next]_vars
    PROVE  QueueInv'
<1> USE DEF QueueInv
<1>t. TypeOK'
  BY TypeStep
<1>1. ASSUME FtInit
      PROVE  QueueInv'
  BY <1>1 DEF FtInit, FGoto, FResult, FOthers, queueVars, storageVars,
     TransferHolds, StorageHolds, OwedKinds, UnfinishedIsOwed, OwedIsQueued,
     InProgressIsHeld, Held, Jobs, FWork, SWork, SClean
<1>2. ASSUME FetchProps
      PROVE  QueueInv'
  BY <1>2 DEF FetchProps, FGoto, FResult, FOthers, queueVars, storageVars,
     TransferHolds, StorageHolds, OwedKinds, UnfinishedIsOwed, OwedIsQueued,
     InProgressIsHeld, Held, Jobs, FWork, SWork, SClean
<1>3. ASSUME ListStore
      PROVE  QueueInv'
  BY <1>3 DEF ListStore, FGoto, FResult, FOthers, queueVars, storageVars,
     TransferHolds, StorageHolds, OwedKinds, UnfinishedIsOwed, OwedIsQueued,
     InProgressIsHeld, Held, Jobs, FWork, SWork, SClean
<1>4. ASSUME SyncFile
      PROVE  QueueInv'
  BY <1>4 DEF SyncFile, FGoto, FResult, FOthers, queueVars, storageVars,
     TransferHolds, StorageHolds, OwedKinds, UnfinishedIsOwed, OwedIsQueued,
     InProgressIsHeld, Held, Jobs, FWork, SWork, SClean
<1>5. ASSUME SyncUnset
      PROVE  QueueInv'
  BY <1>5 DEF SyncUnset, FGoto, FResult, FOthers, queueVars, storageVars,
     TransferHolds, StorageHolds, OwedKinds, UnfinishedIsOwed, OwedIsQueued,
     InProgressIsHeld, Held, Jobs, FWork, SWork, SClean
<1>6. ASSUME SyncEnd
      PROVE  QueueInv'
  BY <1>6 DEF SyncEnd, FGoto, FResult, FOthers, queueVars, storageVars,
     TransferHolds, StorageHolds, OwedKinds, UnfinishedIsOwed, OwedIsQueued,
     InProgressIsHeld, Held, Jobs, FWork, SWork, SClean
<1>7. ASSUME WaitTransfer
      PROVE  QueueInv'
  BY <1>7 DEF WaitTransfer, FGoto, FResult, FOthers, queueVars, storageVars,
     TransferHolds, StorageHolds, OwedKinds, UnfinishedIsOwed, OwedIsQueued,
     InProgressIsHeld, Held, Jobs, FWork, SWork, SClean
<1>8. ASSUME Upload
      PROVE  QueueInv'
  BY <1>8 DEF Upload, FGoto, FResult, FOthers, queueVars, storageVars,
     TransferHolds, StorageHolds, OwedKinds, UnfinishedIsOwed, OwedIsQueued,
     InProgressIsHeld, Held, Jobs, FWork, SWork, SClean
<1>9. ASSUME CheckExists
      PROVE  QueueInv'
  BY <1>9 DEF CheckExists, FGoto, FResult, FOthers, queueVars, storageVars,
     TransferHolds, StorageHolds, OwedKinds, UnfinishedIsOwed, OwedIsQueued,
     InProgressIsHeld, Held, Jobs, FWork, SWork, SClean
<1>10. ASSUME Open
      PROVE  QueueInv'
  BY <1>10 DEF Open, FGoto, FResult, FOthers, queueVars, storageVars,
     TransferHolds, StorageHolds, OwedKinds, UnfinishedIsOwed, OwedIsQueued,
     InProgressIsHeld, Held, Jobs, FWork, SWork, SClean
<1>11. ASSUME Download
      PROVE  QueueInv'
  BY <1>11 DEF Download, FGoto, FResult, FOthers, queueVars, storageVars,
     TransferHolds, StorageHolds, OwedKinds, UnfinishedIsOwed, OwedIsQueued,
     InProgressIsHeld, Held, Jobs, FWork, SWork, SClean
<1>12. ASSUME Finalize
      PROVE  QueueInv'
  BY <1>12 DEF Finalize, FGoto, FResult, FOthers, queueVars, storageVars,
     TransferHolds, StorageHolds, OwedKinds, UnfinishedIsOwed, OwedIsQueued,
     InProgressIsHeld, Held, Jobs, FWork, SWork, SClean
<1>13. ASSUME Extract
      PROVE  QueueInv'
  BY <1>13 DEF Extract, FGoto, FResult, FOthers, queueVars, storageVars,
     TransferHolds, StorageHolds, OwedKinds, UnfinishedIsOwed, OwedIsQueued,
     InProgressIsHeld, Held, Jobs, FWork, SWork, SClean
<1>14. ASSUME Quota
      PROVE  QueueInv'
  BY <1>14 DEF Quota, FGoto, FResult, FOthers, queueVars, storageVars,
     TransferHolds, StorageHolds, OwedKinds, UnfinishedIsOwed, OwedIsQueued,
     InProgressIsHeld, Held, Jobs, FWork, SWork, SClean
<1>15. ASSUME Publish
      PROVE  QueueInv'
  BY <1>15 DEF Publish, FGoto, FResult, FOthers, queueVars, storageVars,
     TransferHolds, StorageHolds, OwedKinds, UnfinishedIsOwed, OwedIsQueued,
     InProgressIsHeld, Held, Jobs, FWork, SWork, SClean
<1>16. ASSUME RemoveStored
      PROVE  QueueInv'
  BY <1>16 DEF RemoveStored, SGoto, SOthers, queueVars, transferVars,
     TransferHolds, StorageHolds, OwedKinds, UnfinishedIsOwed, OwedIsQueued,
     InProgressIsHeld, Held, Jobs, FWork, SWork, SClean
<1>17. ASSUME UnsetDeleted
      PROVE  QueueInv'
  BY <1>17 DEF UnsetDeleted, SGoto, SOthers, queueVars, transferVars,
     TransferHolds, StorageHolds, OwedKinds, UnfinishedIsOwed, OwedIsQueued,
     InProgressIsHeld, Held, Jobs, FWork, SWork, SClean
<1>18. ASSUME CleanUp
      PROVE  QueueInv'
  BY <1>18 DEF CleanUp, SGoto, SOthers, queueVars, transferVars, TransferHolds,
     StorageHolds, OwedKinds, UnfinishedIsOwed, OwedIsQueued, InProgressIsHeld,
     Held, Jobs, FWork, SWork, SClean
<1>19. ASSUME UnsetCleaned
      PROVE  QueueInv'
  BY <1>19 DEF UnsetCleaned, SGoto, SOthers, queueVars, transferVars,
     TransferHolds, StorageHolds, OwedKinds, UnfinishedIsOwed, OwedIsQueued,
     InProgressIsHeld, Held, Jobs, FWork, SWork, SClean
<1>20. ASSUME CheckDeletes
      PROVE  QueueInv'
  BY <1>20 DEF CheckDeletes, SGoto, SOthers, queueVars, transferVars,
     TransferHolds, StorageHolds, OwedKinds, UnfinishedIsOwed, OwedIsQueued,
     InProgressIsHeld, Held, Jobs, FWork, SWork, SClean
<1>21. ASSUME CheckSchedule
      PROVE  QueueInv'
  BY <1>21 DEF CheckSchedule, SGoto, SOthers, queueVars, transferVars,
     TransferHolds, StorageHolds, OwedKinds, UnfinishedIsOwed, OwedIsQueued,
     InProgressIsHeld, Held, Jobs, FWork, SWork, SClean
<1>22. ASSUME WakeByPermit
      PROVE  QueueInv'
  BY <1>22 DEF WakeByPermit, SGoto, SOthers, queueVars, transferVars,
     TransferHolds, StorageHolds, OwedKinds, UnfinishedIsOwed, OwedIsQueued,
     InProgressIsHeld, Held, Jobs, FWork, SWork, SClean
<1>23. ASSUME WakeByTime
      PROVE  QueueInv'
  BY <1>23 DEF WakeByTime, SGoto, SOthers, queueVars, transferVars,
     TransferHolds, StorageHolds, OwedKinds, UnfinishedIsOwed, OwedIsQueued,
     InProgressIsHeld, Held, Jobs, FWork, SWork, SClean
<1>24. ASSUME NextTransfer
      PROVE  QueueInv'
  <2>1. CASE \E k \in Jobs(TransferTags, {"Pending"}) :
              FGoto("next", IF k.tag = "Download" THEN "exists" ELSE "upload") /\ Claim(k) /\ fjob' = k
    <3>1. PICK k \in Jobs(TransferTags, {"Pending"}) :
              FGoto("next", IF k.tag = "Download" THEN "exists" ELSE "upload") /\ Claim(k) /\ fjob' = k
      BY <2>1
    <3>2. /\ k \in Keys /\ k.tag \in TransferTags
          /\ jobs[k] \in Rows /\ jobs[k].status = "Pending"
          /\ jobs'[k] \in Rows /\ jobs'[k].status = "InProgress"
          /\ \A j \in Keys \ {k} : jobs'[j] = jobs[j]
      BY <3>1, ClaimFacts DEF TypeOK
    <3>3. fpc = "next" /\ fpc' \in {"exists", "upload"}
      BY <3>1 DEF FGoto
    <3>4. UNCHANGED <<owed, spc, sjob>>
      BY <1>24 DEF NextTransfer, FOthers, storageVars
    <3> QED
      BY <3>1, <3>2, <3>3, <3>4, JobQueueAssumption DEF TypeOK, TransferTags,
         TransferHolds, StorageHolds, OwedKinds, UnfinishedIsOwed, OwedIsQueued,
         InProgressIsHeld, Held, Jobs, FWork, SWork, SClean, RequestTags
  <2>2. CASE FGoto("next", "wait") /\ UNCHANGED <<jobs, fjob>>
    <3>1. UNCHANGED <<owed, spc, sjob>>
      BY <1>24 DEF NextTransfer, FOthers, storageVars
    <3> QED
      BY <2>2, <3>1 DEF FGoto, TransferHolds, StorageHolds, OwedKinds,
         UnfinishedIsOwed, OwedIsQueued, InProgressIsHeld, Held, Jobs, FWork,
         SWork, SClean, RequestTags
  <2> QED
    BY <1>24, <2>1, <2>2 DEF NextTransfer
<1>25. ASSUME NextDelete
      PROVE  QueueInv'
  <2>1. CASE \E k \in Jobs({"Delete"}, {"Pending"}) :
              SGoto("next", "remove") /\ Claim(k) /\ sjob' = k
    <3>1. PICK k \in Jobs({"Delete"}, {"Pending"}) :
              SGoto("next", "remove") /\ Claim(k) /\ sjob' = k
      BY <2>1
    <3>2. /\ k \in Keys /\ k.tag \in {"Delete"}
          /\ jobs[k] \in Rows /\ jobs[k].status = "Pending"
          /\ jobs'[k] \in Rows /\ jobs'[k].status = "InProgress"
          /\ \A j \in Keys \ {k} : jobs'[j] = jobs[j]
      BY <3>1, ClaimFacts DEF TypeOK
    <3>3. spc = "next" /\ spc' \in {"remove"}
      BY <3>1 DEF SGoto
    <3>4. UNCHANGED <<owed, fpc, fjob>>
      BY <1>25 DEF NextDelete, SOthers, transferVars
    <3> QED
      BY <3>1, <3>2, <3>3, <3>4, JobQueueAssumption DEF TypeOK, TransferTags,
         TransferHolds, StorageHolds, OwedKinds, UnfinishedIsOwed, OwedIsQueued,
         InProgressIsHeld, Held, Jobs, FWork, SWork, SClean, RequestTags
  <2>2. CASE SGoto("next", "due") /\ UNCHANGED <<jobs, sjob>>
    <3>1. UNCHANGED <<owed, fpc, fjob>>
      BY <1>25 DEF NextDelete, SOthers, transferVars
    <3> QED
      BY <2>2, <3>1 DEF SGoto, TransferHolds, StorageHolds, OwedKinds,
         UnfinishedIsOwed, OwedIsQueued, InProgressIsHeld, Held, Jobs, FWork,
         SWork, SClean, RequestTags
  <2> QED
    BY <1>25, <2>1, <2>2 DEF NextDelete
<1>26. ASSUME NextCleanUp
      PROVE  QueueInv'
  <2>1. CASE \E k \in DueCleanUps :
              SGoto("due", "clean") /\ Claim(k) /\ sjob' = k
    <3>1. PICK k \in DueCleanUps :
              SGoto("due", "clean") /\ Claim(k) /\ sjob' = k
      BY <2>1
    <3>2. /\ k \in Keys /\ k.tag \in {"CleanUp"}
          /\ jobs[k] \in Rows /\ jobs[k].status = "Pending"
          /\ jobs'[k] \in Rows /\ jobs'[k].status = "InProgress"
          /\ \A j \in Keys \ {k} : jobs'[j] = jobs[j]
      BY <3>1, ClaimFacts DEF TypeOK, DueCleanUps
    <3>3. spc = "due" /\ spc' \in {"clean"}
      BY <3>1 DEF SGoto
    <3>4. UNCHANGED <<owed, fpc, fjob>>
      BY <1>26 DEF NextCleanUp, SOthers, transferVars
    <3> QED
      BY <3>1, <3>2, <3>3, <3>4, JobQueueAssumption DEF TypeOK, TransferTags,
         TransferHolds, StorageHolds, OwedKinds, UnfinishedIsOwed, OwedIsQueued,
         InProgressIsHeld, Held, Jobs, FWork, SWork, SClean, RequestTags
  <2>2. CASE SGoto("due", "contains") /\ UNCHANGED <<jobs, sjob>>
    <3>1. UNCHANGED <<owed, fpc, fjob>>
      BY <1>26 DEF NextCleanUp, SOthers, transferVars
    <3> QED
      BY <2>2, <3>1 DEF SGoto, TransferHolds, StorageHolds, OwedKinds,
         UnfinishedIsOwed, OwedIsQueued, InProgressIsHeld, Held, Jobs, FWork,
         SWork, SClean, RequestTags
  <2> QED
    BY <1>26, <2>1, <2>2 DEF NextCleanUp
<1>27. ASSUME QueueCleanUp
      PROVE  QueueInv'
  <2>1. fjob \in Keys
    BY <1>27 DEF QueueCleanUp, FResult, FGoto, TransferHolds, FWork
  <2>2. /\ CleanUpKey(fjob.id) \in Keys /\ CleanUpKey(fjob.id).tag = "CleanUp"
        /\ NewRow(fjob.id, FALSE) \in Rows
    BY <2>1 DEF CleanUpKey, Keys, StorageTags, NewRow, Rows, JobStatus
  <2>3. \A j \in Keys : j.tag # "CleanUp" => jobs'[j] = jobs[j]
    BY <1>27, <2>2, InsertFacts DEF QueueCleanUp, TypeOK
  <2>4. \A j \in Keys : jobs[j] # NoJob => jobs'[j] = jobs[j]
    BY <1>27, <2>2, InsertFacts DEF QueueCleanUp, TypeOK
  <2> QED
    BY <1>27, <2>3, <2>4, JobQueueAssumption DEF QueueCleanUp, FResult, FGoto,
       storageVars, TransferTags, TypeOK, TransferHolds, StorageHolds,
       OwedKinds, UnfinishedIsOwed, OwedIsQueued, InProgressIsHeld, Held, Jobs,
       FWork, SWork, SClean, RequestTags
<1>28. ASSUME UpdateTransfer
      PROVE  QueueInv'
  <2>1. fjob \in Keys /\ jobs[fjob] \in Rows /\ fresult \in Finished /\ fjob \in owed
    BY <1>28, JobQueueAssumption DEF UpdateTransfer, FGoto, TransferHolds,
       FWork, TypeOK, Finished, UnfinishedIsOwed, RequestTags, TransferTags
  <2>2. /\ jobs'[fjob] \in Rows /\ jobs'[fjob].status = fresult
        /\ \A k \in Keys \ {fjob} : jobs'[k] = jobs[k]
    BY <1>28, <2>1, SetStatusFacts DEF UpdateTransfer, TypeOK, Finished,
       JobStatus
  <2> QED
    BY <1>28, <2>1, <2>2, JobQueueAssumption DEF UpdateTransfer, FGoto, FOthers,
       storageVars, Finished, TransferTags, TypeOK, TransferHolds, StorageHolds,
       OwedKinds, UnfinishedIsOwed, OwedIsQueued, InProgressIsHeld, Held, Jobs,
       FWork, SWork, SClean, RequestTags
<1>29. ASSUME UpdateDelete
      PROVE  QueueInv'
  <2>1. sjob \in Keys /\ jobs[sjob] \in Rows /\ sresult \in Finished /\ sjob \in owed
    BY <1>29, JobQueueAssumption DEF UpdateDelete, SGoto, StorageHolds, SWork,
       TypeOK, Finished, UnfinishedIsOwed, RequestTags, TransferTags
  <2>2. /\ jobs'[sjob] \in Rows /\ jobs'[sjob].status = sresult
        /\ \A k \in Keys \ {sjob} : jobs'[k] = jobs[k]
    BY <1>29, <2>1, SetStatusFacts DEF UpdateDelete, TypeOK, Finished, JobStatus
  <2> QED
    BY <1>29, <2>1, <2>2, JobQueueAssumption DEF UpdateDelete, SGoto, SOthers,
       transferVars, Finished, TransferTags, TypeOK, TransferHolds,
       StorageHolds, OwedKinds, UnfinishedIsOwed, OwedIsQueued,
       InProgressIsHeld, Held, Jobs, FWork, SWork, SClean, RequestTags
<1>30. ASSUME SendTransfer
      PROVE  QueueInv'
  BY <1>30 DEF SendTransfer, FGoto, FOthers, storageVars, TransferTags,
     Finished, TransferHolds, StorageHolds, OwedKinds, UnfinishedIsOwed,
     OwedIsQueued, InProgressIsHeld, Held, Jobs, FWork, SWork, SClean,
     RequestTags
<1>31. ASSUME SendDelete
      PROVE  QueueInv'
  BY <1>31 DEF SendDelete, SGoto, SOthers, transferVars, TransferTags, Finished,
     TransferHolds, StorageHolds, OwedKinds, UnfinishedIsOwed, OwedIsQueued,
     InProgressIsHeld, Held, Jobs, FWork, SWork, SClean, RequestTags
<1>32. ASSUME DeleteTransfer
      PROVE  QueueInv'
  <2>1. fjob \in Keys /\ fjob \notin owed
    BY <1>32 DEF DeleteTransfer, FGoto, TransferHolds, OwedKinds, RequestTags,
       TransferTags
  <2>2. jobs'[fjob] = NoJob /\ \A k \in Keys \ {fjob} : jobs'[k] = jobs[k]
    BY <1>32, <2>1, RemoveFacts DEF DeleteTransfer, TypeOK
  <2> QED
    BY <1>32, <2>1, <2>2, JobQueueAssumption DEF DeleteTransfer, FGoto, FOthers,
       storageVars, TransferTags, TypeOK, TransferHolds, StorageHolds,
       OwedKinds, UnfinishedIsOwed, OwedIsQueued, InProgressIsHeld, Held, Jobs,
       FWork, SWork, SClean, RequestTags
<1>33. ASSUME DeleteDelete
      PROVE  QueueInv'
  <2>1. sjob \in Keys /\ sjob \notin owed
    BY <1>33 DEF DeleteDelete, SGoto, StorageHolds, OwedKinds, RequestTags,
       TransferTags
  <2>2. jobs'[sjob] = NoJob /\ \A k \in Keys \ {sjob} : jobs'[k] = jobs[k]
    BY <1>33, <2>1, RemoveFacts DEF DeleteDelete, TypeOK
  <2> QED
    BY <1>33, <2>1, <2>2, JobQueueAssumption DEF DeleteDelete, SGoto, SOthers,
       transferVars, TransferTags, TypeOK, TransferHolds, StorageHolds,
       OwedKinds, UnfinishedIsOwed, OwedIsQueued, InProgressIsHeld, Held, Jobs,
       FWork, SWork, SClean, RequestTags
<1>34. ASSUME DeleteCleanUp
      PROVE  QueueInv'
  <2>1. sjob \in Keys /\ sjob \notin owed
    BY <1>34 DEF DeleteCleanUp, SGoto, StorageHolds, SClean, OwedKinds,
       RequestTags, TransferTags
  <2>2. jobs'[sjob] = NoJob /\ \A k \in Keys \ {sjob} : jobs'[k] = jobs[k]
    BY <1>34, <2>1, RemoveFacts DEF DeleteCleanUp, TypeOK
  <2> QED
    BY <1>34, <2>1, <2>2, JobQueueAssumption DEF DeleteCleanUp, SGoto, SOthers,
       transferVars, TransferTags, TypeOK, TransferHolds, StorageHolds,
       OwedKinds, UnfinishedIsOwed, OwedIsQueued, InProgressIsHeld, Held, Jobs,
       FWork, SWork, SClean, RequestTags
<1>35. ASSUME NEW r \in Requests, Receive(r)
      PROVE  QueueInv'
  <2>1. /\ r.key \in Keys /\ r.key.tag \in RequestTags /\ NewRow(r.file, r.ttl) \in Rows
        /\ NewRow(r.file, r.ttl).status = "Pending"
    BY FileJobsAssumption DEF Keys, TransferTags, StorageTags, RequestTags,
       NewRow, Rows, JobStatus
  <2>2. CASE UNCHANGED queueVars
    BY <1>35, <2>2 DEF Receive, queueVars, transferVars, storageVars,
       TransferHolds, StorageHolds, OwedKinds, UnfinishedIsOwed, OwedIsQueued,
       InProgressIsHeld, Held, Jobs, FWork, SWork, SClean, RequestTags
  <2>3. CASE /\ Insert(r.key, NewRow(r.file, r.ttl))
             /\ owed' = IF jobs[r.key] = NoJob THEN owed \cup {r.key} ELSE owed
    <3>1. /\ jobs'[r.key] = IF jobs[r.key] = NoJob THEN NewRow(r.file, r.ttl) ELSE jobs[r.key]
          /\ \A j \in Keys \ {r.key} : jobs'[j] = jobs[j]
      BY <2>1, <2>3, InsertFacts DEF TypeOK
    <3> QED
      BY <1>35, <2>1, <2>3, <3>1, JobQueueAssumption DEF Receive, transferVars,
         storageVars, TypeOK, TransferHolds, StorageHolds, OwedKinds,
         UnfinishedIsOwed, OwedIsQueued, InProgressIsHeld, Held, Jobs, FWork,
         SWork, SClean, RequestTags
  <2> QED
    BY <1>35, <2>2, <2>3 DEF Receive
<1>36. ASSUME NEW w \in notifying, Notify(w)
      PROVE  QueueInv'
  BY <1>36 DEF Notify, queueVars, transferVars, storageVars, TransferHolds,
     StorageHolds, OwedKinds, UnfinishedIsOwed, OwedIsQueued, InProgressIsHeld,
     Held, Jobs, FWork, SWork, SClean
<1>37. ASSUME NEW k \in Keys, Elapse(k)
      PROVE  QueueInv'
  <2>1. /\ k.tag = "CleanUp" /\ jobs[k] \in Rows /\ jobs'[k] \in Rows
        /\ jobs'[k].status = jobs[k].status
        /\ \A j \in Keys \ {k} : jobs'[j] = jobs[j]
    BY <1>37, ElapseFacts DEF TypeOK
  <2>2. UNCHANGED <<owed, fpc, fjob, spc, sjob>>
    BY <1>37 DEF Elapse, transferVars, storageVars
  <2>3. \A j \in Keys :
            /\ jobs[j] \in Rows => jobs'[j] \in Rows /\ jobs'[j].status = jobs[j].status
            /\ jobs[j] = NoJob <=> jobs'[j] = NoJob
    BY <2>1, JobQueueAssumption
  <2>4. TransferHolds' /\ StorageHolds'
    BY <2>2, <2>3 DEF TransferHolds, StorageHolds, FWork, SWork, SClean
  <2>5. OwedKinds' /\ OwedIsQueued'
    BY <2>2, <2>3 DEF OwedKinds, OwedIsQueued, TypeOK
  <2>6. UnfinishedIsOwed'
    BY <2>2, <2>3 DEF UnfinishedIsOwed, TypeOK, JobQueueTypeOK
  <2>7. InProgressIsHeld'
    BY <2>2, <2>3 DEF InProgressIsHeld, Held, Jobs, TypeOK, JobQueueTypeOK
  <2> QED
    BY <2>4, <2>5, <2>6, <2>7
<1>38. ASSUME Restart
      PROVE  QueueInv'
  <2>1. \A k \in Keys :
            /\ jobs[k] = NoJob <=> jobs'[k] = NoJob
            /\ jobs[k] # NoJob => jobs'[k].status # "InProgress"
            /\ jobs[k] # NoJob /\ jobs'[k].status = "Pending"
                 => jobs[k].status \in {"Pending", "InProgress"}
    BY <1>38, ResetFacts DEF Restart, TypeOK
  <2> QED
    BY <1>38, <2>1 DEF Restart, TypeOK, TransferHolds, StorageHolds, OwedKinds,
       UnfinishedIsOwed, OwedIsQueued, InProgressIsHeld, Held, Jobs, FWork,
       SWork, SClean, RequestTags
<1>39. CASE UNCHANGED vars
  BY <1>39 DEF vars, queueVars, transferVars, storageVars, TransferHolds,
     StorageHolds, OwedKinds, UnfinishedIsOwed, OwedIsQueued, InProgressIsHeld,
     Held, Jobs, FWork, SWork, SClean
<1> QED
  BY <1>1, <1>2, <1>3, <1>4, <1>5, <1>6, <1>7, <1>8, <1>9, <1>10, <1>11, <1>12,
     <1>13, <1>14, <1>15, <1>16, <1>17, <1>18, <1>19, <1>20, <1>21, <1>22,
     <1>23, <1>24, <1>25, <1>26, <1>27, <1>28, <1>29, <1>30, <1>31, <1>32,
     <1>33, <1>34, <1>35, <1>36, <1>37, <1>38, <1>39 DEF Next, TransferStep,
     StorageStep

-----------------------------------------------------------------------------
(* The files.                                                              *)

(* What finalize and extract wrote is whole until the job is finished,     *)
(* though StorageTask may remove it.                                       *)
LEMMA WholeStep ==
    ASSUME TypeOK, QueueInv, WholeFromQuota, [Next]_vars
    PROVE  WholeFromQuota'
<1>1. ASSUME FtInit
      PROVE  WholeFromQuota'
  BY <1>1 DEF FtInit, FGoto, FResult, FOthers, WholeFromQuota
<1>2. ASSUME FetchProps
      PROVE  WholeFromQuota'
  BY <1>2 DEF FetchProps, FGoto, FResult, FOthers, WholeFromQuota
<1>3. ASSUME ListStore
      PROVE  WholeFromQuota'
  BY <1>3 DEF ListStore, FGoto, FResult, FOthers, WholeFromQuota
<1>4. ASSUME SyncFile
      PROVE  WholeFromQuota'
  BY <1>4 DEF SyncFile, FGoto, FResult, FOthers, WholeFromQuota
<1>5. ASSUME SyncUnset
      PROVE  WholeFromQuota'
  BY <1>5 DEF SyncUnset, FGoto, FResult, FOthers, WholeFromQuota
<1>6. ASSUME SyncEnd
      PROVE  WholeFromQuota'
  BY <1>6 DEF SyncEnd, FGoto, FResult, FOthers, WholeFromQuota
<1>7. ASSUME NextTransfer
      PROVE  WholeFromQuota'
  BY <1>7 DEF NextTransfer, FGoto, FResult, FOthers, WholeFromQuota
<1>8. ASSUME WaitTransfer
      PROVE  WholeFromQuota'
  BY <1>8 DEF WaitTransfer, FGoto, FResult, FOthers, WholeFromQuota, fileVars
<1>9. ASSUME Upload
      PROVE  WholeFromQuota'
  BY <1>9 DEF Upload, FGoto, FResult, FOthers, WholeFromQuota
<1>10. ASSUME CheckExists
      PROVE  WholeFromQuota'
  BY <1>10 DEF CheckExists, FGoto, FResult, FOthers, WholeFromQuota, FileExists
<1>11. ASSUME Open
      PROVE  WholeFromQuota'
  BY <1>11 DEF Open, FGoto, FResult, FOthers, WholeFromQuota
<1>12. ASSUME Download
      PROVE  WholeFromQuota'
  BY <1>12 DEF Download, FGoto, FResult, FOthers, WholeFromQuota
<1>13. ASSUME Finalize
      PROVE  WholeFromQuota'
  <2>1. fjob \in Keys /\ fjob.id \in Ids
    BY <1>13 DEF Finalize, FGoto, FResult, QueueInv, TransferHolds, FWork, Keys
  <2> QED
    BY <1>13, <2>1 DEF Finalize, FGoto, FResult, FOthers, WholeFromQuota,
       TypeOK, FilesTypeOK
<1>14. ASSUME Extract
      PROVE  WholeFromQuota'
  <2>1. fjob \in Keys /\ fjob.id \in Ids
    BY <1>14 DEF Extract, FGoto, FResult, QueueInv, TransferHolds, FWork, Keys
  <2> QED
    BY <1>14, <2>1 DEF Extract, FGoto, FResult, FOthers, WholeFromQuota, TypeOK,
       FilesTypeOK
<1>15. ASSUME Quota
      PROVE  WholeFromQuota'
  BY <1>15 DEF Quota, FGoto, FResult, FOthers, WholeFromQuota
<1>16. ASSUME Publish
      PROVE  WholeFromQuota'
  BY <1>16 DEF Publish, FGoto, FResult, FOthers, WholeFromQuota
<1>17. ASSUME QueueCleanUp
      PROVE  WholeFromQuota'
  BY <1>17 DEF QueueCleanUp, FGoto, FResult, FOthers, WholeFromQuota, fileVars
<1>18. ASSUME UpdateTransfer
      PROVE  WholeFromQuota'
  BY <1>18 DEF UpdateTransfer, FGoto, FResult, FOthers, WholeFromQuota
<1>19. ASSUME SendTransfer
      PROVE  WholeFromQuota'
  BY <1>19 DEF SendTransfer, FGoto, FResult, FOthers, WholeFromQuota
<1>20. ASSUME DeleteTransfer
      PROVE  WholeFromQuota'
  BY <1>20 DEF DeleteTransfer, FGoto, FResult, FOthers, WholeFromQuota
<1>21. ASSUME NextDelete
      PROVE  WholeFromQuota'
  BY <1>21 DEF NextDelete, SOthers, transferVars, fileVars, WholeFromQuota
<1>22. ASSUME RemoveStored
      PROVE  WholeFromQuota'
  <2>1. \A f \in Ids : store'[f] = store[f] \/ store'[f] \in {"absent", "damaged"}
    BY <1>22 DEF RemoveStored, SGoto, Deleted, NotDeleted, TypeOK, FilesTypeOK
  <2>2. UNCHANGED <<fpc, fjob, encoding>>
    BY <1>22 DEF RemoveStored, SOthers, transferVars
  <2>3. fpc \in FWork => fjob.id \in Ids
    BY DEF QueueInv, TransferHolds, Keys
  <2> QED
    BY <2>1, <2>2, <2>3 DEF WholeFromQuota, FWork
<1>23. ASSUME UnsetDeleted
      PROVE  WholeFromQuota'
  BY <1>23 DEF UnsetDeleted, SOthers, transferVars, fileVars, WholeFromQuota
<1>24. ASSUME UpdateDelete
      PROVE  WholeFromQuota'
  BY <1>24 DEF UpdateDelete, SOthers, transferVars, fileVars, WholeFromQuota
<1>25. ASSUME SendDelete
      PROVE  WholeFromQuota'
  BY <1>25 DEF SendDelete, SOthers, transferVars, fileVars, WholeFromQuota
<1>26. ASSUME DeleteDelete
      PROVE  WholeFromQuota'
  BY <1>26 DEF DeleteDelete, SOthers, transferVars, fileVars, WholeFromQuota
<1>27. ASSUME NextCleanUp
      PROVE  WholeFromQuota'
  BY <1>27 DEF NextCleanUp, SOthers, transferVars, fileVars, WholeFromQuota
<1>28. ASSUME CleanUp
      PROVE  WholeFromQuota'
  <2>1. \A f \in Ids : store'[f] = store[f] \/ store'[f] \in {"absent", "damaged"}
    BY <1>28 DEF CleanUp, SGoto, Deleted, NotDeleted, TypeOK, FilesTypeOK
  <2>2. UNCHANGED <<fpc, fjob, encoding>>
    BY <1>28 DEF CleanUp, SOthers, transferVars
  <2>3. fpc \in FWork => fjob.id \in Ids
    BY DEF QueueInv, TransferHolds, Keys
  <2> QED
    BY <2>1, <2>2, <2>3 DEF WholeFromQuota, FWork
<1>29. ASSUME UnsetCleaned
      PROVE  WholeFromQuota'
  BY <1>29 DEF UnsetCleaned, SOthers, transferVars, fileVars, WholeFromQuota
<1>30. ASSUME DeleteCleanUp
      PROVE  WholeFromQuota'
  BY <1>30 DEF DeleteCleanUp, SOthers, transferVars, fileVars, WholeFromQuota
<1>31. ASSUME CheckDeletes
      PROVE  WholeFromQuota'
  BY <1>31 DEF CheckDeletes, SOthers, transferVars, fileVars, WholeFromQuota
<1>32. ASSUME CheckSchedule
      PROVE  WholeFromQuota'
  BY <1>32 DEF CheckSchedule, SOthers, transferVars, fileVars, WholeFromQuota
<1>33. ASSUME WakeByPermit
      PROVE  WholeFromQuota'
  BY <1>33 DEF WakeByPermit, SOthers, transferVars, fileVars, WholeFromQuota
<1>34. ASSUME WakeByTime
      PROVE  WholeFromQuota'
  BY <1>34 DEF WakeByTime, SOthers, transferVars, fileVars, WholeFromQuota
<1>35. ASSUME NEW r \in Requests, Receive(r)
      PROVE  WholeFromQuota'
  BY <1>35 DEF Receive, transferVars, fileVars, WholeFromQuota
<1>36. ASSUME NEW w \in notifying, Notify(w)
      PROVE  WholeFromQuota'
  BY <1>36 DEF Notify, transferVars, fileVars, WholeFromQuota
<1>37. ASSUME NEW k \in Keys, Elapse(k)
      PROVE  WholeFromQuota'
  BY <1>37 DEF Elapse, transferVars, fileVars, WholeFromQuota
<1>38. ASSUME Restart
      PROVE  WholeFromQuota'
  BY <1>38 DEF Restart, WholeFromQuota
<1>39. ASSUME UNCHANGED vars
      PROVE  WholeFromQuota'
  BY <1>39 DEF vars, transferVars, fileVars, WholeFromQuota
<1> QED
  BY <1>1, <1>2, <1>3, <1>4, <1>5, <1>6, <1>7, <1>8, <1>9, <1>10, <1>11, <1>12,
     <1>13, <1>14, <1>15, <1>16, <1>17, <1>18, <1>19, <1>20, <1>21, <1>22,
     <1>23, <1>24, <1>25, <1>26, <1>27, <1>28, <1>29, <1>30, <1>31, <1>32,
     <1>33, <1>34, <1>35, <1>36, <1>37, <1>38, <1>39 DEF Next, TransferStep,
     StorageStep

(* Between the listing of the properties and the end of sync_stored_files  *)
(* files are only removed, so no file loses the property it was listed by. *)
LEMMA SyncStep ==
    ASSUME TypeOK, QueueInv, SyncInv, [Next]_vars
    PROVE  SyncInv'
<1> USE DEF SyncInv, Syncing
<1>s. /\ spc \in SWork \cup {"send", "delete"} =>
            sjob \in Keys /\ jobs[sjob] \in Rows /\ jobs[sjob].file \in Ids
      /\ spc \in SClean => sjob.id \in Ids
  BY DEF QueueInv, StorageHolds, Keys, Rows
<1>1. ASSUME FtInit
      PROVE  SyncInv'
  BY <1>1 DEF FtInit, FGoto, FOthers, queueVars, storageVars, TypeOK,
     FilesTypeOK
<1>2. ASSUME FetchProps
      PROVE  SyncInv'
  BY <1>2 DEF FetchProps, FGoto, FOthers, queueVars, storageVars, TypeOK,
     FilesTypeOK
<1>3. ASSUME ListStore
      PROVE  SyncInv'
  BY <1>3 DEF ListStore, FGoto, FOthers, queueVars, storageVars, TypeOK,
     FilesTypeOK
<1>4. ASSUME SyncFile
      PROVE  SyncInv'
  BY <1>4 DEF SyncFile, FGoto, FOthers, queueVars, storageVars, TypeOK,
     FilesTypeOK
<1>5. ASSUME SyncUnset
      PROVE  SyncInv'
  BY <1>5 DEF SyncUnset, FGoto, FOthers, queueVars, storageVars, TypeOK,
     FilesTypeOK
<1>6. ASSUME SyncEnd
      PROVE  SyncInv'
  BY <1>6 DEF SyncEnd, FGoto, FResult
<1>7. ASSUME NextTransfer
      PROVE  SyncInv'
  BY <1>7 DEF NextTransfer, FGoto, FResult
<1>8. ASSUME WaitTransfer
      PROVE  SyncInv'
  BY <1>8 DEF WaitTransfer, FGoto, FResult
<1>9. ASSUME Upload
      PROVE  SyncInv'
  BY <1>9 DEF Upload, FGoto, FResult
<1>10. ASSUME CheckExists
      PROVE  SyncInv'
  BY <1>10 DEF CheckExists, FGoto, FResult
<1>11. ASSUME Open
      PROVE  SyncInv'
  BY <1>11 DEF Open, FGoto, FResult
<1>12. ASSUME Download
      PROVE  SyncInv'
  BY <1>12 DEF Download, FGoto, FResult
<1>13. ASSUME Finalize
      PROVE  SyncInv'
  BY <1>13 DEF Finalize, FGoto, FResult
<1>14. ASSUME Extract
      PROVE  SyncInv'
  BY <1>14 DEF Extract, FGoto, FResult
<1>15. ASSUME Quota
      PROVE  SyncInv'
  BY <1>15 DEF Quota, FGoto, FResult
<1>16. ASSUME Publish
      PROVE  SyncInv'
  BY <1>16 DEF Publish, FGoto, FResult
<1>17. ASSUME QueueCleanUp
      PROVE  SyncInv'
  BY <1>17 DEF QueueCleanUp, FGoto, FResult
<1>18. ASSUME UpdateTransfer
      PROVE  SyncInv'
  BY <1>18 DEF UpdateTransfer, FGoto, FResult
<1>19. ASSUME SendTransfer
      PROVE  SyncInv'
  BY <1>19 DEF SendTransfer, FGoto, FResult
<1>20. ASSUME DeleteTransfer
      PROVE  SyncInv'
  BY <1>20 DEF DeleteTransfer, FGoto, FResult
<1>21. ASSUME NextDelete
      PROVE  SyncInv'
  BY <1>21 DEF NextDelete, SGoto, SOthers, transferVars, fileVars, queueVars
<1>22. ASSUME RemoveStored
      PROVE  SyncInv'
  <2>1. /\ \A f \in Ids : store'[f] # "absent" => store[f] # "absent"
        /\ spc' = "unset" => store'[jobs[sjob].file] = "absent"
        /\ spc' = "cleanUnset" => store'[sjob.id] = "absent"
    BY <1>22, <1>s DEF RemoveStored, SGoto, Deleted, NotDeleted, SWork, SClean,
       TypeOK, FilesTypeOK
  <2>2. spc' \in {"unset", "cleanUnset"} => UNCHANGED sjob
    BY <1>22 DEF RemoveStored, SGoto
  <2>3. UNCHANGED <<fpc, listed, found, props, queueVars>>
    BY <1>22 DEF RemoveStored, SOthers, transferVars
  <2> QED
    BY <2>1, <2>2, <2>3 DEF queueVars, TypeOK
<1>23. ASSUME UnsetDeleted
      PROVE  SyncInv'
  BY <1>23, <1>s DEF UnsetDeleted, SGoto, Unset, SOthers, transferVars,
     queueVars, SWork, SClean
<1>24. ASSUME UpdateDelete
      PROVE  SyncInv'
  BY <1>24 DEF UpdateDelete, SGoto, SOthers, transferVars, fileVars, queueVars
<1>25. ASSUME SendDelete
      PROVE  SyncInv'
  BY <1>25 DEF SendDelete, SGoto, SOthers, transferVars, fileVars, queueVars
<1>26. ASSUME DeleteDelete
      PROVE  SyncInv'
  BY <1>26 DEF DeleteDelete, SGoto, SOthers, transferVars, fileVars, queueVars
<1>27. ASSUME NextCleanUp
      PROVE  SyncInv'
  BY <1>27 DEF NextCleanUp, SGoto, SOthers, transferVars, fileVars, queueVars
<1>28. ASSUME CleanUp
      PROVE  SyncInv'
  <2>1. /\ \A f \in Ids : store'[f] # "absent" => store[f] # "absent"
        /\ spc' = "unset" => store'[jobs[sjob].file] = "absent"
        /\ spc' = "cleanUnset" => store'[sjob.id] = "absent"
    BY <1>28, <1>s DEF CleanUp, SGoto, Deleted, NotDeleted, SWork, SClean,
       TypeOK, FilesTypeOK
  <2>2. spc' \in {"unset", "cleanUnset"} => UNCHANGED sjob
    BY <1>28 DEF CleanUp, SGoto
  <2>3. UNCHANGED <<fpc, listed, found, props, queueVars>>
    BY <1>28 DEF CleanUp, SOthers, transferVars
  <2> QED
    BY <2>1, <2>2, <2>3 DEF queueVars, TypeOK
<1>29. ASSUME UnsetCleaned
      PROVE  SyncInv'
  BY <1>29, <1>s DEF UnsetCleaned, SGoto, Unset, SOthers, transferVars,
     queueVars, SWork, SClean
<1>30. ASSUME DeleteCleanUp
      PROVE  SyncInv'
  BY <1>30 DEF DeleteCleanUp, SGoto, SOthers, transferVars, fileVars, queueVars
<1>31. ASSUME CheckDeletes
      PROVE  SyncInv'
  BY <1>31 DEF CheckDeletes, SGoto, SOthers, transferVars, fileVars, queueVars
<1>32. ASSUME CheckSchedule
      PROVE  SyncInv'
  BY <1>32 DEF CheckSchedule, SGoto, SOthers, transferVars, fileVars, queueVars
<1>33. ASSUME WakeByPermit
      PROVE  SyncInv'
  BY <1>33 DEF WakeByPermit, SGoto, SOthers, transferVars, fileVars, queueVars
<1>34. ASSUME WakeByTime
      PROVE  SyncInv'
  BY <1>34 DEF WakeByTime, SGoto, SOthers, transferVars, fileVars, queueVars
<1>35. ASSUME NEW r \in Requests, Receive(r)
      PROVE  SyncInv'
  <2>1. r.key \in Keys /\ NewRow(r.file, r.ttl) \in Rows
    BY FileJobsAssumption DEF Keys, TransferTags, StorageTags, NewRow, Rows,
       JobStatus
  <2>2. spc = "unset" => jobs'[sjob] = jobs[sjob]
    BY <1>35, <2>1, <1>s, InsertFacts, JobQueueAssumption DEF Receive,
       queueVars, SWork, TypeOK
  <2> QED
    BY <1>35, <2>2 DEF Receive, transferVars, storageVars, fileVars
<1>36. ASSUME NEW w \in notifying, Notify(w)
      PROVE  SyncInv'
  BY <1>36 DEF Notify, transferVars, storageVars, fileVars, queueVars
<1>37. ASSUME NEW k \in Keys, Elapse(k)
      PROVE  SyncInv'
  <2>1. spc = "unset" => jobs'[sjob].file = jobs[sjob].file
    BY <1>37, <1>s, ElapseFacts DEF SWork, TypeOK
  <2> QED
    BY <1>37, <2>1 DEF Elapse, transferVars, storageVars, fileVars
<1>38. ASSUME Restart
      PROVE  SyncInv'
  BY <1>38 DEF Restart
<1>39. ASSUME UNCHANGED vars
      PROVE  SyncInv'
  BY <1>39 DEF vars, transferVars, storageVars, fileVars, queueVars
<1> QED
  BY <1>1, <1>2, <1>3, <1>4, <1>5, <1>6, <1>7, <1>8, <1>9, <1>10, <1>11, <1>12,
     <1>13, <1>14, <1>15, <1>16, <1>17, <1>18, <1>19, <1>20, <1>21, <1>22,
     <1>23, <1>24, <1>25, <1>26, <1>27, <1>28, <1>29, <1>30, <1>31, <1>32,
     <1>33, <1>34, <1>35, <1>36, <1>37, <1>38, <1>39 DEF Next, TransferStep,
     StorageStep

-----------------------------------------------------------------------------
(* Theorems.                                                               *)

(* The runtime starts with an empty queue.                                 *)
LEMMA InitIInv == Init => IInv
<1> SUFFICES ASSUME Init PROVE IInv
  OBVIOUS
<1>1. JobQueueTypeOK
  BY DEF Init, JobQueueTypeOK
<1>2. transferPermit \in BOOLEAN /\ storagePermit \in BOOLEAN
  BY Zenon DEF Init, ProcessInit
<1>3. TypeOK
  BY <1>1, <1>2, FileJobsAssumption DEF Init, ProcessInit, TypeOK, FilesTypeOK,
     FileStates
<1>4. QueueInv
  BY DEF Init, ProcessInit, QueueInv, TransferHolds, StorageHolds, OwedKinds,
     UnfinishedIsOwed, OwedIsQueued, InProgressIsHeld, Held, Jobs, FWork, SWork,
     SClean
<1>5. WholeFromQuota /\ SyncInv
  BY DEF Init, ProcessInit, WholeFromQuota, SyncInv, Syncing
<1> QED
  BY <1>3, <1>4, <1>5 DEF IInv

(* IInv is an inductive invariant.                                         *)
THEOREM Invariance == Spec => []IInv
<1>1. Init => IInv
  BY InitIInv
<1>2. IInv /\ [Next]_vars => IInv'
  BY TypeStep, QueueStep, WholeStep, SyncStep DEF IInv, QueueInv
<1> QED
  BY <1>1, <1>2, PTL DEF Spec

(* The state of the tasks, of the queue and of the file store keeps its    *)
(* types.                                                                  *)
THEOREM TypeCorrect == Spec => []TypeOK
<1>1. IInv => TypeOK
  BY DEF IInv
<1> QED
  BY <1>1, Invariance, PTL

(* An accepted job stays in the queue until its answer is sent, through    *)
(* any number of restarts: job_done and job_error delete it only after.    *)
THEOREM NoRequestLost == Spec => []OwedIsQueued
<1>1. IInv => OwedIsQueued
  BY DEF IInv, QueueInv
<1> QED
  BY <1>1, Invariance, PTL

(* A job is answered at most once: its status is stored before the answer  *)
(* is sent, so init does not make it pending again.                        *)
THEOREM AtMostOneAnswer == Spec => []AnsweredOnce
<1>1. IInv => AnsweredOnce
  BY DEF IInv, QueueInv, TransferHolds, StorageHolds, AnsweredOnce
<1> QED
  BY <1>1, Invariance, PTL

(* A request is in progress only while its task works on it.               *)
THEOREM InProgressHeld == Spec => []InProgressIsHeld
<1>1. IInv => InProgressIsHeld
  BY DEF IInv, QueueInv
<1> QED
  BY <1>1, Invariance, PTL

(* A download of one file that was accepted is not left half written.      *)
THEOREM DownloadIsWhole == Spec => []DoneIsWhole
<1>1. IInv => DoneIsWhole
  BY DEF IInv, WholeFromQuota, DoneIsWhole
<1> QED
  BY <1>1, Invariance, PTL

(* At the end of sync_stored_files every stored file has a property,       *)
(* whatever StorageTask removed since the properties were listed.          *)
THEOREM SyncComplete == Spec => SyncListsAll
<1>1. IInv /\ [Next]_vars
        => [SyncEnd => \A f \in Ids : store[f] # "absent" => f \in props]_vars
  <2> SUFFICES ASSUME IInv, SyncEnd
               PROVE  \A f \in Ids : store[f] # "absent" => f \in props
    OBVIOUS
  <2> QED
    BY DEF IInv, SyncInv, SyncEnd, FGoto
<1> QED
  BY <1>1, Invariance, PTL DEF Spec, SyncListsAll

=============================================================================
