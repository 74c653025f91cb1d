------------------------------ MODULE JobQueue ------------------------------
(***************************************************************************)
(* The persistent job queue, src/src/jobs/mod.rs: the table job_queue of   *)
(* the sqlite store, shared by the receivers, which insert the requests of *)
(* the server, and by the two tasks that work on them.  Every operator is  *)
(* one transaction.                                                        *)
(*                                                                         *)
(* A timestamp is abstracted to what the queue asks of it: whether it is   *)
(* past.  created_at has a resolution of one second and decides only the   *)
(* order, which is left open.                                              *)
(***************************************************************************)
CONSTANTS
    Ids,      \* the uuids of requests and files
    NoJob     \* no row

VARIABLE jobs \* the rows of job_queue, by their primary key

TransferTags == {"Download", "Upload"}
StorageTags == {"CleanUp", "Delete"}

(* The tag determines the job type: FileTransfer or FileStorage.           *)
Keys == [id : Ids, tag : TransferTags \cup StorageTags]

JobStatus == {"Pending", "InProgress", "Done", "Error"}

(* file is the stored file that the job is about, ttl whether the download *)
(* has a time to live, due whether schedule_at is past.                    *)
Rows == [status : JobStatus, file : Ids, ttl : BOOLEAN, due : BOOLEAN]

ASSUME JobQueueAssumption == NoJob \notin Rows

JobQueueTypeOK == jobs \in [Keys -> Rows \cup {NoJob}]

(* The rows with one of these tags and statuses.                           *)
Jobs(tags, statuses) ==
    {k \in Keys : k.tag \in tags /\ jobs[k] # NoJob /\ jobs[k].status \in statuses}

NewRow(file, ttl) ==
    [status |-> "Pending", file |-> file, ttl |-> ttl, due |-> FALSE]

(* insert_job does nothing on a conflict, insert_if_missing tells whether  *)
(* there was none.                                                         *)
Insert(k, row) ==
    jobs' = IF jobs[k] = NoJob THEN [jobs EXCEPT ![k] = row] ELSE jobs

(* Mutants: every job is taken again; no job is.                           *)
ResetAll ==
    jobs' = [k \in Keys |->
               IF jobs[k] # NoJob THEN [jobs[k] EXCEPT !.status = "Pending"] ELSE NoJob]
ResetNone == UNCHANGED jobs

(* init, when the runtime starts.                                          *)
ResetInProgress ==
    jobs' = [k \in Keys |->
               IF jobs[k] # NoJob /\ jobs[k].status = "InProgress"
               THEN [jobs[k] EXCEPT !.status = "Pending"] ELSE jobs[k]]

(* update.                                                                 *)
SetStatus(k, status) ==
    jobs' = IF jobs[k] # NoJob THEN [jobs EXCEPT ![k].status = status] ELSE jobs

(* next_job, next_job_tag and next_scheduled_job take a pending job.       *)
Claim(k) == SetStatus(k, "InProgress")

(* delete.                                                                 *)
Remove(k) == jobs' = [jobs EXCEPT ![k] = NoJob]
=============================================================================
