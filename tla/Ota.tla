--------------------------------- MODULE Ota ---------------------------------
(***************************************************************************)
(* The over-the-air update component.                                      *)
(*                                                                         *)
(*   OtaHandler    src/src/ota/ota_handler.rs, run by the controller task, *)
(*                 one event at a time                                     *)
(*   Ota           src/src/ota/mod.rs, the actor that drives an update     *)
(*   OtaPublisher  src/src/ota/ota_handler.rs, the actor that sends the    *)
(*                 OTAEvents                                               *)
(*                                                                         *)
(* The three share two bounded channels and the `in progress' flag.  Every *)
(* step of a process here ends at an await of the code, so that the other  *)
(* processes, a crash, or a reboot may come between any two of them.       *)
(***************************************************************************)
EXTENDS Rauc, Sequences

CONSTANTS
    Urls,             \* download locations
    NoUrl,            \* the empty url
    Requests,         \* the OtaIds the server uses in its Update and Cancel requests
    Streaming,        \* OtaConfig::streaming
    ExternalReboot,   \* OtaConfig::reboot = External
    MaxOtaOperation,  \* capacity of the channel to the Ota task
    PubCapacity,      \* capacity of the channel to the publisher
    MaxAttempts,      \* download attempts
    Torn,             \* content of a state file whose write did not finish
    MaxUpdates,       \* bound: Update requests accepted in a behaviour
    MaxFaults         \* bound: crashes, power losses and failed removals

OtaIds == [uuid : Uuids, url : Urls \cup {NoUrl}]

ASSUME OtaAssumption ==
    /\ Requests \subseteq OtaIds
    /\ Streaming \in BOOLEAN
    /\ ExternalReboot \in BOOLEAN
    /\ MaxOtaOperation \in Nat \ {0}
    /\ PubCapacity \in Nat \ {0}
    /\ MaxAttempts \in Nat \ {0}
    /\ MaxUpdates \in Nat
    /\ MaxFaults \in Nat
    /\ None \notin OtaIds
    /\ Torn # None
    /\ {None, Torn} \cap [uuid : Uuids, slot : Slots] = {}

VARIABLES
    \* OtaHandler, in the controller task
    hpc,          \* "recv", "send", "publish" or "reboot"
    hout,         \* what the handler is about to send
    current,      \* OtaHandler::current: an OtaMessage or None
    flag,         \* OtaInProgress, shared with the Ota task
    \* channels and cancellation tokens
    otaQ,         \* OtaMessages for the Ota task
    pubQ,         \* OtaStatuses for the publisher
    issued,       \* number of tokens created so far
    cancelled,    \* the tokens that were cancelled
    \* Ota task
    tpc,          \* where the task is
    status,       \* Ota::ota_status
    token,        \* the token of the message being handled, 0 after a restart
    checkCancel,  \* local check_cancel of handle_ota_update
    tries,        \* download attempts that failed
    \* the device
    stateFile,    \* state.json: None, Torn or a PersistentState
    shutdown,     \* `shutdown -r now' was run
    \* history
    doomed,       \* tokens cancelled while their update could still be cancelled
    dirty,        \* when stateFile was written, the device was not Settled
    undeleted,    \* the last removal of stateFile failed
    faults        \* crashes, power losses and failed removals so far

handlerVars == <<hpc, hout, current>>
tokenVars   == <<issued, cancelled, doomed>>
taskVars    == <<tpc, status, token, checkCancel, tries>>
fileVars    == <<stateFile, dirty, undeleted>>
vars == <<handlerVars, flag, otaQ, pubQ, tokenVars, taskVars, fileVars,
          shutdown, faults, raucVars>>

-----------------------------------------------------------------------------
(* OtaStatus.  The percentage and the message of a status are left out.    *)

Tags == {"Idle", "Init", "NoPendingOta", "Acknowledged", "Downloading",
         "Deploying", "Deployed", "Rebooting", "Rebooted", "Success",
         "Error", "Failure"}

Errors == {"none", "UpdateAlreadyInProgress", "Network", "Io", "Internal",
           "InvalidBaseImage", "SystemRollback", "Canceled"}

Statuses == [tag : Tags, id : OtaIds \cup {None}, err : Errors]

Messages == [id : OtaIds, token : 1..MaxUpdates]

PersistentStates == [uuid : Uuids, slot : Slots]

St(tag, id) == [tag |-> tag, id |-> id, err |-> "none"]

Failure(err, id) == [tag |-> "Failure", id |-> id, err |-> err]

DownloadFailed(err, id) == [tag |-> "Error", id |-> id, err |-> err]

Idle == St("Idle", None)

(* OtaStatus::is_cancellable *)
IsCancellable(st) == st.tag \in {"Init", "Acknowledged", "Downloading"}

TypeOK ==
    /\ RaucTypeOK
    /\ hpc \in {"recv", "send", "publish", "reboot"}
    /\ hpc = "send" => hout \in Messages
    /\ hpc = "publish" => hout \in Statuses
    /\ current \in Messages \cup {None}
    /\ flag \in BOOLEAN
    /\ otaQ \in Seq(Messages) /\ Len(otaQ) <= MaxOtaOperation
    /\ pubQ \in Seq(Statuses) /\ Len(pubQ) <= PubCapacity
    /\ issued \in 0..MaxUpdates
    /\ cancelled \subseteq 1..MaxUpdates
    /\ doomed \subseteq cancelled
    /\ tpc \in {"init", "recv", "loop", "publish", "step", "download", "sleep",
                "write", "install", "subscribe", "wait", "reboot", "final",
                "clear", "dead"}
    /\ status \in Statuses
    /\ token \in 0..MaxUpdates
    /\ checkCancel \in BOOLEAN
    /\ tries \in 0..MaxAttempts
    /\ stateFile \in PersistentStates \cup {None, Torn}
    /\ shutdown \in BOOLEAN
    /\ dirty \in BOOLEAN
    /\ undeleted \in BOOLEAN
    /\ faults \in 0..MaxFaults

-----------------------------------------------------------------------------
(* The processes start, or start again: what is in memory is lost.         *)

ProcessInit ==
    /\ hpc = "recv" /\ hout = None /\ current = None
    /\ flag = FALSE
    /\ otaQ = <<>> /\ pubQ = <<>>
    /\ cancelled = {} /\ doomed = {}
    /\ tpc = "init" /\ status = Idle /\ token = 0
    /\ checkCancel = TRUE /\ tries = 0

Init ==
    /\ RaucInit
    /\ ProcessInit
    /\ issued = 0
    /\ stateFile = None /\ dirty = FALSE /\ undeleted = FALSE
    /\ shutdown = FALSE
    /\ faults = 0

ProcessRestart ==
    /\ hpc' = "recv" /\ hout' = None /\ current' = None
    /\ flag' = FALSE
    /\ otaQ' = <<>> /\ pubQ' = <<>>
    /\ cancelled' = {} /\ doomed' = {}
    /\ tpc' = "init" /\ status' = Idle /\ token' = 0
    /\ checkCancel' = TRUE /\ tries' = 0

-----------------------------------------------------------------------------
(* OtaHandler.  An Update for the id that is in progress, and a Reboot     *)
(* command while the flag is set, change nothing and are left out.         *)

IsCurrent(id) == current # None /\ current.id = id

(* check_update_already_in_progress answers TRUE for another id.           *)
RejectUpdate(id) ==
    /\ hpc = "recv"
    /\ current # None /\ flag /\ ~IsCurrent(id)
    /\ hpc' = "publish"
    /\ hout' = Failure("UpdateAlreadyInProgress", id)
    /\ UNCHANGED <<current, flag, otaQ, pubQ, tokenVars, taskVars, fileVars,
                   shutdown, faults, raucVars>>

(* ... and FALSE, forgetting a current update that has ended: the update   *)
(* is accepted.                                                            *)
AcceptUpdate(id) ==
    /\ hpc = "recv"
    /\ current = None \/ ~flag
    /\ issued < MaxUpdates
    /\ current' = None
    /\ flag' = TRUE
    /\ issued' = issued + 1
    /\ hpc' = "send"
    /\ hout' = [id |-> id, token |-> issued + 1]
    /\ UNCHANGED <<otaQ, pubQ, cancelled, doomed, taskVars, fileVars,
                   shutdown, faults, raucVars>>

(* Mutant of SendUpdate: a channel without a bound.                        *)
SendUpdateUnbounded ==
    /\ hpc = "send"
    /\ otaQ' = Append(otaQ, hout)
    /\ current' = hout
    /\ hpc' = "recv" /\ hout' = None
    /\ UNCHANGED <<flag, pubQ, tokenVars, taskVars, fileVars, shutdown,
                   faults, raucVars>>

(* ota_tx.send(..).await: waits while the channel is full.                 *)
SendUpdate ==
    /\ hpc = "send"
    /\ Len(otaQ) < MaxOtaOperation
    /\ otaQ' = Append(otaQ, hout)
    /\ current' = hout
    /\ hpc' = "recv" /\ hout' = None
    /\ UNCHANGED <<flag, pubQ, tokenVars, taskVars, fileVars, shutdown,
                   faults, raucVars>>

(* A cancellation of token t is in time: the update waits in the channel,  *)
(* or the task is in a cancellable status and does not wait for an answer  *)
(* to its download.  If it does, the answer and the cancellation race.     *)
StillCancellable(t) ==
    t # token \/ tpc = "recv" \/ (IsCancellable(status) /\ tpc # "download")

CancelUpdate(id) ==
    /\ hpc = "recv"
    /\ IsCurrent(id)
    /\ cancelled' = cancelled \cup {current.token}
    /\ doomed' = IF StillCancellable(current.token)
                 THEN doomed \cup {current.token} ELSE doomed
    /\ current' = None
    /\ UNCHANGED <<hpc, hout, flag, otaQ, pubQ, issued, taskVars, fileVars,
                   shutdown, faults, raucVars>>

RejectCancel(id) ==
    /\ hpc = "recv"
    /\ ~IsCurrent(id)
    /\ hpc' = "publish"
    /\ hout' = Failure("Internal", id)
    /\ UNCHANGED <<current, flag, otaQ, pubQ, tokenVars, taskVars, fileVars,
                   shutdown, faults, raucVars>>

Publishes(st) == Len(pubQ) < PubCapacity /\ pubQ' = Append(pubQ, st)

PublishRejection ==
    /\ hpc = "publish"
    /\ Publishes(hout)
    /\ hpc' = "recv" /\ hout' = None
    /\ UNCHANGED <<current, flag, otaQ, tokenVars, taskVars, fileVars,
                   shutdown, faults, raucVars>>

(* The Reboot command: refused while the flag is set, otherwise it waits   *)
(* five seconds and runs the shutdown, which may fail.                     *)
RebootCommand ==
    /\ hpc = "recv" /\ ~flag
    /\ hpc' = "reboot"
    /\ UNCHANGED <<hout, current, flag, otaQ, pubQ, tokenVars, taskVars,
                   fileVars, shutdown, faults, raucVars>>

ExecuteReboot ==
    /\ hpc = "reboot"
    /\ hpc' = "recv"
    /\ shutdown' = TRUE \/ UNCHANGED shutdown
    /\ UNCHANGED <<hout, current, flag, otaQ, pubQ, tokenVars, taskVars,
                   fileVars, faults, raucVars>>

Handler ==
    \/ \E id \in Requests : RejectUpdate(id)
    \/ \E id \in Requests : AcceptUpdate(id)
    \/ SendUpdate
    \/ \E id \in Requests : CancelUpdate(id)
    \/ \E id \in Requests : RejectCancel(id)
    \/ PublishRejection
    \/ RebootCommand
    \/ ExecuteReboot

-----------------------------------------------------------------------------
(* The Ota task.  To begin with, the loop of handle_ota_update:            *)
(*   loop     evaluates is_ota_in_progress, which also stores the flag     *)
(*   publish  publish_status                                               *)
(*   step     calls next, under the cancel token in a cancellable status   *)
(*   download awaits the server, or RAUC's opinion of the bundle, and      *)
(*   sleep    the next attempt to download, both under the cancel token    *)
(*   final    publishes the last status, then clear                        *)

UnchangedOutside == UNCHANGED <<handlerVars, otaQ, tokenVars, faults>>

(* Mutant of ActorInit: init does not run handle_ota_update.               *)
ActorInitOnly ==
    /\ tpc = "init"
    /\ status' = IF stateFile # None THEN St("Rebooted", None) ELSE status
    /\ tpc' = "recv"
    /\ UnchangedOutside
    /\ UNCHANGED <<flag, pubQ, token, checkCancel, tries, fileVars, shutdown,
                   raucVars>>

ActorInit ==
    /\ tpc = "init"
    /\ status' = IF stateFile # None THEN St("Rebooted", None) ELSE status
    /\ token' = 0 /\ checkCancel' = TRUE
    /\ tpc' = "loop"
    /\ UnchangedOutside
    /\ UNCHANGED <<flag, pubQ, tries, fileVars, shutdown, raucVars>>

(* Actor::run takes a message; handle refuses it (InconsistentState), and  *)
(* the task dies, unless the status is Idle.                               *)
Receive ==
    /\ tpc = "recv" /\ otaQ # <<>>
    /\ otaQ' = Tail(otaQ)
    /\ IF status.tag # "Idle"
       THEN /\ tpc' = "dead"
            /\ UNCHANGED <<status, token, checkCancel>>
       ELSE /\ status' = St("Init", Head(otaQ).id)
            /\ token' = Head(otaQ).token
            /\ checkCancel' = TRUE
            /\ tpc' = "loop"
    /\ UNCHANGED <<handlerVars, flag, pubQ, tokenVars, tries, fileVars,
                   shutdown, faults, raucVars>>

(* Mutants of IsOtaInProgress: the flag is never set, or never cleared.    *)
IsOtaInProgressClears ==
    /\ tpc = "loop"
    /\ flag' = (flag /\ status.tag # "Idle")
    /\ tpc' = IF status.tag # "Idle" THEN "publish" ELSE "final"
    /\ UnchangedOutside
    /\ UNCHANGED <<pubQ, status, token, checkCancel, tries, fileVars,
                   shutdown, raucVars>>

IsOtaInProgressSets ==
    /\ tpc = "loop"
    /\ flag' = (flag \/ status.tag # "Idle")
    /\ tpc' = IF status.tag # "Idle" THEN "publish" ELSE "final"
    /\ UnchangedOutside
    /\ UNCHANGED <<pubQ, status, token, checkCancel, tries, fileVars,
                   shutdown, raucVars>>

IsOtaInProgress ==
    /\ tpc = "loop"
    /\ flag' = (status.tag # "Idle")
    /\ tpc' = IF status.tag # "Idle" THEN "publish" ELSE "final"
    /\ UnchangedOutside
    /\ UNCHANGED <<pubQ, status, token, checkCancel, tries, fileVars,
                   shutdown, raucVars>>

PublishStatus ==
    /\ tpc = "publish"
    /\ Publishes(status)
    /\ tpc' = "step"
    /\ UnchangedOutside
    /\ UNCHANGED <<flag, status, token, checkCancel, tries, fileVars,
                   shutdown, raucVars>>

(* Mutant of CancelStep: every status can be cancelled.                    *)
CancelStepAnywhere ==
    /\ tpc = "step"
    /\ checkCancel /\ token \in cancelled
    /\ checkCancel' = FALSE
    /\ status' = Failure("Canceled", status.id)
    /\ tpc' = "loop" /\ tries' = 0
    /\ UnchangedOutside
    /\ UNCHANGED <<flag, pubQ, token, fileVars, shutdown, raucVars>>

(* run_until_cancelled gave up on next: the token was cancelled before the *)
(* call, or while next was pending.                                        *)
CancelStep ==
    /\ tpc \in {"step", "download", "sleep"}
    /\ IsCancellable(status) /\ token \in cancelled
    /\ checkCancel' = FALSE
    /\ status' = Failure("Canceled", status.id)
    /\ tpc' = "loop" /\ tries' = 0
    /\ UnchangedOutside
    /\ UNCHANGED <<flag, pubQ, token, fileVars, shutdown, raucVars>>

(* The cancellation came too late.                                         *)
LateCancel ==
    /\ tpc = "step"
    /\ ~IsCancellable(status) /\ checkCancel /\ token \in cancelled
    /\ checkCancel' = FALSE
    /\ Publishes(Failure("Canceled", None))
    /\ UnchangedOutside
    /\ UNCHANGED <<flag, tpc, status, token, tries, fileVars, shutdown,
                   raucVars>>

(* Mutant of Polls: next is not under the cancel token.                    *)
PollsUncancelled(tag) == tpc = "step" /\ status.tag = tag

(* next is called with this status.  run_until_cancelled looks at the      *)
(* token before the first poll, and from then on polls next before the     *)
(* token.                                                                  *)
Polls(tag) ==
    /\ tpc = "step" /\ status.tag = tag
    /\ IF IsCancellable(status) THEN token \notin cancelled
       ELSE ~(checkCancel /\ token \in cancelled)

(* next returned this status.                                              *)
Becomes(st) == status' = st /\ tpc' = "loop"

Fails(err) == Becomes(Failure(err, status.id))

(* The steps that only move from one status to the next.                   *)
Advance ==
    /\ \/ Polls("Init") /\ Becomes(St("Acknowledged", status.id))
       \/ Polls("Acknowledged")
          /\ Becomes(St(IF Streaming THEN "Deploying" ELSE "Downloading", status.id))
       \/ Polls("Rebooting") /\ Becomes(status)
       \/ \E tag \in {"NoPendingOta", "Success", "Failure"} :
             Polls(tag) /\ Becomes(Idle)
    /\ UnchangedOutside
    /\ UNCHANGED <<flag, pubQ, token, checkCancel, tries, fileVars, shutdown,
                   raucVars>>

-----------------------------------------------------------------------------
(* download, retry_download and wget.  A cancellation only wakes the task: *)
(* next is polled once more, and what it awaits may be there by then.      *)

(* The path or the client is refused, or the first attempt begins.         *)
DownloadStarts ==
    /\ Polls("Downloading")
    /\ \/ tpc' = "download" /\ UNCHANGED status
       \/ \E err \in {"Io", "Internal"} : Fails(err)
    /\ UnchangedOutside
    /\ UNCHANGED <<flag, pubQ, token, checkCancel, tries, fileVars, shutdown,
                   raucVars>>

DownloadProgress ==
    /\ tpc = "download"
    /\ Publishes(status)
    /\ UnchangedOutside
    /\ UNCHANGED <<flag, taskVars, fileVars, shutdown, raucVars>>

(* Mutant of DownloadError: the attempts are not counted.                  *)
DownloadErrorForever ==
    /\ tpc = "download"
    /\ \E err \in {"Network", "Io", "Internal"} :
          Publishes(DownloadFailed(err, status.id))
    /\ tpc' = "sleep"
    /\ UnchangedOutside
    /\ UNCHANGED <<flag, status, token, checkCancel, tries, fileVars,
                   shutdown, raucVars>>

(* An attempt failed.  The sleep that follows is pending, and under a      *)
(* cancelled token next is given up there.                                 *)
DownloadError ==
    /\ tpc = "download" /\ tries < MaxAttempts
    /\ \E err \in {"Network", "Io", "Internal"} :
          Publishes(DownloadFailed(err, status.id))
    /\ IF token \in cancelled THEN tpc' = "step" /\ tries' = 0
                             ELSE tpc' = "sleep" /\ tries' = tries + 1
    /\ UnchangedOutside
    /\ UNCHANGED <<flag, status, token, checkCancel, fileVars, shutdown,
                   raucVars>>

(* The sleep is over: all attempts failed, or the next one begins, which   *)
(* is pending at once and under a cancelled token goes no further.         *)
DownloadRetry ==
    /\ tpc = "sleep"
    /\ \/ /\ tries = MaxAttempts
          /\ Fails("Internal") /\ tries' = 0
       \/ /\ tries < MaxAttempts /\ token \notin cancelled
          /\ tpc' = "download" /\ UNCHANGED <<status, tries>>
    /\ UnchangedOutside
    /\ UNCHANGED <<flag, pubQ, token, checkCancel, fileVars, shutdown, raucVars>>

(* The bundle is there, and may not be compatible.                         *)
DownloadEnds ==
    /\ tpc = "download"
    /\ Becomes(St("Deploying", status.id)) \/ Fails("InvalidBaseImage")
    /\ tries' = 0
    /\ UnchangedOutside
    /\ UNCHANGED <<flag, pubQ, token, checkCancel, fileVars, shutdown, raucVars>>

-----------------------------------------------------------------------------
(* deploy: the booted slot is recorded before RAUC is asked to install.    *)

(* Mutant of DeployBegins: nothing is recorded.                            *)
DeployBeginsUnrecorded ==
    /\ Polls("Deploying")
    /\ tpc' = "install"
    /\ UnchangedOutside
    /\ UNCHANGED <<flag, pubQ, status, token, checkCancel, tries, fileVars,
                   shutdown, raucVars>>

(* boot_slot, then the file is created and truncated.                      *)
DeployBegins ==
    /\ Polls("Deploying")
    /\ \/ stateFile' = Torn /\ tpc' = "write" /\ UNCHANGED status
       \/ Fails("Internal") /\ UNCHANGED stateFile
       \/ Fails("Io") /\ UNCHANGED stateFile
    /\ UnchangedOutside
    /\ UNCHANGED <<flag, pubQ, token, checkCancel, tries, dirty,
                   undeleted, shutdown, raucVars>>

(* The device would boot the slot it runs from, were it to restart now.    *)
Settled == primary = booted /\ good[booted] /\ install = None

WriteState ==
    /\ tpc = "write"
    /\ \/ /\ stateFile' = [uuid |-> status.id.uuid, slot |-> booted]
          /\ dirty' = ~Settled
          /\ undeleted' = FALSE
          /\ tpc' = "install" /\ UNCHANGED status
       \/ Fails("Io") /\ UNCHANGED fileVars
    /\ UnchangedOutside
    /\ UNCHANGED <<flag, pubQ, token, checkCancel, tries, shutdown, raucVars>>

InstallBundle ==
    /\ tpc = "install"
    /\ \/ StartInstall(status.id.uuid) /\ tpc' = "subscribe" /\ UNCHANGED status
       \/ Fails("InvalidBaseImage") /\ UNCHANGED raucVars
    /\ UnchangedOutside
    /\ UNCHANGED <<flag, pubQ, token, checkCancel, tries, fileVars, shutdown>>

(* operation and receive_completed.                                        *)
Subscribe ==
    /\ tpc = "subscribe"
    /\ \/ Listen(TRUE) /\ tpc' = "wait" /\ UNCHANGED status
       \/ Fails("Internal") /\ UNCHANGED raucVars
    /\ UnchangedOutside
    /\ UNCHANGED <<flag, pubQ, token, checkCancel, tries, fileVars, shutdown>>

DeployProgress ==
    /\ tpc = "wait"
    /\ Publishes(status)
    /\ UnchangedOutside
    /\ UNCHANGED <<flag, taskVars, fileVars, shutdown, raucVars>>

(* The stream yields Completed, or an error.                               *)
ReceiveCompleted ==
    /\ tpc = "wait"
    /\ \/ completed = "ok" /\ Becomes(St("Deployed", status.id))
       \/ completed = "fail" /\ Fails("InvalidBaseImage")
       \/ Fails("Internal")
    /\ Listen(FALSE)
    /\ UnchangedOutside
    /\ UNCHANGED <<flag, pubQ, token, checkCancel, tries, fileVars, shutdown>>

-----------------------------------------------------------------------------
(* reboot, and what is found after it.                                     *)

PublishRebooting ==
    /\ Polls("Deployed")
    /\ Publishes(St("Rebooting", status.id))
    /\ tpc' = "reboot"
    /\ UnchangedOutside
    /\ UNCHANGED <<flag, status, token, checkCancel, tries, fileVars,
                   shutdown, raucVars>>

(* The shutdown command may be impossible to run (an error), or run and    *)
(* fail (not an error).                                                    *)
Reboot ==
    /\ tpc = "reboot"
    /\ \/ Becomes(St("Rebooting", status.id)) /\ UNCHANGED shutdown
       \/ ~ExternalReboot /\ Becomes(St("Rebooting", status.id)) /\ shutdown' = TRUE
       \/ ~ExternalReboot /\ Fails("Internal") /\ UNCHANGED shutdown
    /\ UnchangedOutside
    /\ UNCHANGED <<flag, pubQ, token, checkCancel, tries, fileVars, raucVars>>

(* Mutant of DoPendingOta: the slots are not compared.                     *)
DoPendingOtaAnySlot(id) ==
    /\ MarkGood(primary)
    /\ Becomes(St("Success", id))

(* do_pending_ota.  Every D-Bus call may fail.                             *)
DoPendingOta(id) ==
    \/ Becomes(Failure("Internal", id)) /\ UNCHANGED raucVars
    \/ /\ stateFile.slot = booted
       /\ Becomes(Failure("SystemRollback", id))
       /\ UNCHANGED raucVars
    \/ /\ stateFile.slot # booted
       /\ MarkGood(primary)
       /\ Becomes(St("Success", id))

CheckReboot ==
    /\ Polls("Rebooted")
    /\ \/ stateFile = None
          /\ Becomes(St("NoPendingOta", None)) /\ UNCHANGED raucVars
       \/ stateFile # None     \* it cannot be read
          /\ Becomes(Failure("Io", None)) /\ UNCHANGED raucVars
       \/ stateFile \notin {None, Torn}
          /\ DoPendingOta([uuid |-> stateFile.uuid, url |-> NoUrl])
    /\ UnchangedOutside
    /\ UNCHANGED <<flag, pubQ, token, checkCancel, tries, fileVars, shutdown>>

PublishFinal ==
    /\ tpc = "final"
    /\ Publishes(status)
    /\ tpc' = "clear"
    /\ UnchangedOutside
    /\ UNCHANGED <<flag, status, token, checkCancel, tries, fileVars,
                   shutdown, raucVars>>

(* Mutant of Clear: the record stays.                                      *)
ClearKeepsRecord ==
    /\ tpc = "clear"
    /\ status' = Idle
    /\ tpc' = "recv"
    /\ UNCHANGED <<handlerVars, otaQ, tokenVars, flag, pubQ, token, faults,
                   checkCancel, tries, fileVars, shutdown, raucVars>>

(* clear.  A removal that fails is only logged.                            *)
Clear ==
    /\ tpc = "clear"
    /\ \/ stateFile' = None /\ undeleted' = FALSE /\ UNCHANGED faults
       \/ /\ stateFile # None /\ faults < MaxFaults
          /\ faults' = faults + 1
          /\ undeleted' = TRUE /\ UNCHANGED stateFile
    /\ status' = Idle
    /\ tpc' = "recv"
    /\ UNCHANGED <<handlerVars, otaQ, tokenVars, flag, pubQ, token,
                   checkCancel, tries, dirty, shutdown, raucVars>>

Task ==
    \/ ActorInit \/ Receive \/ IsOtaInProgress \/ PublishStatus
    \/ CancelStep \/ LateCancel \/ Advance
    \/ DownloadStarts \/ DownloadProgress \/ DownloadError
    \/ DownloadRetry \/ DownloadEnds
    \/ DeployBegins \/ WriteState \/ InstallBundle \/ Subscribe
    \/ DeployProgress \/ ReceiveCompleted
    \/ PublishRebooting \/ Reboot \/ CheckReboot
    \/ PublishFinal \/ Clear

-----------------------------------------------------------------------------
(* Mutant of SendOtaEvent: it is held up while an update is worked on.     *)
SendOtaEventWhenIdle ==
    /\ tpc = "recv" /\ pubQ # <<>>
    /\ pubQ' = Tail(pubQ)
    /\ UNCHANGED <<handlerVars, flag, otaQ, tokenVars, taskVars, fileVars,
                   shutdown, faults, raucVars>>

(* OtaPublisher: a status that cannot be sent is only logged.              *)
SendOtaEvent ==
    /\ pubQ # <<>>
    /\ pubQ' = Tail(pubQ)
    /\ UNCHANGED <<handlerVars, flag, otaQ, tokenVars, taskVars, fileVars,
                   shutdown, faults, raucVars>>

(* RAUC ends an installation.                                              *)
RaucFinishes ==
    /\ \E result \in {"ok", "fail"} : FinishInstall(result)
    /\ UNCHANGED <<handlerVars, flag, otaQ, pubQ, tokenVars, taskVars,
                   fileVars, shutdown, faults>>

(* The runtime is killed or stopped, and started again.                    *)
Crash ==
    /\ faults < MaxFaults /\ faults' = faults + 1
    /\ ProcessRestart
    /\ Listen(FALSE)
    /\ UNCHANGED <<issued, fileVars, shutdown>>

(* The device loses power, or is reset from outside.                       *)
PowerLoss ==
    /\ faults < MaxFaults /\ faults' = faults + 1
    /\ ProcessRestart
    /\ Boot
    /\ shutdown' = FALSE
    /\ UNCHANGED <<issued, fileVars>>

(* The shutdown that was asked for takes place.                            *)
DeviceReboot ==
    /\ shutdown
    /\ shutdown' = FALSE
    /\ ProcessRestart
    /\ Boot
    /\ UNCHANGED <<issued, fileVars, faults>>

Next == Handler \/ Task \/ SendOtaEvent \/ RaucFinishes
           \/ Crash \/ PowerLoss \/ DeviceReboot

Spec == Init /\ [][Next]_vars

-----------------------------------------------------------------------------
(* Fairness.  Every task is polled until it ends (tokio).  A task that     *)
(* waits for room in a channel is queued and served in turn, so that a     *)
(* competing sender cannot keep it out for ever.  D-Bus calls and          *)
(* installations of RAUC end, and a shutdown that was started takes place. *)
(* Nothing is assumed of the server of the bundle: the HTTP client has no  *)
(* timeout, so that the steps of `download' are not fair.  Nothing makes   *)
(* an external reboot happen, and no stream error is owed to a task that   *)
(* waits for a Completed it has missed.                                    *)

TaskStep ==
    \/ ActorInit \/ Receive \/ IsOtaInProgress \/ CancelStep \/ Advance
    \/ DownloadStarts \/ DownloadRetry
    \/ DeployBegins \/ WriteState \/ InstallBundle \/ Subscribe
    \/ completed # "none" /\ ReceiveCompleted
    \/ Reboot \/ CheckReboot \/ Clear

TaskPublish == PublishStatus \/ LateCancel \/ PublishRebooting \/ PublishFinal

Fairness ==
    /\ WF_vars(SendUpdate) /\ SF_vars(PublishRejection) /\ WF_vars(ExecuteReboot)
    /\ WF_vars(TaskStep) /\ SF_vars(TaskPublish)
    /\ WF_vars(SendOtaEvent) /\ WF_vars(RaucFinishes) /\ WF_vars(DeviceReboot)

FairSpec == Spec /\ Fairness

-----------------------------------------------------------------------------
(* Safety.                                                                 *)

(* The task is inside the loop of handle_ota_update.                       *)
InBody == tpc \in {"publish", "step", "download", "sleep", "write", "install",
                  "subscribe", "wait", "reboot"}

Tokens(q) == {q[i].token : i \in DOMAIN q}

(* handle never finds a status other than Idle, an error that would end    *)
(* the task and with it the runtime (mod.rs, handle).                      *)
NeverInconsistent == tpc # "dead"

(* Whatever the handler and the task store, in whichever order, the flag   *)
(* is set while the task works on an update: a Reboot command that comes   *)
(* then is refused (mod.rs, is_ota_in_progress).                           *)
FlagCoversTask == InBody => flag

(* The handler refuses an update as already in progress only if the update *)
(* it remembers is really waiting or being worked on: a finished update    *)
(* never blocks the next one (check_update_already_in_progress).           *)
CurrentIsLive ==
    current # None /\ flag =>
        \/ current.token \in Tokens(otaQ)
        \/ current.token = token /\ (InBody \/ tpc = "loop")

(* A cancel stops the update wherever it waits: in the channel, for room   *)
(* in the other channel, or for the next attempt to download.  Only while  *)
(* an attempt is under way may the answer come first (handle_cancel,       *)
(* handle_ota_update, run_until_cancelled).                                *)
CancelStopsUpdate ==
    status.tag \in {"Deploying", "Deployed", "Rebooting"} => token \notin doomed

(* When the task reboots the device, the state file names the update and   *)
(* the slot to compare with, so that the next start can report it (deploy). *)
RebootIsRecorded ==
    status.tag \in {"Deployed", "Rebooting"} =>
        stateFile = [uuid |-> status.id.uuid, slot |-> booted]

(* Success is reported from the image of that update, marked good, unless  *)
(* the device might already have changed slot without it (do_pending_ota). *)
SuccessIsInstalled ==
    status.tag = "Success" =>
        /\ good[primary]
        /\ image[booted] = status.id.uuid \/ dirty

(* Between two updates no record of an old one is left, which would be     *)
(* reported again after the next restart (clear).                          *)
CleanWhenIdle == tpc = "recv" => stateFile = None \/ undeleted

(* The updates that were accepted, not cancelled, and are not over.        *)
Outstanding ==
    (Tokens(otaQ) \cup (IF InBody THEN {token} \ {0} ELSE {})) \ cancelled

(* ota_handler.rs takes a cleared flag to mean that no update is in        *)
(* progress any more, and accepts the next one: then one at a time.        *)
OneUpdateAtATime == \A s, t \in Outstanding : s = t

(* The controller refuses to "reboot during OTA update".                   *)
NoRebootDuringOta ==
    [][hpc = "reboot" /\ shutdown' # shutdown /\ shutdown' => ~InBody]_vars

(* A cancel that goes unanswered has found an update that was not over: a  *)
(* test has a cancel of a finished update answered by a Failure.           *)
CancelFindsUpdate ==
    [][\A t \in cancelled' \ cancelled :
         t \in Tokens(otaQ) \/ (t = token /\ (InBody \/ tpc = "loop"))]_vars

-----------------------------------------------------------------------------
(* Refinement of OtaAttempt.                                               *)

Starting == tpc = "init" \/ status.tag = "Rebooted"

RecordedUuid == IF stateFile \in {None, Torn} THEN None ELSE stateFile.uuid

PhaseBar ==
    IF Starting THEN IF RecordedUuid = None THEN "none" ELSE "restarted"
    ELSE IF status.id = None THEN "none"
    ELSE CASE status.tag = "Success" -> "succeeded"
           [] status.tag = "Failure" /\ status.err = "Canceled" -> "cancelled"
           [] status.tag = "Failure" /\ status.err # "Canceled" -> "failed"
           [] status.tag \in {"Deployed", "Rebooting"} -> "installed"
           [] tpc \in {"install", "subscribe", "wait"} -> "installing"
           [] OTHER -> "accepted"

ActiveBar ==
    IF Starting THEN RecordedUuid
    ELSE IF status.id = None THEN None ELSE status.id.uuid

Attempt == INSTANCE OtaAttempt WITH
    phase <- PhaseBar, active <- ActiveBar, durable <- RecordedUuid

(* The component implements OtaAttempt.                                    *)
ImplementsAttempt == Attempt!Spec

-----------------------------------------------------------------------------
(* Liveness.                                                               *)

(* The task waits for a reboot; for a Completed that was sent before it    *)
(* subscribed; or for a server, in an update that nobody cancels.          *)
Waiting ==
    \/ status.tag = "Rebooting"
    \/ tpc = "wait" /\ install = None /\ completed = "none"
    \/ tpc = "download" /\ token \notin cancelled

(* Every update ends, and the task goes back to its channel, unless the    *)
(* device goes down or it waits for ever for one of these.  In particular  *)
(* a cancel ends the download of a server that has fallen silent           *)
(* (handle_ota_update).                                                    *)
UpdateEnds == tpc # "recv" ~> (tpc = "recv" \/ shutdown \/ []Waiting)

(* The controller is never held up for ever by the OTA component, although *)
(* it waits for room in both channels (handle_event, ota_tx.send).         *)
HandlerReturns == hpc # "recv" ~> (hpc = "recv" \/ shutdown \/ []Waiting)

(* What was recorded before a reboot or a crash is resolved: the record is *)
(* eventually read back and removed (init, check_reboot, clear).           *)
RecordIsResolved ==
    stateFile # None ~>
        (stateFile = None \/ undeleted \/ shutdown \/ []Waiting)
=============================================================================
