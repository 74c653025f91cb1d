------------------------------ MODULE OtaProofs ------------------------------
(***************************************************************************)
(* Proofs about Ota, for every value of its constants: any number of       *)
(* requests, of crashes and of power losses, any capacity of the channels. *)
(***************************************************************************)
EXTENDS Ota, TLAPS

(* With two slots there is exactly one other slot.                         *)
LEMMA OtherSlot ==
    ASSUME NEW s \in Slots
    PROVE  Other(s) \in Slots /\ Other(s) # s
<1>1. PICK a, b \in Slots : a # b /\ Slots = {a, b}
  BY RaucAssumption
<1>2. \E t \in Slots : t # s
  BY <1>1
<1> QED
  BY <1>2 DEF Other

(* What RAUC and the bootloader do leaves their variables well typed.      *)
LEMMA RaucTypes ==
    ASSUME RaucTypeOK,
           \/ \E id \in Uuids : StartInstall(id)
           \/ \E result \in {"ok", "fail"} : FinishInstall(result)
           \/ MarkGood(primary)
           \/ \E on \in BOOLEAN : Listen(on)
           \/ Boot
           \/ UNCHANGED raucVars
    PROVE  RaucTypeOK'
<1>1. ASSUME NEW id \in Uuids, StartInstall(id) PROVE RaucTypeOK'
  BY <1>1, OtherSlot, RaucAssumption DEF StartInstall, RaucTypeOK
<1>2. ASSUME NEW result \in {"ok", "fail"}, FinishInstall(result) PROVE RaucTypeOK'
  BY <1>2, OtherSlot DEF FinishInstall, RaucTypeOK
<1>3. CASE MarkGood(primary)
  BY <1>3 DEF MarkGood, RaucTypeOK
<1>4. ASSUME NEW on \in BOOLEAN, Listen(on) PROVE RaucTypeOK'
  BY <1>4 DEF Listen, RaucTypeOK
<1>5. CASE Boot
  BY <1>5, OtherSlot DEF Boot, RaucTypeOK
<1>6. CASE UNCHANGED raucVars
  BY <1>6 DEF raucVars, RaucTypeOK
<1> QED
  BY <1>1, <1>2, <1>3, <1>4, <1>5, <1>6

-----------------------------------------------------------------------------
(* Type correctness.                                                       *)

(* The statuses that are built along the way are statuses.                 *)
LEMMA StatusTypes ==
    /\ \A tag \in Tags, id \in OtaIds \cup {None} : St(tag, id) \in Statuses
    /\ \A err \in Errors, id \in OtaIds \cup {None} : Failure(err, id) \in Statuses
    /\ \A err \in Errors, id \in OtaIds \cup {None} : DownloadFailed(err, id) \in Statuses
    /\ Idle \in Statuses
  BY DEF St, Failure, DownloadFailed, Idle, Statuses, Tags, Errors

(* A channel with room for one more stays within its capacity.             *)
LEMMA PublishTypes ==
    ASSUME TypeOK, NEW st \in Statuses, Publishes(st)
    PROVE  pubQ' \in Seq(Statuses) /\ Len(pubQ') <= PubCapacity
  BY OtaAssumption DEF TypeOK, Publishes

(* Where the task is tells what its status can be, and an update that is   *)
(* being worked on has an id.                                              *)
Shape ==
    /\ tpc # "dead"
    /\ tpc \in {"init", "recv", "final", "clear"} => status.tag = "Idle"
    /\ tpc = "init" => token = 0
    /\ tpc \in {"publish", "step"} => status.tag # "Idle"
    /\ tpc \in {"write", "install", "subscribe", "wait"} => status.tag = "Deploying"
    /\ tpc = "reboot" => status.tag = "Deployed"
    /\ tpc \in {"download", "sleep"} => status.tag = "Downloading"
    /\ status.tag \in {"Init", "Acknowledged", "Downloading", "Deploying",
                      "Deployed", "Rebooting", "Success"} => status.id \in OtaIds

(* Every step keeps every variable well typed.                             *)
LEMMA TypeStep ==
    ASSUME TypeOK, Shape, [Next]_vars
    PROVE  TypeOK'
<1>1. ASSUME NEW id \in Requests, RejectUpdate(id) PROVE TypeOK'
  BY <1>1, StatusTypes, OtaAssumption DEF RejectUpdate, TypeOK, RaucTypeOK, raucVars, handlerVars, tokenVars, taskVars, fileVars, OtaIds, IsCurrent, Errors
<1>2. ASSUME NEW id \in Requests, AcceptUpdate(id) PROVE TypeOK'
  <2>1. /\ issued + 1 \in 1..MaxUpdates /\ issued' \in 0..MaxUpdates
        /\ id \in OtaIds
    BY <1>2, OtaAssumption DEF AcceptUpdate, TypeOK
  <2>2. /\ hpc' = "send" /\ hout' \in Messages
        /\ current' = None /\ flag' = TRUE
    BY <1>2, <2>1 DEF AcceptUpdate, Messages
  <2>3. /\ UNCHANGED <<otaQ, pubQ, cancelled, doomed, shutdown, faults>>
        /\ UNCHANGED taskVars /\ UNCHANGED fileVars /\ UNCHANGED raucVars
    BY <1>2 DEF AcceptUpdate
  <2> QED
    BY <2>1, <2>2, <2>3 DEF TypeOK, RaucTypeOK, raucVars, taskVars, fileVars
<1>3. CASE SendUpdate
  <2>1. hout \in Messages
    BY <1>3 DEF SendUpdate, TypeOK
  <2>2. otaQ' \in Seq(Messages) /\ Len(otaQ') <= MaxOtaOperation
    BY <1>3, <2>1, OtaAssumption DEF SendUpdate, TypeOK
  <2>3. hpc' = "recv" /\ current' \in Messages
    BY <1>3, <2>1 DEF SendUpdate
  <2>4. /\ UNCHANGED <<flag, pubQ, shutdown, faults>>
        /\ UNCHANGED tokenVars /\ UNCHANGED taskVars
        /\ UNCHANGED fileVars /\ UNCHANGED raucVars
    BY <1>3 DEF SendUpdate
  <2> QED
    BY <2>2, <2>3, <2>4 DEF TypeOK, RaucTypeOK, raucVars, tokenVars, taskVars, fileVars
<1>4. ASSUME NEW id \in Requests, CancelUpdate(id) PROVE TypeOK'
  BY <1>4, OtaAssumption DEF CancelUpdate, TypeOK, RaucTypeOK, raucVars, handlerVars, tokenVars, taskVars, fileVars, IsCurrent, Messages
<1>5. ASSUME NEW id \in Requests, RejectCancel(id) PROVE TypeOK'
  BY <1>5, StatusTypes, OtaAssumption DEF RejectCancel, TypeOK, RaucTypeOK, raucVars, handlerVars, tokenVars, taskVars, fileVars, OtaIds, IsCurrent, Errors
<1>6. CASE PublishRejection
  BY <1>6, PublishTypes DEF PublishRejection, TypeOK, RaucTypeOK, raucVars, handlerVars, tokenVars, taskVars, fileVars
<1>7. CASE RebootCommand
  BY <1>7, OtaAssumption DEF RebootCommand, TypeOK, RaucTypeOK, raucVars, handlerVars, tokenVars, taskVars, fileVars
<1>8. CASE ExecuteReboot
  <2>1. shutdown' \in BOOLEAN
    BY <1>8 DEF ExecuteReboot, TypeOK
  <2> QED
    BY <1>8, <2>1 DEF ExecuteReboot, TypeOK, RaucTypeOK, raucVars, handlerVars, tokenVars, taskVars, fileVars
<1>9. CASE ActorInit
  BY <1>9, StatusTypes, OtaAssumption DEF ActorInit, TypeOK, RaucTypeOK, raucVars, handlerVars, tokenVars, taskVars, fileVars, UnchangedOutside, Tags, Messages, Statuses
<1>10. CASE Receive
  <2>1. otaQ' \in Seq(Messages) /\ Len(otaQ') <= MaxOtaOperation
    BY <1>10, OtaAssumption DEF Receive, TypeOK
  <2>2. otaQ # <<>> => Head(otaQ) \in Messages
    BY <1>10 DEF TypeOK
  <2>3. status' \in Statuses
    BY <1>10, <2>2, StatusTypes DEF Receive, TypeOK, Messages, Tags
  <2>4. checkCancel' \in BOOLEAN
    BY <1>10 DEF Receive, TypeOK
  <2> QED
    BY <1>10, <2>1, <2>2, <2>3, <2>4 DEF Receive, TypeOK, raucVars, handlerVars, tokenVars, taskVars, fileVars, UnchangedOutside, RaucTypeOK, Messages
<1>11. CASE IsOtaInProgress
  BY <1>11, OtaAssumption DEF IsOtaInProgress, TypeOK, RaucTypeOK, raucVars, handlerVars, tokenVars, taskVars, fileVars, UnchangedOutside
<1>12. CASE PublishStatus
  BY <1>12, PublishTypes DEF PublishStatus, TypeOK, RaucTypeOK, raucVars, handlerVars, tokenVars, taskVars, fileVars, UnchangedOutside
<1>13. CASE CancelStep
  <2>1. status' \in Statuses
    BY <1>13, StatusTypes DEF CancelStep, TypeOK, Statuses, Errors
  <2>2. checkCancel' \in BOOLEAN
    BY <1>13 DEF CancelStep
  <2> QED
    BY <1>13, <2>1, <2>2, OtaAssumption DEF CancelStep, TypeOK, raucVars, handlerVars, tokenVars, taskVars, fileVars, UnchangedOutside, RaucTypeOK
<1>14. CASE LateCancel
  <2>1. Failure("Canceled", None) \in Statuses
    BY <1>14, StatusTypes DEF Errors
  <2>2. pubQ' \in Seq(Statuses) /\ Len(pubQ') <= PubCapacity
    BY <1>14, <2>1, PublishTypes DEF LateCancel
  <2>3. checkCancel' \in BOOLEAN
    BY <1>14 DEF LateCancel
  <2> QED
    BY <1>14, <2>1, <2>2, <2>3 DEF LateCancel, TypeOK, raucVars, handlerVars, tokenVars, taskVars, fileVars, UnchangedOutside, RaucTypeOK
<1>15. CASE Advance
  BY <1>15, StatusTypes, OtaAssumption DEF Advance, TypeOK, RaucTypeOK, raucVars, handlerVars, tokenVars, taskVars, fileVars, UnchangedOutside, Polls, Becomes, Tags, Errors, Statuses
<1>16. CASE DownloadProgress
  BY <1>16, PublishTypes DEF DownloadProgress, TypeOK, RaucTypeOK, raucVars, handlerVars, tokenVars, taskVars, fileVars, UnchangedOutside
<1>17. CASE DownloadError
  <2>1. \A err \in Errors : DownloadFailed(err, status.id) \in Statuses
    BY <1>17, StatusTypes DEF TypeOK, Statuses
  <2>2. pubQ' \in Seq(Statuses) /\ Len(pubQ') <= PubCapacity
    BY <1>17, <2>1, PublishTypes DEF DownloadError, Errors
  <2> QED
    BY <1>17, <2>1, <2>2, OtaAssumption DEF DownloadError, TypeOK, raucVars, handlerVars, tokenVars, taskVars, fileVars, UnchangedOutside, RaucTypeOK
<1>18. CASE DownloadEnds
  BY <1>18, StatusTypes, OtaAssumption DEF DownloadEnds, TypeOK, RaucTypeOK, raucVars, handlerVars, tokenVars, taskVars, fileVars, UnchangedOutside, Becomes, Tags, Errors, Statuses, Fails
<1>start. CASE DownloadStarts
  BY <1>start, StatusTypes, OtaAssumption DEF DownloadStarts, TypeOK, RaucTypeOK, raucVars, handlerVars, tokenVars, taskVars, fileVars, UnchangedOutside, Polls, Becomes, Tags, Errors, Statuses, Fails
<1>retry. CASE DownloadRetry
  BY <1>retry, StatusTypes, OtaAssumption DEF DownloadRetry, TypeOK, RaucTypeOK, raucVars, handlerVars, tokenVars, taskVars, fileVars, UnchangedOutside, Becomes, Tags, Errors, Statuses, Fails
<1>19. CASE DeployBegins
  BY <1>19, StatusTypes, OtaAssumption DEF DeployBegins, TypeOK, RaucTypeOK, raucVars, handlerVars, tokenVars, taskVars, fileVars, UnchangedOutside, Polls, Becomes, Tags, Errors, Statuses, Fails
<1>20. CASE WriteState
  <2>1. status' \in Statuses
    BY <1>20, StatusTypes DEF WriteState, TypeOK, Becomes, Fails, Errors, Statuses
  <2>2. status.id.uuid \in Uuids /\ booted \in Slots
    BY <1>20 DEF WriteState, Shape, TypeOK, RaucTypeOK, OtaIds
  <2>3. stateFile' = [uuid |-> status.id.uuid, slot |-> booted] \/ stateFile' = stateFile
    BY <1>20 DEF WriteState, fileVars
  <2>4. stateFile' \in PersistentStates \cup {None, Torn}
    BY <2>2, <2>3 DEF TypeOK, PersistentStates
  <2>5. dirty' \in BOOLEAN /\ undeleted' \in BOOLEAN
    BY <1>20 DEF WriteState, TypeOK, Settled, fileVars
  <2>6. tpc' \in {"install", "loop"}
    BY <1>20 DEF WriteState, Becomes, Fails
  <2> QED
    BY <1>20, <2>1, <2>4, <2>5, <2>6 DEF WriteState, TypeOK, raucVars, handlerVars, tokenVars, taskVars, fileVars, UnchangedOutside, RaucTypeOK
<1>21. CASE InstallBundle
  <2>1. status' \in Statuses
    BY <1>21, StatusTypes DEF InstallBundle, TypeOK, Becomes, Fails, Errors, Statuses
  <2>2. status.id.uuid \in Uuids
    BY <1>21 DEF InstallBundle, Shape, OtaIds
  <2>3. RaucTypeOK'
    BY <1>21, <2>2, RaucTypes DEF InstallBundle, TypeOK
  <2> QED
    BY <1>21, <2>1, <2>3 DEF InstallBundle, TypeOK, raucVars, handlerVars, tokenVars, taskVars, fileVars, UnchangedOutside, Becomes, Fails
<1>22. CASE Subscribe
  <2>1. status' = status \/ status' = Failure("Internal", status.id)
    BY <1>22 DEF Subscribe, Becomes, Fails
  <2>2. status' \in Statuses
    BY <2>1, StatusTypes DEF TypeOK, Errors, Statuses
  <2>3. Listen(TRUE) \/ UNCHANGED raucVars
    BY <1>22, Zenon DEF Subscribe
  <2>4. RaucTypeOK'
    <3>1. TRUE \in BOOLEAN
      OBVIOUS
    <3> QED
      BY <2>3, <3>1, RaucTypes DEF TypeOK
  <2>5. tpc' \in {"wait", "loop"}
    BY <1>22 DEF Subscribe, Becomes, Fails
  <2>6. /\ UNCHANGED <<handlerVars, otaQ, tokenVars, faults>>
        /\ UNCHANGED <<flag, pubQ, token, checkCancel, tries, fileVars, shutdown>>
    BY <1>22, Zenon DEF Subscribe, UnchangedOutside
  <2> QED
    BY <2>2, <2>4, <2>5, <2>6 DEF TypeOK, handlerVars, tokenVars, fileVars
<1>23. CASE DeployProgress
  BY <1>23, PublishTypes DEF DeployProgress, TypeOK, RaucTypeOK, raucVars, handlerVars, tokenVars, taskVars, fileVars, UnchangedOutside
<1>24. CASE ReceiveCompleted
  <2>1. status' \in Statuses
    BY <1>24, StatusTypes DEF ReceiveCompleted, TypeOK, Becomes, Fails, Errors, Tags, Statuses
  <2>2. RaucTypeOK'
    BY <1>24, RaucTypes DEF ReceiveCompleted, TypeOK
  <2> QED
    BY <1>24, <2>1, <2>2 DEF ReceiveCompleted, TypeOK, raucVars, handlerVars, tokenVars, taskVars, fileVars, UnchangedOutside, Becomes, Fails
<1>25. CASE PublishRebooting
  <2>1. St("Rebooting", status.id) \in Statuses
    BY <1>25, StatusTypes DEF TypeOK, Statuses, Tags
  <2>2. pubQ' \in Seq(Statuses) /\ Len(pubQ') <= PubCapacity
    BY <1>25, <2>1, PublishTypes DEF PublishRebooting
  <2> QED
    BY <1>25, <2>1, <2>2 DEF PublishRebooting, TypeOK, raucVars, handlerVars, tokenVars, taskVars, fileVars, UnchangedOutside, RaucTypeOK
<1>26. CASE Reboot
  <2>1. \/ status' = St("Rebooting", status.id)
        \/ status' = Failure("Internal", status.id)
    BY <1>26 DEF Reboot, Becomes, Fails
  <2>2. status' \in Statuses
    BY <2>1, StatusTypes DEF TypeOK, Errors, Tags, Statuses
  <2>3. shutdown' \in BOOLEAN
    BY <1>26 DEF Reboot, TypeOK
  <2>4. tpc' = "loop"
    BY <1>26 DEF Reboot, Becomes, Fails
  <2>5. UNCHANGED <<handlerVars, otaQ, tokenVars, faults, flag, pubQ, token,
                    checkCancel, tries, fileVars, raucVars>>
    BY <1>26 DEF Reboot, UnchangedOutside
  <2> QED
    BY <2>2, <2>3, <2>4, <2>5 DEF TypeOK, raucVars, handlerVars, tokenVars, fileVars, RaucTypeOK
<1>27. CASE CheckReboot
  <2>1. status' \in Statuses
    BY <1>27, StatusTypes DEF CheckReboot, DoPendingOta, TypeOK, Becomes, Errors, Tags, Statuses, PersistentStates, OtaIds
  <2>2. RaucTypeOK'
    BY <1>27, RaucTypes DEF CheckReboot, DoPendingOta, TypeOK
  <2> QED
    BY <1>27, <2>1, <2>2 DEF CheckReboot, TypeOK, raucVars, handlerVars, tokenVars, taskVars, fileVars, UnchangedOutside, Becomes, DoPendingOta
<1>28. CASE PublishFinal
  BY <1>28, PublishTypes DEF PublishFinal, TypeOK, RaucTypeOK, raucVars, handlerVars, tokenVars, taskVars, fileVars, UnchangedOutside
<1>29. CASE Clear
  <2>1. status' \in Statuses
    BY <1>29, StatusTypes DEF Clear
  <2>2. faults' \in 0..MaxFaults
    BY <1>29, OtaAssumption DEF Clear, TypeOK
  <2>3. undeleted' \in BOOLEAN
    BY <1>29 DEF Clear
  <2> QED
    BY <1>29, <2>1, <2>2, <2>3 DEF Clear, TypeOK, raucVars, handlerVars, tokenVars, taskVars, fileVars, UnchangedOutside, RaucTypeOK
<1>30. CASE SendOtaEvent
  BY <1>30, OtaAssumption DEF SendOtaEvent, TypeOK, RaucTypeOK, raucVars, handlerVars, tokenVars, taskVars, fileVars
<1>31. CASE RaucFinishes
  BY <1>31, OtaAssumption, RaucTypes DEF RaucFinishes, TypeOK, RaucTypeOK, raucVars, handlerVars, tokenVars, taskVars, fileVars
<1>32. CASE Crash
  <2>1. RaucTypeOK'
    BY <1>32, RaucTypes DEF Crash, TypeOK
  <2>2. flag' \in BOOLEAN /\ checkCancel' \in BOOLEAN
    BY <1>32 DEF Crash, ProcessRestart
  <2> QED
    BY <1>32, <2>1, <2>2, StatusTypes, OtaAssumption DEF Crash, TypeOK, raucVars, handlerVars, tokenVars, taskVars, fileVars, UnchangedOutside, ProcessRestart
<1>33. CASE PowerLoss
  <2>1. RaucTypeOK'
    BY <1>33, RaucTypes DEF PowerLoss, TypeOK
  <2>2. flag' \in BOOLEAN /\ checkCancel' \in BOOLEAN
    BY <1>33 DEF PowerLoss, ProcessRestart
  <2>3. shutdown' \in BOOLEAN
    BY <1>33 DEF PowerLoss
  <2> QED
    BY <1>33, <2>1, <2>2, <2>3, StatusTypes, OtaAssumption DEF PowerLoss, TypeOK, raucVars, handlerVars, tokenVars, taskVars, fileVars, UnchangedOutside, ProcessRestart
<1>34. CASE DeviceReboot
  <2>1. RaucTypeOK'
    BY <1>34, RaucTypes DEF DeviceReboot, TypeOK
  <2>2. flag' \in BOOLEAN /\ checkCancel' \in BOOLEAN
    BY <1>34 DEF DeviceReboot, ProcessRestart
  <2>3. shutdown' \in BOOLEAN
    BY <1>34 DEF DeviceReboot
  <2> QED
    BY <1>34, <2>1, <2>2, <2>3, StatusTypes, OtaAssumption DEF DeviceReboot, TypeOK, raucVars, handlerVars, tokenVars, taskVars, fileVars, UnchangedOutside, ProcessRestart
<1>35. CASE UNCHANGED vars
  BY <1>35, OtaAssumption DEF vars, TypeOK, RaucTypeOK, raucVars, handlerVars, tokenVars, taskVars, fileVars
<1> QED
  BY <1>1, <1>2, <1>3, <1>4, <1>5, <1>6, <1>7, <1>8, <1>9, <1>10, <1>11, <1>12, <1>13, <1>14, <1>15, <1>16, <1>17, <1>18, <1>19, <1>20, <1>21, <1>22, <1>23, <1>24, <1>25, <1>26, <1>27, <1>28, <1>29, <1>30, <1>31, <1>32, <1>33, <1>34, <1>35, <1>start, <1>retry
  DEF Next, Handler, Task

-----------------------------------------------------------------------------
(* The inductive invariant.                                                *)

(* The update the handler remembers is the last one it sent: while a       *)
(* message waits it is the last of the channel, otherwise it is the one    *)
(* the task took last, and then the flag is set only while that update is  *)
(* being worked on.                                                        *)
CurrentIsLast ==
    current # None =>
        IF otaQ = <<>>
        THEN current.token = token /\ (flag => InBody \/ tpc = "loop")
        ELSE current = otaQ[Len(otaQ)]

(* The record is on disk from before the installation until the reboot.    *)
Recorded ==
    tpc \in {"install", "subscribe", "wait"} \/ status.tag \in {"Deployed", "Rebooting"} =>
        stateFile = [uuid |-> status.id.uuid, slot |-> booted]

(* What a record that was written on a settled device tells: the slot it   *)
(* names is still good, and another slot that is booted, or would be, holds *)
(* the image it names.  The device left the recorded slot only by a boot,   *)
(* and installs nothing until the record is resolved.                       *)
Installed ==
    stateFile \notin {None, Torn} =>
        /\ booted # stateFile.slot => install = None /\ primary = booted
        /\ ~dirty =>
            /\ good[stateFile.slot]
            /\ install \in {None, stateFile.uuid}
            /\ \A s \in Slots \ {stateFile.slot} :
                 s \in {primary, booted} => image[s] = stateFile.uuid

(* Success is the outcome of a record that names another slot.             *)
Reported ==
    status.tag = "Success" =>
        /\ stateFile \notin {None, Torn}
        /\ stateFile.slot # booted
        /\ stateFile.uuid = status.id.uuid
        /\ good[primary]

(* A cancelled update is not deployed, nor waits for an answer to its      *)
(* download, unless the cancellation came while it did.                    *)
CancelInTime ==
    status.tag \in {"Deploying", "Deployed", "Rebooting"} \/ tpc = "download" =>
        token \notin doomed

(* A status between two updates, or while the record is read back.         *)
Anonymous == status.tag \in {"Idle", "Rebooted", "NoPendingOta"} => status.id = None

IInv ==
    /\ TypeOK /\ Shape
    /\ FlagCoversTask /\ CurrentIsLast
    /\ CancelInTime /\ Recorded /\ CleanWhenIdle
    /\ Installed /\ Reported /\ Anonymous

(* A restart, of whatever kind, leaves nothing of the processes.            *)
LEMMA RestartState ==
    ASSUME Crash \/ PowerLoss \/ DeviceReboot
    PROVE  /\ tpc' = "init" /\ status'.tag = "Idle" /\ token' = 0
           /\ current' = None /\ otaQ' = <<>> /\ doomed' = {}
<1>1. ProcessRestart
  BY DEF Crash, PowerLoss, DeviceReboot
<1>2. /\ tpc' = "init" /\ status' = Idle /\ token' = 0
      /\ current' = None /\ otaQ' = <<>> /\ doomed' = {}
  BY <1>1 DEF ProcessRestart
<1> QED
  BY <1>2 DEF Idle, St

(* Init is well typed.                                                     *)
LEMMA TypeInit == Init => TypeOK
<1> SUFFICES ASSUME Init PROVE TypeOK
  OBVIOUS
<1>1. RaucTypeOK
  BY RaucAssumption DEF Init, RaucInit, RaucTypeOK
<1>2. /\ flag \in BOOLEAN /\ checkCancel \in BOOLEAN /\ shutdown \in BOOLEAN
      /\ dirty \in BOOLEAN /\ undeleted \in BOOLEAN
  BY DEF Init, ProcessInit
<1> QED
  BY <1>1, <1>2, OtaAssumption, StatusTypes DEF Init, ProcessInit, TypeOK

(* What the status can be at each point of the task's loop.               *)
LEMMA ShapeStep ==
    ASSUME TypeOK, Shape, [Next]_vars
    PROVE  Shape'
<1>1. CASE Handler
BY <1>1 DEF Handler, RejectUpdate, AcceptUpdate, SendUpdate, CancelUpdate,
     RejectCancel, PublishRejection, RebootCommand, ExecuteReboot, Shape,
     handlerVars, tokenVars, taskVars, fileVars, raucVars
<1>2. CASE ActorInit
BY <1>2 DEF ActorInit, St, UnchangedOutside, Shape, handlerVars, tokenVars,
     taskVars, fileVars, raucVars
<1>3. CASE Receive
  <2>1. Head(otaQ) \in Messages
    BY <1>3 DEF Receive, TypeOK
  <2>2. tpc' = "loop" /\ status' = St("Init", Head(otaQ).id)
    BY <1>3 DEF Receive, Shape
  <2> QED
    BY <2>1, <2>2 DEF Shape, St, Messages
<1>4. CASE IsOtaInProgress
BY <1>4 DEF IsOtaInProgress, UnchangedOutside, Shape, handlerVars, tokenVars,
     taskVars, fileVars, raucVars
<1>5. CASE PublishStatus
BY <1>5 DEF PublishStatus, UnchangedOutside, Shape, handlerVars, tokenVars,
     taskVars, fileVars, raucVars
<1>6. CASE CancelStep
BY <1>6 DEF CancelStep, Failure, UnchangedOutside, Shape, handlerVars,
     tokenVars, taskVars, fileVars, raucVars
<1>7. CASE LateCancel
BY <1>7 DEF LateCancel, UnchangedOutside, Shape, handlerVars, tokenVars,
     taskVars, fileVars, raucVars
<1>8. CASE Advance
BY <1>8 DEF Advance, Polls, Becomes, St, Idle, UnchangedOutside, Shape,
     handlerVars, tokenVars, taskVars, fileVars, raucVars
<1>9. CASE DownloadProgress
BY <1>9 DEF DownloadProgress, UnchangedOutside, Shape, handlerVars,
     tokenVars, taskVars, fileVars, raucVars
<1>10. CASE DownloadError
BY <1>10 DEF DownloadError, UnchangedOutside, Shape, handlerVars,
     tokenVars, taskVars, fileVars, raucVars
<1>11. CASE DownloadEnds
BY <1>11 DEF DownloadEnds, Becomes, St, Failure, Fails,
     UnchangedOutside, Shape, handlerVars, tokenVars, taskVars, fileVars,
     raucVars
<1>start. CASE DownloadStarts
BY <1>start DEF DownloadStarts, Polls, Becomes, St, Failure, Fails,
     UnchangedOutside, Shape, handlerVars, tokenVars, taskVars, fileVars,
     raucVars
<1>retry. CASE DownloadRetry
BY <1>retry DEF DownloadRetry, Becomes, St, Failure, Fails,
     UnchangedOutside, Shape, handlerVars, tokenVars, taskVars, fileVars,
     raucVars
<1>12. CASE DeployBegins
BY <1>12 DEF DeployBegins, Polls, Becomes, St, Failure, Fails,
     UnchangedOutside, Shape, handlerVars, tokenVars, taskVars, fileVars,
     raucVars
<1>13. CASE WriteState
BY <1>13 DEF WriteState, Becomes, St, Failure, Fails, UnchangedOutside, Shape,
     handlerVars, tokenVars, taskVars, fileVars, raucVars
<1>14. CASE InstallBundle
BY <1>14 DEF InstallBundle, Becomes, St, Failure, Fails, StartInstall,
     UnchangedOutside, Shape, handlerVars, tokenVars, taskVars, fileVars,
     raucVars
<1>15. CASE Subscribe
BY <1>15 DEF Subscribe, Becomes, St, Failure, Fails, Listen, UnchangedOutside,
     Shape, handlerVars, tokenVars, taskVars, fileVars, raucVars
<1>16. CASE DeployProgress
BY <1>16 DEF DeployProgress, UnchangedOutside, Shape, handlerVars, tokenVars,
     taskVars, fileVars, raucVars
<1>17. CASE ReceiveCompleted
BY <1>17 DEF ReceiveCompleted, Becomes, St, Failure, Fails, Listen,
     UnchangedOutside, Shape, handlerVars, tokenVars, taskVars, fileVars,
     raucVars
<1>18. CASE PublishRebooting
BY <1>18 DEF PublishRebooting, Polls, UnchangedOutside, Shape, handlerVars,
     tokenVars, taskVars, fileVars, raucVars
<1>19. CASE Reboot
BY <1>19 DEF Reboot, Becomes, St, Failure, Fails, UnchangedOutside, Shape,
     handlerVars, tokenVars, taskVars, fileVars, raucVars
<1>20. CASE CheckReboot
  <2>1. tpc' = "loop"
    BY <1>20 DEF CheckReboot, DoPendingOta, Becomes
  <2>2. status'.tag = "Success" => status'.id \in OtaIds
    BY <1>20 DEF CheckReboot, DoPendingOta, Becomes, St, Failure, TypeOK, PersistentStates, OtaIds
  <2>3. status'.tag \in {"NoPendingOta", "Failure", "Success"}
    BY <1>20 DEF CheckReboot, DoPendingOta, Becomes, St, Failure
  <2> QED
    BY <2>1, <2>2, <2>3 DEF Shape
<1>21. CASE PublishFinal
BY <1>21 DEF PublishFinal, UnchangedOutside, Shape, handlerVars, tokenVars,
     taskVars, fileVars, raucVars
<1>22. CASE Clear
BY <1>22 DEF Clear, Idle, St, Shape, handlerVars, tokenVars, taskVars,
     fileVars, raucVars
<1>23. CASE SendOtaEvent
BY <1>23 DEF SendOtaEvent, Shape, handlerVars, tokenVars, taskVars, fileVars,
     raucVars
<1>24. CASE RaucFinishes
BY <1>24 DEF RaucFinishes, FinishInstall, Shape, handlerVars, tokenVars,
     taskVars, fileVars, raucVars
<1>25. CASE Crash \/ PowerLoss \/ DeviceReboot
BY <1>25, RestartState DEF Shape
<1>26. CASE UNCHANGED vars
BY <1>26 DEF vars, Shape, handlerVars, tokenVars, taskVars, fileVars, raucVars
<1> QED
  BY <1>1, <1>2, <1>3, <1>4, <1>5, <1>6, <1>7, <1>8, <1>9, <1>10, <1>11, <1>12, <1>13, <1>14, <1>15, <1>16, <1>17, <1>18, <1>19, <1>20, <1>21, <1>22, <1>23, <1>24, <1>25, <1>26, <1>start, <1>retry DEF Next, Task

(* Only the task clears the flag, and only outside of the loop body.       *)
LEMMA FlagStep ==
    ASSUME Shape, FlagCoversTask, [Next]_vars
    PROVE  FlagCoversTask'
<1>1. CASE Handler
BY <1>1 DEF Handler, RejectUpdate, AcceptUpdate, SendUpdate, CancelUpdate,
     RejectCancel, PublishRejection, RebootCommand, ExecuteReboot,
     FlagCoversTask, InBody, handlerVars, tokenVars, taskVars, fileVars,
     raucVars
<1>2. CASE ActorInit
BY <1>2 DEF ActorInit, St, UnchangedOutside, FlagCoversTask, InBody,
     handlerVars, tokenVars, taskVars, fileVars, raucVars
<1>3. CASE Receive
BY <1>3 DEF Receive, St, FlagCoversTask, InBody, handlerVars, tokenVars,
     taskVars, fileVars, raucVars
<1>4. CASE IsOtaInProgress
BY <1>4 DEF IsOtaInProgress, UnchangedOutside, FlagCoversTask, InBody,
     handlerVars, tokenVars, taskVars, fileVars, raucVars
<1>5. CASE PublishStatus
BY <1>5 DEF PublishStatus, UnchangedOutside, FlagCoversTask, InBody,
     handlerVars, tokenVars, taskVars, fileVars, raucVars
<1>6. CASE CancelStep
BY <1>6 DEF CancelStep, Failure, UnchangedOutside, FlagCoversTask, InBody,
     handlerVars, tokenVars, taskVars, fileVars, raucVars
<1>7. CASE LateCancel
BY <1>7 DEF LateCancel, UnchangedOutside, FlagCoversTask, InBody, handlerVars,
     tokenVars, taskVars, fileVars, raucVars
<1>8. CASE Advance
BY <1>8 DEF Advance, Polls, Becomes, St, Idle, UnchangedOutside,
     FlagCoversTask, InBody, handlerVars, tokenVars, taskVars, fileVars,
     raucVars
<1>9. CASE DownloadProgress
BY <1>9 DEF DownloadProgress, UnchangedOutside, FlagCoversTask, InBody,
     handlerVars, tokenVars, taskVars, fileVars, raucVars
<1>10. CASE DownloadError
BY <1>10 DEF DownloadError, UnchangedOutside, FlagCoversTask, InBody,
     handlerVars, tokenVars, taskVars, fileVars, raucVars
<1>11. CASE DownloadEnds
BY <1>11 DEF DownloadEnds, Becomes, St, Failure, Fails,
     UnchangedOutside, FlagCoversTask, InBody, handlerVars, tokenVars,
     taskVars, fileVars, raucVars
<1>start. CASE DownloadStarts
BY <1>start DEF DownloadStarts, Polls, Becomes, St, Failure, Fails,
     UnchangedOutside, FlagCoversTask, InBody, handlerVars, tokenVars,
     taskVars, fileVars, raucVars
<1>retry. CASE DownloadRetry
BY <1>retry DEF DownloadRetry, Becomes, St, Failure, Fails,
     UnchangedOutside, FlagCoversTask, InBody, handlerVars, tokenVars,
     taskVars, fileVars, raucVars
<1>12. CASE DeployBegins
BY <1>12 DEF DeployBegins, Polls, Becomes, St, Failure, Fails,
     UnchangedOutside, FlagCoversTask, InBody, handlerVars, tokenVars,
     taskVars, fileVars, raucVars
<1>13. CASE WriteState
BY <1>13 DEF WriteState, Becomes, St, Failure, Fails, UnchangedOutside,
     FlagCoversTask, InBody, handlerVars, tokenVars, taskVars, fileVars,
     raucVars
<1>14. CASE InstallBundle
BY <1>14 DEF InstallBundle, Becomes, St, Failure, Fails, StartInstall,
     UnchangedOutside, FlagCoversTask, InBody, handlerVars, tokenVars,
     taskVars, fileVars, raucVars
<1>15. CASE Subscribe
BY <1>15 DEF Subscribe, Becomes, St, Failure, Fails, Listen, UnchangedOutside,
     FlagCoversTask, InBody, handlerVars, tokenVars, taskVars, fileVars,
     raucVars
<1>16. CASE DeployProgress
BY <1>16 DEF DeployProgress, UnchangedOutside, FlagCoversTask, InBody,
     handlerVars, tokenVars, taskVars, fileVars, raucVars
<1>17. CASE ReceiveCompleted
BY <1>17 DEF ReceiveCompleted, Becomes, St, Failure, Fails, Listen,
     UnchangedOutside, FlagCoversTask, InBody, handlerVars, tokenVars,
     taskVars, fileVars, raucVars
<1>18. CASE PublishRebooting
BY <1>18 DEF PublishRebooting, Polls, UnchangedOutside, FlagCoversTask,
     InBody, handlerVars, tokenVars, taskVars, fileVars, raucVars
<1>19. CASE Reboot
BY <1>19 DEF Reboot, Becomes, St, Failure, Fails, UnchangedOutside,
     FlagCoversTask, InBody, handlerVars, tokenVars, taskVars, fileVars,
     raucVars
<1>20. CASE CheckReboot
BY <1>20 DEF CheckReboot, Polls, Becomes, St, DoPendingOta, Failure,
     UnchangedOutside, FlagCoversTask, InBody, handlerVars, tokenVars,
     taskVars, fileVars, raucVars
<1>21. CASE PublishFinal
BY <1>21 DEF PublishFinal, UnchangedOutside, FlagCoversTask, InBody,
     handlerVars, tokenVars, taskVars, fileVars, raucVars
<1>22. CASE Clear
BY <1>22 DEF Clear, Idle, St, FlagCoversTask, InBody, handlerVars, tokenVars,
     taskVars, fileVars, raucVars
<1>23. CASE SendOtaEvent
BY <1>23 DEF SendOtaEvent, FlagCoversTask, InBody, handlerVars, tokenVars,
     taskVars, fileVars, raucVars
<1>24. CASE RaucFinishes
BY <1>24 DEF RaucFinishes, FinishInstall, FlagCoversTask, InBody, handlerVars,
     tokenVars, taskVars, fileVars, raucVars
<1>25. CASE Crash \/ PowerLoss \/ DeviceReboot
BY <1>25 DEF Crash, PowerLoss, DeviceReboot, ProcessRestart, Idle, St,
     FlagCoversTask, InBody, handlerVars, tokenVars, taskVars, fileVars,
     raucVars
<1>26. CASE UNCHANGED vars
BY <1>26 DEF vars, FlagCoversTask, InBody, handlerVars, tokenVars, taskVars,
     fileVars, raucVars
<1> QED
  BY <1>1, <1>2, <1>3, <1>4, <1>5, <1>6, <1>7, <1>8, <1>9, <1>10, <1>11, <1>12, <1>13, <1>14, <1>15, <1>16, <1>17, <1>18, <1>19, <1>20, <1>21, <1>22, <1>23, <1>24, <1>25, <1>26, <1>start, <1>retry DEF Next, Task

(* A message enters the channel together with its place in current, and   *)
(* leaves it together with its place in the task.                          *)
LEMMA CurrentStep ==
    ASSUME TypeOK, Shape, CurrentIsLast, [Next]_vars
    PROVE  CurrentIsLast'
<1>1. CASE Handler
BY <1>1 DEF Handler, RejectUpdate, AcceptUpdate, SendUpdate, CancelUpdate,
     RejectCancel, PublishRejection, RebootCommand, ExecuteReboot,
     CurrentIsLast, InBody, Shape, handlerVars, tokenVars, taskVars, fileVars,
     raucVars
<1>2. CASE ActorInit
BY <1>2 DEF ActorInit, St, UnchangedOutside, CurrentIsLast, InBody, Shape,
     handlerVars, tokenVars, taskVars, fileVars, raucVars
<1>3. CASE Receive
  <2> SUFFICES ASSUME current # None
               PROVE  IF Tail(otaQ) = <<>>
                      THEN current.token = Head(otaQ).token
                      ELSE current = Tail(otaQ)[Len(Tail(otaQ))]
    BY <1>3 DEF Receive, CurrentIsLast, InBody, Shape, handlerVars
  <2>1. otaQ \in Seq(Messages) /\ otaQ # <<>> /\ current = otaQ[Len(otaQ)]
    BY <1>3 DEF Receive, CurrentIsLast, TypeOK
  <2>2. Len(otaQ) \in Nat \ {0} /\ Len(Tail(otaQ)) = Len(otaQ) - 1 /\ Tail(otaQ) \in Seq(Messages)
    BY <2>1
  <2>3. CASE Tail(otaQ) = <<>>
    BY <2>1, <2>2, <2>3
  <2>4. CASE Tail(otaQ) # <<>>
    <3>1. Len(Tail(otaQ)) \in 1..Len(Tail(otaQ))
      BY <2>2, <2>4
    <3> QED
      BY <2>1, <2>2, <2>4, <3>1
  <2> QED
    BY <2>3, <2>4
<1>4. CASE IsOtaInProgress
BY <1>4 DEF IsOtaInProgress, UnchangedOutside, CurrentIsLast, InBody, Shape,
     handlerVars, tokenVars, taskVars, fileVars, raucVars
<1>5. CASE PublishStatus
BY <1>5 DEF PublishStatus, UnchangedOutside, CurrentIsLast, InBody, Shape,
     handlerVars, tokenVars, taskVars, fileVars, raucVars
<1>6. CASE CancelStep
BY <1>6 DEF CancelStep, Failure, UnchangedOutside, CurrentIsLast, InBody,
     Shape, handlerVars, tokenVars, taskVars, fileVars, raucVars
<1>7. CASE LateCancel
BY <1>7 DEF LateCancel, UnchangedOutside, CurrentIsLast, InBody, Shape,
     handlerVars, tokenVars, taskVars, fileVars, raucVars
<1>8. CASE Advance
BY <1>8 DEF Advance, Polls, Becomes, St, Idle, UnchangedOutside,
     CurrentIsLast, InBody, Shape, handlerVars, tokenVars, taskVars, fileVars,
     raucVars
<1>9. CASE DownloadProgress
BY <1>9 DEF DownloadProgress, UnchangedOutside, CurrentIsLast, InBody,
     Shape, handlerVars, tokenVars, taskVars, fileVars, raucVars
<1>10. CASE DownloadError
BY <1>10 DEF DownloadError, UnchangedOutside, CurrentIsLast, InBody,
     Shape, handlerVars, tokenVars, taskVars, fileVars, raucVars
<1>11. CASE DownloadEnds
BY <1>11 DEF DownloadEnds, Becomes, St, Failure, Fails,
     UnchangedOutside, CurrentIsLast, InBody, Shape, handlerVars, tokenVars,
     taskVars, fileVars, raucVars
<1>start. CASE DownloadStarts
BY <1>start DEF DownloadStarts, Polls, Becomes, St, Failure, Fails,
     UnchangedOutside, CurrentIsLast, InBody, Shape, handlerVars, tokenVars,
     taskVars, fileVars, raucVars
<1>retry. CASE DownloadRetry
BY <1>retry DEF DownloadRetry, Becomes, St, Failure, Fails,
     UnchangedOutside, CurrentIsLast, InBody, Shape, handlerVars, tokenVars,
     taskVars, fileVars, raucVars
<1>12. CASE DeployBegins
BY <1>12 DEF DeployBegins, Polls, Becomes, St, Failure, Fails,
     UnchangedOutside, CurrentIsLast, InBody, Shape, handlerVars, tokenVars,
     taskVars, fileVars, raucVars
<1>13. CASE WriteState
BY <1>13 DEF WriteState, Becomes, St, Failure, Fails, UnchangedOutside,
     CurrentIsLast, InBody, Shape, handlerVars, tokenVars, taskVars, fileVars,
     raucVars
<1>14. CASE InstallBundle
BY <1>14 DEF InstallBundle, Becomes, St, Failure, Fails, StartInstall,
     UnchangedOutside, CurrentIsLast, InBody, Shape, handlerVars, tokenVars,
     taskVars, fileVars, raucVars
<1>15. CASE Subscribe
BY <1>15 DEF Subscribe, Becomes, St, Failure, Fails, Listen, UnchangedOutside,
     CurrentIsLast, InBody, Shape, handlerVars, tokenVars, taskVars, fileVars,
     raucVars
<1>16. CASE DeployProgress
BY <1>16 DEF DeployProgress, UnchangedOutside, CurrentIsLast, InBody, Shape,
     handlerVars, tokenVars, taskVars, fileVars, raucVars
<1>17. CASE ReceiveCompleted
BY <1>17 DEF ReceiveCompleted, Becomes, St, Failure, Fails, Listen,
     UnchangedOutside, CurrentIsLast, InBody, Shape, handlerVars, tokenVars,
     taskVars, fileVars, raucVars
<1>18. CASE PublishRebooting
BY <1>18 DEF PublishRebooting, Polls, UnchangedOutside, CurrentIsLast, InBody,
     Shape, handlerVars, tokenVars, taskVars, fileVars, raucVars
<1>19. CASE Reboot
BY <1>19 DEF Reboot, Becomes, St, Failure, Fails, UnchangedOutside,
     CurrentIsLast, InBody, Shape, handlerVars, tokenVars, taskVars, fileVars,
     raucVars
<1>20. CASE CheckReboot
BY <1>20 DEF CheckReboot, Polls, Becomes, St, DoPendingOta, Failure,
     UnchangedOutside, CurrentIsLast, InBody, Shape, handlerVars, tokenVars,
     taskVars, fileVars, raucVars
<1>21. CASE PublishFinal
BY <1>21 DEF PublishFinal, UnchangedOutside, CurrentIsLast, InBody, Shape,
     handlerVars, tokenVars, taskVars, fileVars, raucVars
<1>22. CASE Clear
BY <1>22 DEF Clear, Idle, St, CurrentIsLast, InBody, Shape, handlerVars,
     tokenVars, taskVars, fileVars, raucVars
<1>23. CASE SendOtaEvent
BY <1>23 DEF SendOtaEvent, CurrentIsLast, InBody, Shape, handlerVars,
     tokenVars, taskVars, fileVars, raucVars
<1>24. CASE RaucFinishes
BY <1>24 DEF RaucFinishes, FinishInstall, CurrentIsLast, InBody, Shape,
     handlerVars, tokenVars, taskVars, fileVars, raucVars
<1>25. CASE Crash \/ PowerLoss \/ DeviceReboot
BY <1>25, RestartState DEF CurrentIsLast, InBody, Shape
<1>26. CASE UNCHANGED vars
BY <1>26 DEF vars, CurrentIsLast, InBody, Shape, handlerVars, tokenVars,
     taskVars, fileVars, raucVars
<1> QED
  BY <1>1, <1>2, <1>3, <1>4, <1>5, <1>6, <1>7, <1>8, <1>9, <1>10, <1>11, <1>12, <1>13, <1>14, <1>15, <1>16, <1>17, <1>18, <1>19, <1>20, <1>21, <1>22, <1>23, <1>24, <1>25, <1>26, <1>start, <1>retry DEF Next, Task

(* next is called in a status that can be cancelled, and the download is   *)
(* begun or begun again, only when the token is not cancelled.             *)
LEMMA CancelStopsStep ==
    ASSUME TypeOK, Shape, CancelInTime, [Next]_vars
    PROVE  CancelInTime'
<1>1. CASE Handler
BY <1>1 DEF Handler, RejectUpdate, AcceptUpdate, SendUpdate, CancelUpdate,
     RejectCancel, PublishRejection, RebootCommand, ExecuteReboot,
     StillCancellable, CancelInTime, IsCancellable, TypeOK, Shape,
     handlerVars, tokenVars, taskVars, fileVars, raucVars
<1>2. CASE ActorInit
BY <1>2 DEF ActorInit, St, UnchangedOutside, CancelInTime, IsCancellable,
     TypeOK, Shape, handlerVars, tokenVars, taskVars, fileVars, raucVars
<1>3. CASE Receive
BY <1>3 DEF Receive, St, CancelInTime, IsCancellable, TypeOK, Shape,
     handlerVars, tokenVars, taskVars, fileVars, raucVars
<1>4. CASE IsOtaInProgress
BY <1>4 DEF IsOtaInProgress, UnchangedOutside, CancelInTime,
     IsCancellable, TypeOK, Shape, handlerVars, tokenVars, taskVars, fileVars,
     raucVars
<1>5. CASE PublishStatus
BY <1>5 DEF PublishStatus, UnchangedOutside, CancelInTime, IsCancellable,
     TypeOK, Shape, handlerVars, tokenVars, taskVars, fileVars, raucVars
<1>6. CASE CancelStep
BY <1>6 DEF CancelStep, Failure, UnchangedOutside, CancelInTime,
     IsCancellable, TypeOK, Shape, handlerVars, tokenVars, taskVars, fileVars,
     raucVars
<1>7. CASE LateCancel
BY <1>7 DEF LateCancel, UnchangedOutside, CancelInTime, IsCancellable,
     TypeOK, Shape, handlerVars, tokenVars, taskVars, fileVars, raucVars
<1>8. CASE Advance
BY <1>8 DEF Advance, Polls, Becomes, St, Idle, UnchangedOutside,
     CancelInTime, IsCancellable, TypeOK, Shape, handlerVars, tokenVars,
     taskVars, fileVars, raucVars
<1>9. CASE DownloadProgress
BY <1>9 DEF DownloadProgress, UnchangedOutside, CancelInTime,
     IsCancellable, TypeOK, Shape, handlerVars, tokenVars, taskVars, fileVars,
     raucVars
<1>10. CASE DownloadError
BY <1>10 DEF DownloadError, UnchangedOutside, CancelInTime,
     IsCancellable, TypeOK, Shape, handlerVars, tokenVars, taskVars, fileVars,
     raucVars
<1>11. CASE DownloadEnds
BY <1>11 DEF DownloadEnds, Becomes, St, Failure, Fails,
     UnchangedOutside, CancelInTime, IsCancellable, TypeOK, Shape,
     handlerVars, tokenVars, taskVars, fileVars, raucVars
<1>start. CASE DownloadStarts
BY <1>start DEF DownloadStarts, Polls, Becomes, St, Failure, Fails,
     UnchangedOutside, CancelInTime, IsCancellable, TypeOK, Shape,
     handlerVars, tokenVars, taskVars, fileVars, raucVars
<1>retry. CASE DownloadRetry
BY <1>retry DEF DownloadRetry, Becomes, St, Failure, Fails,
     UnchangedOutside, CancelInTime, IsCancellable, TypeOK, Shape,
     handlerVars, tokenVars, taskVars, fileVars, raucVars
<1>12. CASE DeployBegins
BY <1>12 DEF DeployBegins, Polls, Becomes, St, Failure, Fails,
     UnchangedOutside, CancelInTime, IsCancellable, TypeOK, Shape,
     handlerVars, tokenVars, taskVars, fileVars, raucVars
<1>13. CASE WriteState
BY <1>13 DEF WriteState, Becomes, St, Failure, Fails, UnchangedOutside,
     CancelInTime, IsCancellable, TypeOK, Shape, handlerVars, tokenVars,
     taskVars, fileVars, raucVars
<1>14. CASE InstallBundle
BY <1>14 DEF InstallBundle, Becomes, St, Failure, Fails, StartInstall,
     UnchangedOutside, CancelInTime, IsCancellable, TypeOK, Shape,
     handlerVars, tokenVars, taskVars, fileVars, raucVars
<1>15. CASE Subscribe
BY <1>15 DEF Subscribe, Becomes, St, Failure, Fails, Listen, UnchangedOutside,
     CancelInTime, IsCancellable, TypeOK, Shape, handlerVars, tokenVars,
     taskVars, fileVars, raucVars
<1>16. CASE DeployProgress
BY <1>16 DEF DeployProgress, UnchangedOutside, CancelInTime,
     IsCancellable, TypeOK, Shape, handlerVars, tokenVars, taskVars, fileVars,
     raucVars
<1>17. CASE ReceiveCompleted
BY <1>17 DEF ReceiveCompleted, Becomes, St, Failure, Fails, Listen,
     UnchangedOutside, CancelInTime, IsCancellable, TypeOK, Shape,
     handlerVars, tokenVars, taskVars, fileVars, raucVars
<1>18. CASE PublishRebooting
BY <1>18 DEF PublishRebooting, Polls, UnchangedOutside, CancelInTime,
     IsCancellable, TypeOK, Shape, handlerVars, tokenVars, taskVars, fileVars,
     raucVars
<1>19. CASE Reboot
BY <1>19 DEF Reboot, Becomes, St, Failure, Fails, UnchangedOutside,
     CancelInTime, IsCancellable, TypeOK, Shape, handlerVars, tokenVars,
     taskVars, fileVars, raucVars
<1>20. CASE CheckReboot
BY <1>20 DEF CheckReboot, Polls, Becomes, St, DoPendingOta, Failure,
     UnchangedOutside, CancelInTime, IsCancellable, TypeOK, Shape,
     handlerVars, tokenVars, taskVars, fileVars, raucVars
<1>21. CASE PublishFinal
BY <1>21 DEF PublishFinal, UnchangedOutside, CancelInTime, IsCancellable,
     TypeOK, Shape, handlerVars, tokenVars, taskVars, fileVars, raucVars
<1>22. CASE Clear
BY <1>22 DEF Clear, Idle, St, CancelInTime, IsCancellable, TypeOK, Shape,
     handlerVars, tokenVars, taskVars, fileVars, raucVars
<1>23. CASE SendOtaEvent
BY <1>23 DEF SendOtaEvent, CancelInTime, IsCancellable, TypeOK, Shape,
     handlerVars, tokenVars, taskVars, fileVars, raucVars
<1>24. CASE RaucFinishes
BY <1>24 DEF RaucFinishes, FinishInstall, CancelInTime, IsCancellable,
     TypeOK, Shape, handlerVars, tokenVars, taskVars, fileVars, raucVars
<1>25. CASE Crash \/ PowerLoss \/ DeviceReboot
BY <1>25, RestartState DEF CancelInTime, IsCancellable, Shape
<1>26. CASE UNCHANGED vars
BY <1>26 DEF vars, CancelInTime, IsCancellable, TypeOK, Shape,
     handlerVars, tokenVars, taskVars, fileVars, raucVars
<1> QED
  BY <1>1, <1>2, <1>3, <1>4, <1>5, <1>6, <1>7, <1>8, <1>9, <1>10, <1>11, <1>12, <1>13, <1>14, <1>15, <1>16, <1>17, <1>18, <1>19, <1>20, <1>21, <1>22, <1>23, <1>24, <1>25, <1>26, <1>start, <1>retry DEF Next, Task

(* The record is written before the installation begins, and nothing       *)
(* touches it before the update is over.                                    *)
LEMMA RecordedStep ==
    ASSUME TypeOK, Shape, Recorded, [Next]_vars
    PROVE  Recorded'
<1>1. CASE Handler
BY <1>1 DEF Handler, RejectUpdate, AcceptUpdate, SendUpdate, CancelUpdate,
     RejectCancel, PublishRejection, RebootCommand, ExecuteReboot, Recorded,
     Shape, handlerVars, tokenVars, taskVars, fileVars, raucVars
<1>2. CASE ActorInit
BY <1>2 DEF ActorInit, St, UnchangedOutside, Recorded, Shape, handlerVars,
     tokenVars, taskVars, fileVars, raucVars
<1>3. CASE Receive
BY <1>3 DEF Receive, St, Recorded, Shape, handlerVars, tokenVars, taskVars,
     fileVars, raucVars
<1>4. CASE IsOtaInProgress
BY <1>4 DEF IsOtaInProgress, UnchangedOutside, Recorded, Shape, handlerVars,
     tokenVars, taskVars, fileVars, raucVars
<1>5. CASE PublishStatus
BY <1>5 DEF PublishStatus, UnchangedOutside, Recorded, Shape, handlerVars,
     tokenVars, taskVars, fileVars, raucVars
<1>6. CASE CancelStep
BY <1>6 DEF CancelStep, Failure, UnchangedOutside, Recorded, Shape,
     handlerVars, tokenVars, taskVars, fileVars, raucVars
<1>7. CASE LateCancel
BY <1>7 DEF LateCancel, UnchangedOutside, Recorded, Shape, handlerVars,
     tokenVars, taskVars, fileVars, raucVars
<1>8. CASE Advance
BY <1>8 DEF Advance, Polls, Becomes, St, Idle, UnchangedOutside, Recorded,
     Shape, handlerVars, tokenVars, taskVars, fileVars, raucVars
<1>9. CASE DownloadProgress
BY <1>9 DEF DownloadProgress, UnchangedOutside, Recorded, Shape,
     handlerVars, tokenVars, taskVars, fileVars, raucVars
<1>10. CASE DownloadError
BY <1>10 DEF DownloadError, UnchangedOutside, Recorded, Shape,
     handlerVars, tokenVars, taskVars, fileVars, raucVars
<1>11. CASE DownloadEnds
BY <1>11 DEF DownloadEnds, Becomes, St, Failure, Fails,
     UnchangedOutside, Recorded, Shape, handlerVars, tokenVars, taskVars,
     fileVars, raucVars
<1>start. CASE DownloadStarts
BY <1>start DEF DownloadStarts, Polls, Becomes, St, Failure, Fails,
     UnchangedOutside, Recorded, Shape, handlerVars, tokenVars, taskVars,
     fileVars, raucVars
<1>retry. CASE DownloadRetry
BY <1>retry DEF DownloadRetry, Becomes, St, Failure, Fails,
     UnchangedOutside, Recorded, Shape, handlerVars, tokenVars, taskVars,
     fileVars, raucVars
<1>12. CASE DeployBegins
BY <1>12 DEF DeployBegins, Polls, Becomes, St, Failure, Fails,
     UnchangedOutside, Recorded, Shape, handlerVars, tokenVars, taskVars,
     fileVars, raucVars
<1>13. CASE WriteState
BY <1>13 DEF WriteState, Becomes, St, Failure, Fails, UnchangedOutside,
     Recorded, Shape, handlerVars, tokenVars, taskVars, fileVars, raucVars
<1>14. CASE InstallBundle
BY <1>14 DEF InstallBundle, Becomes, St, Failure, Fails, StartInstall,
     UnchangedOutside, Recorded, Shape, handlerVars, tokenVars, taskVars,
     fileVars, raucVars
<1>15. CASE Subscribe
BY <1>15 DEF Subscribe, Becomes, St, Failure, Fails, Listen, UnchangedOutside,
     Recorded, Shape, handlerVars, tokenVars, taskVars, fileVars, raucVars
<1>16. CASE DeployProgress
BY <1>16 DEF DeployProgress, UnchangedOutside, Recorded, Shape, handlerVars,
     tokenVars, taskVars, fileVars, raucVars
<1>17. CASE ReceiveCompleted
BY <1>17 DEF ReceiveCompleted, Becomes, St, Failure, Fails, Listen,
     UnchangedOutside, Recorded, Shape, handlerVars, tokenVars, taskVars,
     fileVars, raucVars
<1>18. CASE PublishRebooting
BY <1>18 DEF PublishRebooting, Polls, UnchangedOutside, Recorded, Shape,
     handlerVars, tokenVars, taskVars, fileVars, raucVars
<1>19. CASE Reboot
BY <1>19 DEF Reboot, Becomes, St, Failure, Fails, UnchangedOutside, Recorded,
     Shape, handlerVars, tokenVars, taskVars, fileVars, raucVars
<1>20. CASE CheckReboot
BY <1>20 DEF CheckReboot, Polls, Becomes, St, DoPendingOta, Failure,
     UnchangedOutside, Recorded, Shape, handlerVars, tokenVars, taskVars,
     fileVars, raucVars
<1>21. CASE PublishFinal
BY <1>21 DEF PublishFinal, UnchangedOutside, Recorded, Shape, handlerVars,
     tokenVars, taskVars, fileVars, raucVars
<1>22. CASE Clear
BY <1>22 DEF Clear, Idle, St, Recorded, Shape, handlerVars, tokenVars,
     taskVars, fileVars, raucVars
<1>23. CASE SendOtaEvent
BY <1>23 DEF SendOtaEvent, Recorded, Shape, handlerVars, tokenVars, taskVars,
     fileVars, raucVars
<1>24. CASE RaucFinishes
BY <1>24 DEF RaucFinishes, FinishInstall, Recorded, Shape, handlerVars,
     tokenVars, taskVars, fileVars, raucVars
<1>25. CASE Crash \/ PowerLoss \/ DeviceReboot
BY <1>25, RestartState DEF Recorded, Shape
<1>26. CASE UNCHANGED vars
BY <1>26 DEF vars, Recorded, Shape, handlerVars, tokenVars, taskVars,
     fileVars, raucVars
<1> QED
  BY <1>1, <1>2, <1>3, <1>4, <1>5, <1>6, <1>7, <1>8, <1>9, <1>10, <1>11, <1>12, <1>13, <1>14, <1>15, <1>16, <1>17, <1>18, <1>19, <1>20, <1>21, <1>22, <1>23, <1>24, <1>25, <1>26, <1>start, <1>retry DEF Next, Task

(* The record is written inside an update, and removed at its end.          *)
LEMMA CleanStep ==
    ASSUME CleanWhenIdle, [Next]_vars
    PROVE  CleanWhenIdle'
<1>1. CASE Handler
BY <1>1 DEF Handler, RejectUpdate, AcceptUpdate, SendUpdate, CancelUpdate,
     RejectCancel, PublishRejection, RebootCommand, ExecuteReboot,
     CleanWhenIdle, handlerVars, tokenVars, taskVars, fileVars, raucVars
<1>2. CASE ActorInit
BY <1>2 DEF ActorInit, St, UnchangedOutside, CleanWhenIdle, handlerVars,
     tokenVars, taskVars, fileVars, raucVars
<1>3. CASE Receive
BY <1>3 DEF Receive, St, CleanWhenIdle, handlerVars, tokenVars, taskVars,
     fileVars, raucVars
<1>4. CASE IsOtaInProgress
BY <1>4 DEF IsOtaInProgress, UnchangedOutside, CleanWhenIdle, handlerVars,
     tokenVars, taskVars, fileVars, raucVars
<1>5. CASE PublishStatus
BY <1>5 DEF PublishStatus, UnchangedOutside, CleanWhenIdle, handlerVars,
     tokenVars, taskVars, fileVars, raucVars
<1>6. CASE CancelStep
BY <1>6 DEF CancelStep, Failure, UnchangedOutside, CleanWhenIdle, handlerVars,
     tokenVars, taskVars, fileVars, raucVars
<1>7. CASE LateCancel
BY <1>7 DEF LateCancel, UnchangedOutside, CleanWhenIdle, handlerVars,
     tokenVars, taskVars, fileVars, raucVars
<1>8. CASE Advance
BY <1>8 DEF Advance, Polls, Becomes, St, Idle, UnchangedOutside,
     CleanWhenIdle, handlerVars, tokenVars, taskVars, fileVars, raucVars
<1>9. CASE DownloadProgress
BY <1>9 DEF DownloadProgress, UnchangedOutside, CleanWhenIdle,
     handlerVars, tokenVars, taskVars, fileVars, raucVars
<1>10. CASE DownloadError
BY <1>10 DEF DownloadError, UnchangedOutside, CleanWhenIdle,
     handlerVars, tokenVars, taskVars, fileVars, raucVars
<1>11. CASE DownloadEnds
BY <1>11 DEF DownloadEnds, Becomes, St, Failure, Fails,
     UnchangedOutside, CleanWhenIdle, handlerVars, tokenVars, taskVars,
     fileVars, raucVars
<1>start. CASE DownloadStarts
BY <1>start DEF DownloadStarts, Polls, Becomes, St, Failure, Fails,
     UnchangedOutside, CleanWhenIdle, handlerVars, tokenVars, taskVars,
     fileVars, raucVars
<1>retry. CASE DownloadRetry
BY <1>retry DEF DownloadRetry, Becomes, St, Failure, Fails,
     UnchangedOutside, CleanWhenIdle, handlerVars, tokenVars, taskVars,
     fileVars, raucVars
<1>12. CASE DeployBegins
BY <1>12 DEF DeployBegins, Polls, Becomes, St, Failure, Fails,
     UnchangedOutside, CleanWhenIdle, handlerVars, tokenVars, taskVars,
     fileVars, raucVars
<1>13. CASE WriteState
BY <1>13 DEF WriteState, Becomes, St, Failure, Fails, UnchangedOutside,
     CleanWhenIdle, handlerVars, tokenVars, taskVars, fileVars, raucVars
<1>14. CASE InstallBundle
BY <1>14 DEF InstallBundle, Becomes, St, Failure, Fails, StartInstall,
     UnchangedOutside, CleanWhenIdle, handlerVars, tokenVars, taskVars,
     fileVars, raucVars
<1>15. CASE Subscribe
BY <1>15 DEF Subscribe, Becomes, St, Failure, Fails, Listen, UnchangedOutside,
     CleanWhenIdle, handlerVars, tokenVars, taskVars, fileVars, raucVars
<1>16. CASE DeployProgress
BY <1>16 DEF DeployProgress, UnchangedOutside, CleanWhenIdle, handlerVars,
     tokenVars, taskVars, fileVars, raucVars
<1>17. CASE ReceiveCompleted
BY <1>17 DEF ReceiveCompleted, Becomes, St, Failure, Fails, Listen,
     UnchangedOutside, CleanWhenIdle, handlerVars, tokenVars, taskVars,
     fileVars, raucVars
<1>18. CASE PublishRebooting
BY <1>18 DEF PublishRebooting, Polls, UnchangedOutside, CleanWhenIdle,
     handlerVars, tokenVars, taskVars, fileVars, raucVars
<1>19. CASE Reboot
BY <1>19 DEF Reboot, Becomes, St, Failure, Fails, UnchangedOutside,
     CleanWhenIdle, handlerVars, tokenVars, taskVars, fileVars, raucVars
<1>20. CASE CheckReboot
BY <1>20 DEF CheckReboot, Polls, Becomes, St, DoPendingOta, Failure,
     UnchangedOutside, CleanWhenIdle, handlerVars, tokenVars, taskVars,
     fileVars, raucVars
<1>21. CASE PublishFinal
BY <1>21 DEF PublishFinal, UnchangedOutside, CleanWhenIdle, handlerVars,
     tokenVars, taskVars, fileVars, raucVars
<1>22. CASE Clear
BY <1>22 DEF Clear, Idle, St, CleanWhenIdle, handlerVars, tokenVars, taskVars,
     fileVars, raucVars
<1>23. CASE SendOtaEvent
BY <1>23 DEF SendOtaEvent, CleanWhenIdle, handlerVars, tokenVars, taskVars,
     fileVars, raucVars
<1>24. CASE RaucFinishes
BY <1>24 DEF RaucFinishes, FinishInstall, CleanWhenIdle, handlerVars,
     tokenVars, taskVars, fileVars, raucVars
<1>25. CASE Crash \/ PowerLoss \/ DeviceReboot
BY <1>25 DEF Crash, PowerLoss, DeviceReboot, ProcessRestart, Idle, St,
     CleanWhenIdle, handlerVars, tokenVars, taskVars, fileVars, raucVars
<1>26. CASE UNCHANGED vars
BY <1>26 DEF vars, CleanWhenIdle, handlerVars, tokenVars, taskVars, fileVars,
     raucVars
<1> QED
  BY <1>1, <1>2, <1>3, <1>4, <1>5, <1>6, <1>7, <1>8, <1>9, <1>10, <1>11, <1>12, <1>13, <1>14, <1>15, <1>16, <1>17, <1>18, <1>19, <1>20, <1>21, <1>22, <1>23, <1>24, <1>25, <1>26, <1>start, <1>retry DEF Next, Task

(* A boot ends in the slot that was activated and holds the image, or in   *)
(* the recorded one.                                                       *)
LEMMA BootInstalled ==
    ASSUME TypeOK, Installed, Boot, UNCHANGED fileVars
    PROVE  Installed'
<1> SUFFICES ASSUME stateFile \notin {None, Torn}
             PROVE  /\ install' = None /\ primary' = booted'
                    /\ ~dirty =>
                        /\ good[stateFile.slot]
                        /\ \A s \in Slots \ {stateFile.slot} :
                             s = booted' => image[s] = stateFile.uuid
  BY DEF Installed, Boot, fileVars
<1>1. install' = None /\ primary' = booted'
  BY DEF Boot
<1>2. ASSUME ~dirty
      PROVE  /\ good[stateFile.slot]
             /\ \A s \in Slots \ {stateFile.slot} :
                  s = booted' => image[s] = stateFile.uuid
  <2>1. /\ good[stateFile.slot]
        /\ \A s \in Slots \ {stateFile.slot} :
             s \in {primary, booted} => image[s] = stateFile.uuid
    BY <1>2 DEF Installed
  <2>2. primary \in Slots /\ stateFile.slot \in Slots
    BY DEF TypeOK, RaucTypeOK, PersistentStates
  <2>3. booted' = primary \/ booted' = stateFile.slot
    <3>1. CASE booted' = primary
      BY <3>1
    <3>2. CASE ~ good[primary] /\ booted' = Other(primary)
      <4>1. Other(primary) \in Slots /\ Other(primary) # primary
        BY <2>2, OtherSlot
      <4>2. primary # stateFile.slot
        BY <2>1, <3>2
      <4> QED  BY <2>2, <3>2, <4>1, <4>2, RaucAssumption
    <3> QED  BY <3>1, <3>2 DEF Boot
  <2> QED  BY <2>1, <2>3
<1> QED  BY <1>1, <1>2

(* An installation writes and activates the slot that is not recorded.     *)
LEMMA FinishInstalled ==
    ASSUME TypeOK, Installed, NEW result \in {"ok", "fail"},
           FinishInstall(result), UNCHANGED fileVars
    PROVE  Installed'
<1> SUFFICES ASSUME stateFile \notin {None, Torn}
             PROVE  /\ booted' # stateFile.slot => install' = None /\ primary' = booted'
                    /\ ~dirty =>
                        /\ good'[stateFile.slot]
                        /\ install' \in {None, stateFile.uuid}
                        /\ \A s \in Slots \ {stateFile.slot} :
                             s \in {primary', booted'} => image'[s] = stateFile.uuid
  BY DEF Installed, fileVars
<1>1. install # None /\ install' = None /\ booted' = booted /\ good' = good
  BY DEF FinishInstall
<1>2. booted = stateFile.slot
  BY <1>1 DEF Installed
<1>3. ASSUME ~dirty, NEW s \in Slots \ {stateFile.slot}, s \in {primary', booted'}
      PROVE  image'[s] = stateFile.uuid
  <2>1. install = stateFile.uuid
    BY <1>1, <1>3 DEF Installed
  <2>2. s = primary'
    BY <1>1, <1>2, <1>3
  <2>3. CASE result = "ok"
    BY <1>3, <2>1, <2>2, <2>3 DEF FinishInstall, TypeOK, RaucTypeOK
  <2>4. CASE result # "ok"
    BY <1>3, <2>2, <2>4 DEF FinishInstall, Installed
  <2> QED  BY <2>3, <2>4
<1> QED  BY <1>1, <1>2, <1>3 DEF Installed

(* RAUC is asked to install only what is recorded, from the slot recorded. *)
LEMMA StartInstalled ==
    ASSUME TypeOK, Shape, Recorded, Installed, InstallBundle
    PROVE  Installed'
<1>1. stateFile = [uuid |-> status.id.uuid, slot |-> booted]
  BY DEF Recorded, InstallBundle
<1>2. UNCHANGED fileVars
  BY DEF InstallBundle
<1>3. CASE UNCHANGED raucVars
  BY <1>2, <1>3 DEF Installed, fileVars, raucVars
<1>4. CASE StartInstall(status.id.uuid)
  <2>1. Other(booted) \in Slots /\ Other(booted) # booted
    BY OtherSlot DEF TypeOK, RaucTypeOK
  <2>2. /\ booted' = stateFile.slot /\ primary' = stateFile.slot
        /\ install' = stateFile.uuid
    BY <1>1, <1>4 DEF StartInstall
  <2>3. good'[stateFile.slot] = good[stateFile.slot]
    BY <1>1, <1>4, <2>1 DEF StartInstall, TypeOK, RaucTypeOK
  <2> QED  BY <1>2, <2>2, <2>3 DEF Installed, fileVars
<1> QED  BY <1>3, <1>4 DEF InstallBundle

(* A record is written with the slot that is booted, and tells whether the *)
(* device would stay there.                                                *)
LEMMA WriteInstalled ==
    ASSUME TypeOK, Installed, WriteState
    PROVE  Installed'
<1>1. UNCHANGED raucVars
  BY DEF WriteState
<1>2. CASE UNCHANGED fileVars
  BY <1>1, <1>2 DEF Installed, fileVars, raucVars
<1>3. CASE /\ stateFile' = [uuid |-> status.id.uuid, slot |-> booted]
           /\ dirty' = ~Settled
  BY <1>1, <1>3 DEF Installed, Settled, raucVars
<1> QED  BY <1>2, <1>3 DEF WriteState

(* Marking a slot good takes nothing away.                                 *)
LEMMA CheckInstalled ==
    ASSUME TypeOK, Installed, CheckReboot
    PROVE  Installed' /\ Reported'
<1>1. UNCHANGED fileVars
  BY DEF CheckReboot
<1>2. CASE UNCHANGED raucVars /\ status'.tag # "Success"
  BY <1>1, <1>2 DEF Installed, Reported, fileVars, raucVars
<1>3. CASE /\ stateFile \notin {None, Torn} /\ stateFile.slot # booted
           /\ MarkGood(primary)
           /\ status' = St("Success", [uuid |-> stateFile.uuid, url |-> NoUrl])
  <2>1. /\ UNCHANGED <<booted, primary, image, install>>
        /\ good' = [good EXCEPT ![primary] = TRUE]
    BY <1>3 DEF MarkGood
  <2>2. stateFile.slot \in Slots /\ primary \in Slots /\ good \in [Slots -> BOOLEAN]
    BY <1>3 DEF TypeOK, RaucTypeOK, PersistentStates
  <2>3. good'[primary]
    BY <2>1, <2>2
  <2>4. good[stateFile.slot] => good'[stateFile.slot]
    BY <2>1, <2>2
  <2>5. Installed'
    BY <1>1, <2>1, <2>4 DEF Installed, fileVars
  <2>6. Reported'
    BY <1>1, <1>3, <2>1, <2>3 DEF Reported, St, fileVars
  <2> QED  BY <2>5, <2>6
<1> QED  BY <1>2, <1>3 DEF CheckReboot, DoPendingOta, Becomes, St, Failure

(* No other step reaches a slot or the record; and once Success is reached, *)
(* nothing but a boot or the end of the update follows.                     *)
LEMMA InstalledStep ==
    ASSUME TypeOK, Shape, Recorded, Installed, Reported, [Next]_vars
    PROVE  Installed' /\ Reported'
<1>1. ASSUME UNCHANGED <<fileVars, booted, primary, image, good, install>>,
             status' = status \/ status'.tag # "Success"
      PROVE  Installed' /\ Reported'
  BY <1>1 DEF Installed, Reported, fileVars
<1>2. CASE Handler
  <2>1. UNCHANGED <<taskVars, fileVars, raucVars>>
    BY <1>2 DEF Handler, RejectUpdate, AcceptUpdate, SendUpdate, CancelUpdate,
       RejectCancel, PublishRejection, RebootCommand, ExecuteReboot
  <2> QED  BY <1>1, <2>1 DEF taskVars, raucVars
<1>3. CASE \/ ActorInit \/ Receive \/ IsOtaInProgress \/ PublishStatus
           \/ CancelStep \/ LateCancel \/ Advance
  <2>1. UNCHANGED <<fileVars, raucVars>>
    BY <1>3 DEF ActorInit, Receive, IsOtaInProgress, PublishStatus, CancelStep,
       LateCancel, Advance
  <2>2. status' = status \/ status'.tag # "Success"
    BY <1>3 DEF ActorInit, Receive, IsOtaInProgress, PublishStatus, CancelStep,
       LateCancel, Advance, Becomes, St, Failure, Idle
  <2> QED  BY <1>1, <2>1, <2>2 DEF raucVars
<1>4. CASE \/ DownloadStarts \/ DownloadProgress \/ DownloadError
           \/ DownloadRetry \/ DownloadEnds
           \/ DeployProgress \/ PublishRebooting \/ Reboot \/ PublishFinal
  <2>1. UNCHANGED <<fileVars, raucVars>>
    BY <1>4 DEF DownloadStarts, DownloadProgress, DownloadError, DownloadRetry,
       DownloadEnds, DeployProgress, PublishRebooting, Reboot, PublishFinal
  <2>2. status' = status \/ status'.tag # "Success"
    BY <1>4 DEF DownloadStarts, DownloadProgress, DownloadError, DownloadRetry,
       DownloadEnds, DeployProgress, PublishRebooting, Reboot, PublishFinal,
     Becomes, Fails, St, Failure, taskVars
  <2> QED  BY <1>1, <2>1, <2>2 DEF raucVars
<1>5. CASE DeployBegins
  <2>1. /\ status.tag = "Deploying" /\ UNCHANGED <<dirty, raucVars>>
        /\ stateFile' = Torn \/ UNCHANGED stateFile
    BY <1>5 DEF DeployBegins, Polls
  <2>2. status'.tag # "Success"
    BY <1>5, <2>1 DEF DeployBegins, Becomes, Fails, Failure
  <2> QED  BY <2>1, <2>2 DEF Installed, Reported, raucVars
<1>6. CASE WriteState
  <2>1. status'.tag # "Success"
    BY <1>6 DEF WriteState, Becomes, Fails, Failure, Shape
  <2> QED  BY <1>6, <2>1, WriteInstalled DEF Reported
<1>7. CASE InstallBundle
  <2>1. status'.tag # "Success"
    BY <1>7 DEF InstallBundle, Becomes, Fails, Failure, Shape
  <2> QED  BY <1>7, <2>1, StartInstalled DEF Reported
<1>8. CASE Subscribe \/ ReceiveCompleted
  <2>1. UNCHANGED <<fileVars, booted, primary, image, good, install>>
    BY <1>8 DEF Subscribe, ReceiveCompleted, Listen, raucVars
  <2>2. status'.tag # "Success"
    <3>1. CASE Subscribe
      BY <3>1 DEF Subscribe, Listen, Becomes, Fails, Failure, Shape
    <3>2. CASE ReceiveCompleted
      BY <3>2 DEF ReceiveCompleted, Becomes, Fails, Failure, St
    <3> QED  BY <1>8, <3>1, <3>2
  <2> QED  BY <1>1, <2>1, <2>2
<1>9. CASE CheckReboot
  BY <1>9, CheckInstalled
<1>10. CASE Clear
  <2>1. /\ status'.tag # "Success" /\ UNCHANGED <<dirty, raucVars>>
        /\ stateFile' = None \/ UNCHANGED stateFile
    BY <1>10 DEF Clear, Idle, St
  <2> QED  BY <2>1 DEF Installed, Reported, raucVars
<1>11. CASE SendOtaEvent
  BY <1>1, <1>11 DEF SendOtaEvent, taskVars, raucVars
<1>12. CASE RaucFinishes
  <2>1. PICK result \in {"ok", "fail"} : FinishInstall(result)
    BY <1>12 DEF RaucFinishes
  <2>2. UNCHANGED <<status, fileVars>>
    BY <1>12 DEF RaucFinishes, taskVars
  <2>3. status.tag # "Success"
    BY <2>1 DEF FinishInstall, Installed, Reported
  <2> QED  BY <2>1, <2>2, <2>3, FinishInstalled DEF Reported
<1>13. CASE Crash
  <2>1. /\ UNCHANGED <<fileVars, booted, primary, image, good, install>>
        /\ status'.tag # "Success"
    BY <1>13, RestartState DEF Crash, Listen
  <2> QED  BY <1>1, <2>1
<1>14. CASE PowerLoss \/ DeviceReboot
  <2>1. Boot /\ UNCHANGED fileVars /\ status'.tag # "Success"
    BY <1>14, RestartState DEF PowerLoss, DeviceReboot
  <2> QED  BY <2>1, BootInstalled DEF Reported
<1>15. CASE UNCHANGED vars
  BY <1>1, <1>15 DEF vars, taskVars, raucVars
<1> QED
  BY <1>2, <1>3, <1>4, <1>5, <1>6, <1>7, <1>8, <1>9, <1>10, <1>11, <1>12,
     <1>13, <1>14, <1>15 DEF Next, Task

(* Between two updates, and while the record is read back, no update is    *)
(* named.                                                                  *)
LEMMA AnonymousStep ==
    ASSUME TypeOK, Shape, Anonymous, [Next]_vars
    PROVE  Anonymous'
<1>1. ASSUME status' = status \/ status'.tag \notin {"Idle", "Rebooted", "NoPendingOta"}
      PROVE  Anonymous'
  BY <1>1 DEF Anonymous
<1>2. ASSUME status'.id = None
      PROVE  Anonymous'
  BY <1>2 DEF Anonymous
<1>3. CASE \/ Handler \/ SendOtaEvent \/ RaucFinishes \/ UNCHANGED vars
  <2>1. status' = status
    BY <1>3 DEF Handler, RejectUpdate, AcceptUpdate, SendUpdate, CancelUpdate,
       RejectCancel, PublishRejection, RebootCommand, ExecuteReboot,
       SendOtaEvent, RaucFinishes, vars, taskVars
  <2> QED  BY <1>1, <2>1
<1>4. CASE ActorInit
  BY <1>1, <1>2, <1>4 DEF ActorInit, St
<1>5. CASE \/ Receive \/ IsOtaInProgress \/ PublishStatus \/ CancelStep \/ LateCancel
  BY <1>1, <1>5 DEF Receive, IsOtaInProgress, PublishStatus, CancelStep,
     LateCancel, St, Failure
<1>6. CASE Advance
  <2>1. status' = status \/ status'.tag # "Idle" \/ status' = Idle
    BY <1>6 DEF Advance, Becomes, St
  <2>2. status' = status \/ status'.tag \notin {"Rebooted", "NoPendingOta"}
    BY <1>6 DEF Advance, Becomes, St, Idle
  <2>3. status' = Idle => status'.id = None
    BY DEF Idle, St
  <2> QED  BY <1>1, <1>2, <2>1, <2>2, <2>3
<1>7. CASE \/ DownloadStarts \/ DownloadProgress \/ DownloadError
           \/ DownloadRetry \/ DownloadEnds
           \/ DeployProgress \/ PublishRebooting \/ Reboot \/ PublishFinal
  BY <1>1, <1>7 DEF DownloadStarts, DownloadProgress, DownloadError, DownloadRetry,
     DownloadEnds, DeployProgress, PublishRebooting, Reboot, PublishFinal,
     Becomes, Fails, St, Failure, taskVars
<1>8. CASE \/ DeployBegins \/ WriteState \/ InstallBundle
  BY <1>1, <1>8 DEF DeployBegins, WriteState, InstallBundle, Becomes, Fails, Failure
<1>9. CASE Subscribe \/ ReceiveCompleted
  BY <1>1, <1>9 DEF Subscribe, ReceiveCompleted, Listen, Becomes, Fails, Failure, St
<1>10. CASE CheckReboot
  <2>1. status'.tag # "NoPendingOta" \/ status'.id = None
    BY <1>10 DEF CheckReboot, DoPendingOta, Becomes, St, Failure
  <2>2. status'.tag \notin {"Idle", "Rebooted"}
    BY <1>10 DEF CheckReboot, DoPendingOta, Becomes, St, Failure
  <2> QED  BY <2>1, <2>2 DEF Anonymous
<1>11. CASE Clear
  <2>1. status'.id = None  BY <1>11 DEF Clear, Idle, St
  <2> QED  BY <1>2, <2>1
<1>12. CASE Crash \/ PowerLoss \/ DeviceReboot
  <2>1. ProcessRestart
    BY <1>12 DEF Crash, PowerLoss, DeviceReboot
  <2>2. status'.id = None
    BY <2>1 DEF ProcessRestart, Idle, St
  <2> QED  BY <1>2, <2>2
<1> QED
  BY <1>3, <1>4, <1>5, <1>6, <1>7, <1>8, <1>9, <1>10, <1>11, <1>12 DEF Next, Task

(* IInv is an invariant: it holds in Init, and every step of the handler,   *)
(* the task, the publisher, RAUC, and every restart keeps it.               *)
THEOREM Invariance == Spec => []IInv
<1>1. Init => IInv
  <2> SUFFICES ASSUME Init PROVE IInv
    OBVIOUS
  <2>1. TypeOK
    BY TypeInit
  <2>2. /\ tpc = "init" /\ status.tag = "Idle" /\ status.id = None
        /\ token = 0 /\ current = None /\ stateFile = None
    BY DEF Init, ProcessInit, Idle, St
  <2> QED
    BY <2>1, <2>2 DEF IInv, Shape, FlagCoversTask, InBody, CurrentIsLast,
       CancelInTime, Recorded, CleanWhenIdle, Installed, Reported, Anonymous
<1>2. IInv /\ [Next]_vars => IInv'
  BY TypeStep, ShapeStep, FlagStep, CurrentStep, CancelStopsStep, RecordedStep,
     CleanStep, InstalledStep, AnonymousStep DEF IInv
<1> QED
  BY <1>1, <1>2, PTL DEF Spec

-----------------------------------------------------------------------------
(* What the invariant is for.                                              *)

(* Every variable stays in its range; in particular no channel exceeds its *)
(* capacity.                                                               *)
THEOREM TypeCorrect == Spec => []TypeOK
  BY Invariance, PTL DEF IInv

(* The Ota task never finds itself in an inconsistent state.               *)
THEOREM NeverInconsistentThm == Spec => []NeverInconsistent
<1>1. IInv => NeverInconsistent
  BY DEF IInv, Shape, NeverInconsistent
<1> QED
  BY <1>1, Invariance, PTL

(* The flag the controller asks before a reboot covers the work of the task. *)
THEOREM FlagCoversTaskThm == Spec => []FlagCoversTask
<1>1. IInv => FlagCoversTask
  BY DEF IInv
<1> QED
  BY <1>1, Invariance, PTL

(* A finished update never makes the handler refuse the next one.          *)
THEOREM CurrentIsLiveThm == Spec => []CurrentIsLive
<1>1. IInv => CurrentIsLive
  <2> SUFFICES ASSUME IInv, current # None, flag
               PROVE  \/ current.token \in Tokens(otaQ)
                      \/ current.token = token /\ (InBody \/ tpc = "loop")
    BY DEF CurrentIsLive
  <2>1. CASE otaQ = <<>>
    BY <2>1 DEF IInv, CurrentIsLast
  <2>2. CASE otaQ # <<>>
    <3>1. otaQ \in Seq(Messages) /\ current = otaQ[Len(otaQ)]
      BY <2>2 DEF IInv, CurrentIsLast, TypeOK
    <3>2. Len(otaQ) \in DOMAIN otaQ
      BY <2>2, <3>1
    <3> QED
      BY <3>1, <3>2 DEF Tokens
  <2> QED
    BY <2>1, <2>2
<1> QED
  BY <1>1, Invariance, PTL

(* A cancel that comes in time, while the update waits for anything but an *)
(* answer to its download, stops the update before it is installed.        *)
THEOREM CancelStopsUpdateThm == Spec => []CancelStopsUpdate
<1>1. IInv => CancelStopsUpdate
  BY DEF IInv, CancelInTime, CancelStopsUpdate
<1> QED
  BY <1>1, Invariance, PTL

(* The device is rebooted only when the next start can report the update.  *)
THEOREM RebootIsRecordedThm == Spec => []RebootIsRecorded
<1>1. IInv => RebootIsRecorded
  BY DEF IInv, Recorded, RebootIsRecorded
<1> QED
  BY <1>1, Invariance, PTL

(* No record outlives its update, unless it could not be removed.          *)
THEOREM CleanWhenIdleThm == Spec => []CleanWhenIdle
<1>1. IInv => CleanWhenIdle
  BY DEF IInv
<1> QED
  BY <1>1, Invariance, PTL
(* Success is only reported from the image of its update, in a slot that   *)
(* will be booted again (do_pending_ota).                                  *)
THEOREM SuccessIsInstalledThm == Spec => []SuccessIsInstalled
<1>1. IInv => SuccessIsInstalled
  <2> SUFFICES ASSUME IInv, status.tag = "Success", ~dirty
               PROVE  image[booted] = status.id.uuid
    BY DEF IInv, Reported, SuccessIsInstalled
  <2>1. /\ stateFile \notin {None, Torn} /\ stateFile.slot # booted
        /\ stateFile.uuid = status.id.uuid
    BY DEF IInv, Reported
  <2>2. booted \in Slots \ {stateFile.slot}
    BY <2>1 DEF IInv, TypeOK, RaucTypeOK
  <2> QED  BY <2>1, <2>2 DEF IInv, Installed
<1> QED
  BY <1>1, Invariance, PTL
-----------------------------------------------------------------------------
(* The component implements OtaAttempt: every step is a step of an attempt, *)
(* or changes nothing of it.                                               *)

(* RAUC has been, or is about to be, asked to install.                     *)
AtInstall == tpc \in {"install", "subscribe", "wait"}

(* A step that changes neither the status, the record, nor on which side   *)
(* of the recovery or of the installation the task is, is a stutter.       *)
LEMMA AttemptStutters ==
    ASSUME status' = status, stateFile' = stateFile,
           Starting' = Starting, AtInstall' = AtInstall
    PROVE  UNCHANGED <<PhaseBar, ActiveBar, RecordedUuid>>
<1>1. RecordedUuid' = RecordedUuid
  BY DEF RecordedUuid
<1>2. ActiveBar' = ActiveBar
  BY <1>1 DEF ActiveBar
<1>3. PhaseBar' = PhaseBar
  BY <1>1 DEF PhaseBar, AtInstall
<1> QED  BY <1>1, <1>2, <1>3

(* What a status that carries an id stands for, outside of the recovery.   *)
LEMMA AttemptPhases ==
    ASSUME Shape, ~ Starting, status.id \in OtaIds
    PROVE  /\ ActiveBar = status.id.uuid /\ status.id.uuid \in Uuids
           /\ status.tag = "Success" => PhaseBar = "succeeded"
           /\ status.tag = "Failure" =>
                PhaseBar = IF status.err = "Canceled" THEN "cancelled" ELSE "failed"
           /\ status.tag \in {"Deployed", "Rebooting"} => PhaseBar = "installed"
           /\ AtInstall => PhaseBar = "installing"
           /\ status.tag \in {"Init", "Acknowledged", "Downloading", "Deploying"}
              /\ ~ AtInstall => PhaseBar = "accepted"
<1>1. status.id # None /\ status.id.uuid \in Uuids
  BY OtaAssumption DEF OtaIds
<1> QED  BY <1>1 DEF Shape, ActiveBar, PhaseBar, AtInstall

(* An update that fails does so before it is rebooted into; what is on     *)
(* disk stays.                                                             *)
LEMMA AttemptFails ==
    ASSUME TypeOK, Shape, NEW err \in Errors \ {"Canceled"}, Fails(err),
           ~ Starting, stateFile' = stateFile,
           status.tag \in {"Downloading", "Deploying", "Deployed"}
    PROVE  Attempt!Fail
<1>1. status.id \in OtaIds
  BY DEF Shape
<1>2. /\ PhaseBar \in {"accepted", "installing", "installed"}
      /\ ActiveBar = status.id.uuid
  BY <1>1, AttemptPhases
<1>3. /\ status' = Failure(err, status.id) /\ tpc' = "loop"
  BY DEF Fails, Becomes
<1>4. /\ ~ Starting' /\ status'.id # None /\ status'.id = status.id
      /\ status'.tag = "Failure" /\ status'.err # "Canceled"
      /\ RecordedUuid' = RecordedUuid
  BY <1>1, <1>3, OtaAssumption DEF Starting, Failure, RecordedUuid
<1>5. PhaseBar' = "failed"
  BY <1>3, <1>4 DEF PhaseBar
<1>6. ActiveBar' = status.id.uuid
  BY <1>4 DEF ActiveBar
<1> QED  BY <1>2, <1>4, <1>5, <1>6 DEF Attempt!Fail

(* The channel, the flag, and the messages: nothing of the attempt moves.  *)
LEMMA AttemptIdleSteps ==
    ASSUME Shape,
           \/ Handler \/ SendOtaEvent \/ RaucFinishes \/ UNCHANGED vars
           \/ IsOtaInProgress \/ PublishStatus \/ LateCancel
           \/ DownloadProgress \/ DownloadError \/ DeployProgress
           \/ PublishRebooting \/ PublishFinal
    PROVE  UNCHANGED <<PhaseBar, ActiveBar, RecordedUuid>>
<1>1. status' = status /\ stateFile' = stateFile
  BY DEF Handler, RejectUpdate, AcceptUpdate, SendUpdate, CancelUpdate,
     RejectCancel, PublishRejection, RebootCommand, ExecuteReboot,
     SendOtaEvent, RaucFinishes, vars, IsOtaInProgress, PublishStatus, LateCancel,
     DownloadProgress, DownloadError, DeployProgress, PublishRebooting,
     PublishFinal, taskVars, fileVars
<1>2. \/ tpc' = tpc
      \/ /\ tpc \in {"loop", "publish", "step", "download", "final"}
         /\ tpc' \in {"publish", "step", "sleep", "final", "reboot", "clear"}
  BY DEF Handler, RejectUpdate, AcceptUpdate, SendUpdate, CancelUpdate,
     RejectCancel, PublishRejection, RebootCommand, ExecuteReboot,
     SendOtaEvent, RaucFinishes, vars, IsOtaInProgress, PublishStatus, LateCancel,
     DownloadProgress, DownloadError, DeployProgress, PublishRebooting,
     PublishFinal, Polls, taskVars
<1>3. Starting' = Starting /\ AtInstall' = AtInstall
  BY <1>1, <1>2 DEF Starting, AtInstall
<1> QED  BY <1>1, <1>3, AttemptStutters

(* An update is accepted, cancelled, and goes from status to status.       *)
LEMMA AttemptMoves ==
    ASSUME TypeOK, Shape, Anonymous,
           \/ Receive \/ CancelStep \/ Advance
           \/ DownloadStarts \/ DownloadRetry \/ DownloadEnds
    PROVE  Attempt!Next \/ UNCHANGED <<PhaseBar, ActiveBar, RecordedUuid>>
<1>1. RecordedUuid' = RecordedUuid
  BY DEF Receive, CancelStep, Advance, DownloadStarts, DownloadRetry,
     DownloadEnds, fileVars, RecordedUuid
<1>2. CASE Receive
  <2>1. /\ tpc = "recv" /\ status.tag = "Idle" /\ status.id = None
    BY <1>2 DEF Receive, Shape, Anonymous
  <2>2. Head(otaQ).id \in OtaIds /\ Head(otaQ).id # None /\ Head(otaQ).id.uuid \in Uuids
    <3>1. Head(otaQ) \in Messages
      BY <1>2 DEF Receive, TypeOK
    <3> QED  BY <3>1, OtaAssumption DEF Messages, OtaIds
  <2>3. tpc' = "loop" /\ status' = St("Init", Head(otaQ).id)
    BY <1>2, <2>1 DEF Receive
  <2>4. PhaseBar = "none"
    BY <2>1 DEF PhaseBar, Starting
  <2>5. PhaseBar' = "accepted" /\ ActiveBar' = Head(otaQ).id.uuid
    BY <2>2, <2>3 DEF PhaseBar, ActiveBar, Starting, St
  <2> QED  BY <1>1, <2>2, <2>4, <2>5 DEF Attempt!Next, Attempt!Accept
<1>3. CASE CancelStep
  <2>1. /\ tpc \in {"step", "download", "sleep"}
        /\ status.tag \in {"Init", "Acknowledged", "Downloading"}
        /\ tpc' = "loop" /\ status' = Failure("Canceled", status.id)
    BY <1>3 DEF CancelStep, IsCancellable
  <2>2. status.id \in OtaIds /\ status.id # None /\ ~ Starting /\ ~ AtInstall
    BY <2>1, OtaAssumption DEF Shape, Starting, AtInstall
  <2>3. PhaseBar = "accepted" /\ ActiveBar = status.id.uuid
    BY <2>1, <2>2, AttemptPhases
  <2>4. PhaseBar' = "cancelled" /\ ActiveBar' = status.id.uuid
    BY <2>1, <2>2 DEF PhaseBar, ActiveBar, Starting, Failure
  <2> QED  BY <1>1, <2>3, <2>4 DEF Attempt!Next, Attempt!Cancel
<1>4. ASSUME tpc \in {"step", "download"}, tpc' = "loop",
             status.tag \in {"Init", "Acknowledged", "Downloading"},
             status' \in {St("Acknowledged", status.id), St("Deploying", status.id),
                          St("Downloading", status.id)}
      PROVE  UNCHANGED <<PhaseBar, ActiveBar, RecordedUuid>>
  <2>1. status.id \in OtaIds /\ status.id # None /\ ~ Starting /\ ~ AtInstall
    BY <1>4, OtaAssumption DEF Shape, Starting, AtInstall
  <2>2. PhaseBar = "accepted" /\ ActiveBar = status.id.uuid
    BY <1>4, <2>1, AttemptPhases
  <2>3. PhaseBar' = "accepted" /\ ActiveBar' = status.id.uuid
    BY <1>4, <2>1 DEF PhaseBar, ActiveBar, Starting, St
  <2> QED  BY <1>1, <2>2, <2>3
<1>5. CASE Advance
  <2>1. tpc = "step" /\ tpc' = "loop" /\ stateFile' = stateFile
    BY <1>5 DEF Advance, Polls, Becomes, fileVars
  <2>2. CASE \/ Polls("Init") /\ Becomes(St("Acknowledged", status.id))
             \/ Polls("Acknowledged")
                /\ Becomes(St(IF Streaming THEN "Deploying" ELSE "Downloading", status.id))
    <3>1. status.tag \in {"Init", "Acknowledged", "Downloading"}
      BY <2>2 DEF Polls
    <3>2. status' \in {St("Acknowledged", status.id), St("Deploying", status.id),
                       St("Downloading", status.id)}
      BY <2>2 DEF Becomes
    <3> QED  BY <1>4, <2>1, <3>1, <3>2
  <2>3. CASE status' = status
    <3>1. Starting' = Starting /\ AtInstall' = AtInstall
      BY <2>1, <2>3 DEF Starting, AtInstall
    <3> QED  BY <2>1, <2>3, <3>1, AttemptStutters
  <2>4. CASE status.tag \in {"NoPendingOta", "Success", "Failure"} /\ status' = Idle
    <3>1. ~ Starting /\ PhaseBar' = "none" /\ ActiveBar' = None
      BY <2>1, <2>4 DEF Starting, PhaseBar, ActiveBar, Idle, St
    <3>2. CASE status.id = None
      <4>1. PhaseBar = "none" /\ ActiveBar = None
        BY <3>1, <3>2 DEF PhaseBar, ActiveBar
      <4> QED  BY <1>1, <3>1, <4>1
    <3>3. CASE status.id # None
      <4>1. PhaseBar \in {"succeeded", "cancelled", "failed"}
        <5>1. status.id \in OtaIds
          BY <3>3 DEF TypeOK, Statuses
        <5>2. status.tag \in {"Success", "Failure"}
          BY <2>4, <3>3 DEF Anonymous
        <5> QED  BY <3>1, <5>1, <5>2, AttemptPhases
      <4> QED  BY <1>1, <3>1, <4>1 DEF Attempt!Next, Attempt!Finish
    <3> QED  BY <3>2, <3>3
  <2> QED  BY <1>5, <2>2, <2>3, <2>4 DEF Advance, Becomes, Polls
<1>6. ASSUME tpc \in {"step", "download", "sleep"}, stateFile' = stateFile,
             status.tag = "Downloading",
             \E err \in Errors \ {"Canceled"} : Fails(err)
      PROVE  Attempt!Next
  <2>1. ~ Starting
    BY <1>6 DEF Starting
  <2> QED  BY <1>6, <2>1, AttemptFails DEF Attempt!Next
<1>7. ASSUME tpc \in {"step", "sleep"}, tpc' = "download",
             status' = status, stateFile' = stateFile
      PROVE  UNCHANGED <<PhaseBar, ActiveBar, RecordedUuid>>
  <2>1. Starting' = Starting /\ AtInstall' = AtInstall
    BY <1>7 DEF Starting, AtInstall
  <2> QED  BY <1>7, <2>1, AttemptStutters
<1>8. CASE DownloadStarts
  <2>1. tpc = "step" /\ status.tag = "Downloading" /\ stateFile' = stateFile
    BY <1>8 DEF DownloadStarts, Polls, fileVars
  <2>2. CASE tpc' = "download" /\ UNCHANGED status
    BY <1>7, <2>1, <2>2
  <2>3. CASE \E err \in Errors \ {"Canceled"} : Fails(err)
    BY <1>6, <2>1, <2>3
  <2> QED  BY <1>8, <2>2, <2>3 DEF DownloadStarts, Errors
<1>9. CASE DownloadRetry
  <2>1. tpc = "sleep" /\ status.tag = "Downloading" /\ stateFile' = stateFile
    BY <1>9 DEF DownloadRetry, Shape, fileVars
  <2>2. CASE tpc' = "download" /\ UNCHANGED status
    BY <1>7, <2>1, <2>2
  <2>3. CASE Fails("Internal")
    BY <1>6, <2>1, <2>3 DEF Errors
  <2> QED  BY <1>9, <2>2, <2>3 DEF DownloadRetry
<1>10. CASE DownloadEnds
  <2>1. tpc = "download" /\ status.tag = "Downloading" /\ stateFile' = stateFile
    BY <1>10 DEF DownloadEnds, Shape, fileVars
  <2>2. CASE Becomes(St("Deploying", status.id))
    BY <1>4, <2>1, <2>2 DEF Becomes
  <2>3. CASE Fails("InvalidBaseImage")
    BY <1>6, <2>1, <2>3 DEF Errors
  <2> QED  BY <1>10, <2>2, <2>3 DEF DownloadEnds
<1> QED  BY <1>2, <1>3, <1>5, <1>8, <1>9, <1>10

(* The old record goes, the new one is written, and the bundle installed.  *)
LEMMA AttemptDeploys ==
    ASSUME TypeOK, Shape, Recorded,
           \/ DeployBegins \/ WriteState \/ InstallBundle \/ Subscribe
           \/ ReceiveCompleted \/ Reboot
    PROVE  Attempt!Next \/ UNCHANGED <<PhaseBar, ActiveBar, RecordedUuid>>
<1>1. /\ ~ Starting /\ status.id \in OtaIds /\ status.id # None
      /\ status.tag \in {"Deploying", "Deployed"}
  BY OtaAssumption DEF DeployBegins, WriteState, InstallBundle, Subscribe,
     ReceiveCompleted, Reboot, Polls, Shape, Starting
<1>2. ASSUME stateFile' = stateFile, \E err \in Errors \ {"Canceled"} : Fails(err)
      PROVE  Attempt!Next
  BY <1>1, <1>2, AttemptFails DEF Attempt!Next
<1>3. ASSUME stateFile' = stateFile, status' = status, AtInstall, AtInstall'
      PROVE  UNCHANGED <<PhaseBar, ActiveBar, RecordedUuid>>
  <2>1. Starting' = Starting
    BY <1>3 DEF Starting, AtInstall
  <2> QED  BY <1>3, <2>1, AttemptStutters
<1>4. CASE DeployBegins
  <2>1. CASE stateFile' = Torn /\ tpc' = "write" /\ UNCHANGED status
    <3>1. status.tag = "Deploying" /\ ~ AtInstall
      BY <1>4 DEF DeployBegins, Polls, AtInstall
    <3>2. PhaseBar = "accepted" /\ ActiveBar = status.id.uuid
      BY <1>1, <3>1, AttemptPhases
    <3>3. /\ PhaseBar' = "accepted" /\ ActiveBar' = status.id.uuid
          /\ RecordedUuid' = None
      BY <1>1, <2>1, <3>1 DEF PhaseBar, ActiveBar, RecordedUuid, Starting
    <3> QED  BY <3>2, <3>3 DEF Attempt!Next, Attempt!Unrecord
  <2>2. CASE Fails("Internal") /\ UNCHANGED stateFile
    BY <1>2, <2>2 DEF Errors
  <2>3. CASE Fails("Io") /\ UNCHANGED stateFile
    BY <1>2, <2>3 DEF Errors
  <2> QED  BY <1>4, <2>1, <2>2, <2>3 DEF DeployBegins
<1>5. CASE WriteState
  <2>1. CASE /\ stateFile' = [uuid |-> status.id.uuid, slot |-> booted]
             /\ tpc' = "install" /\ UNCHANGED status
    <3>1. status.tag = "Deploying" /\ ~ AtInstall
      BY <1>5 DEF WriteState, Shape, AtInstall
    <3>2. /\ PhaseBar = "accepted" /\ ActiveBar = status.id.uuid
          /\ status.id.uuid \in Uuids
      BY <1>1, <3>1, AttemptPhases
    <3>3. stateFile' \notin {None, Torn} /\ stateFile'.uuid = status.id.uuid
      BY <2>1, <3>2, OtaAssumption DEF TypeOK, RaucTypeOK
    <3>4. /\ PhaseBar' = "installing" /\ ActiveBar' = status.id.uuid
          /\ RecordedUuid' = status.id.uuid
      BY <1>1, <2>1, <3>1, <3>3 DEF PhaseBar, ActiveBar, RecordedUuid, Starting
    <3> QED  BY <3>2, <3>4 DEF Attempt!Next, Attempt!Record
  <2>2. CASE Fails("Io") /\ UNCHANGED fileVars
    BY <1>2, <2>2 DEF Errors, fileVars
  <2> QED  BY <1>5, <2>1, <2>2 DEF WriteState
<1>6. CASE InstallBundle
  <2>1. stateFile' = stateFile /\ AtInstall
    BY <1>6 DEF InstallBundle, fileVars, AtInstall
  <2>2. CASE tpc' = "subscribe" /\ UNCHANGED status
    BY <1>3, <2>1, <2>2 DEF AtInstall
  <2>3. CASE Fails("InvalidBaseImage")
    BY <1>2, <2>1, <2>3 DEF Errors
  <2> QED  BY <1>6, <2>2, <2>3 DEF InstallBundle
<1>7. CASE Subscribe
  <2>1. stateFile' = stateFile /\ AtInstall
    BY <1>7 DEF Subscribe, fileVars, AtInstall
  <2>2. CASE tpc' = "wait" /\ UNCHANGED status
    BY <1>3, <2>1, <2>2 DEF AtInstall
  <2>3. CASE Fails("Internal")
    BY <1>2, <2>1, <2>3 DEF Errors
  <2> QED  BY <1>7, <2>2, <2>3 DEF Subscribe, Listen
<1>8. CASE ReceiveCompleted
  <2>1. stateFile' = stateFile /\ AtInstall
    BY <1>8 DEF ReceiveCompleted, fileVars, AtInstall
  <2>2. CASE Becomes(St("Deployed", status.id))
    <3>1. tpc' = "loop" /\ status' = St("Deployed", status.id)
      BY <2>2 DEF Becomes
    <3>2. /\ PhaseBar = "installing" /\ ActiveBar = status.id.uuid
          /\ status.id.uuid \in Uuids
      BY <1>1, <2>1, AttemptPhases
    <3>3. RecordedUuid = status.id.uuid /\ RecordedUuid' = RecordedUuid
      <4>1. stateFile = [uuid |-> status.id.uuid, slot |-> booted]
        BY <2>1 DEF Recorded, AtInstall
      <4>2. stateFile \notin {None, Torn}
        BY <3>2, <4>1, OtaAssumption DEF TypeOK, RaucTypeOK
      <4> QED  BY <2>1, <4>1, <4>2 DEF RecordedUuid
    <3>4. PhaseBar' = "installed" /\ ActiveBar' = status.id.uuid
      BY <1>1, <3>1 DEF PhaseBar, ActiveBar, Starting, St
    <3> QED  BY <3>2, <3>3, <3>4 DEF Attempt!Next, Attempt!Install
  <2>3. CASE \E err \in Errors \ {"Canceled"} : Fails(err)
    BY <1>2, <2>1, <2>3
  <2> QED  BY <1>8, <2>2, <2>3 DEF ReceiveCompleted, Errors
<1>9. CASE Reboot
  <2>1. /\ stateFile' = stateFile /\ status.tag = "Deployed"
    BY <1>9 DEF Reboot, fileVars, Shape
  <2>2. CASE Becomes(St("Rebooting", status.id))
    <3>1. tpc' = "loop" /\ status' = St("Rebooting", status.id)
      BY <2>2 DEF Becomes
    <3>2. PhaseBar = "installed" /\ ActiveBar = status.id.uuid
      BY <1>1, <2>1, AttemptPhases
    <3>3. PhaseBar' = "installed" /\ ActiveBar' = status.id.uuid
      BY <1>1, <3>1 DEF PhaseBar, ActiveBar, Starting, St
    <3>4. RecordedUuid' = RecordedUuid
      BY <2>1 DEF RecordedUuid
    <3> QED  BY <3>2, <3>3, <3>4
  <2>3. CASE Fails("Internal")
    BY <1>2, <2>1, <2>3 DEF Errors
  <2> QED  BY <1>9, <2>2, <2>3 DEF Reboot
<1> QED  BY <1>4, <1>5, <1>6, <1>7, <1>8, <1>9

(* What a restart finds, and how it ends.                                  *)
LEMMA AttemptRecovers ==
    ASSUME TypeOK, Shape, Anonymous,
           ActorInit \/ CheckReboot \/ Clear \/ Crash \/ PowerLoss \/ DeviceReboot
    PROVE  Attempt!Next \/ UNCHANGED <<PhaseBar, ActiveBar, RecordedUuid>>
<1>1. /\ RecordedUuid \in Uuids \cup {None}
      /\ stateFile \notin {None, Torn} => RecordedUuid = stateFile.uuid /\ RecordedUuid # None
  BY RaucAssumption DEF RecordedUuid, TypeOK, PersistentStates
<1>2. CASE ActorInit
  <2>1. tpc = "init" /\ status.tag = "Idle" /\ status.id = None /\ tpc' = "loop"
    BY <1>2 DEF ActorInit, Shape, Anonymous
  <2>2. RecordedUuid' = RecordedUuid /\ stateFile' = stateFile
    BY <1>2 DEF ActorInit, fileVars, RecordedUuid
  <2>3. CASE stateFile # None
    <3>1. Starting /\ Starting'
      BY <1>2, <2>1, <2>3 DEF ActorInit, Starting, St
    <3> QED  BY <2>2, <3>1 DEF PhaseBar, ActiveBar
  <2>4. CASE stateFile = None
    <3>1. RecordedUuid = None
      BY <2>4 DEF RecordedUuid
    <3>2. PhaseBar = "none" /\ ActiveBar = None
      BY <2>1, <3>1 DEF PhaseBar, ActiveBar, Starting
    <3>3. PhaseBar' = "none" /\ ActiveBar' = None
      BY <1>2, <2>1, <2>2, <2>4, <3>1 DEF ActorInit, PhaseBar, ActiveBar
    <3> QED  BY <2>2, <3>2, <3>3
  <2> QED  BY <2>3, <2>4
<1>3. CASE CheckReboot
  <2>1. Starting /\ tpc' = "loop"
    BY <1>3 DEF CheckReboot, Polls, DoPendingOta, Becomes, Starting
  <2>2. RecordedUuid' = RecordedUuid
    BY <1>3 DEF CheckReboot, fileVars, RecordedUuid
  <2>3. /\ ActiveBar = RecordedUuid
        /\ PhaseBar = IF RecordedUuid = None THEN "none" ELSE "restarted"
    BY <2>1 DEF PhaseBar, ActiveBar
  <2>4. ASSUME status'.id = None, status'.tag # "Rebooted"
        PROVE  Attempt!Next \/ UNCHANGED <<PhaseBar, ActiveBar, RecordedUuid>>
    <3>1. PhaseBar' = "none" /\ ActiveBar' = None
      BY <2>1, <2>4 DEF PhaseBar, ActiveBar, Starting
    <3> QED  BY <2>2, <2>3, <3>1 DEF Attempt!Next, Attempt!Unreadable
  <2>5. CASE /\ stateFile \notin {None, Torn}
             /\ DoPendingOta([uuid |-> stateFile.uuid, url |-> NoUrl])
    <3> DEFINE id == [uuid |-> stateFile.uuid, url |-> NoUrl]
    <3>1. id \in OtaIds /\ id # None /\ id.uuid = RecordedUuid
      BY <1>1, <2>5, OtaAssumption DEF OtaIds, TypeOK, PersistentStates
    <3>2. PhaseBar = "restarted"
      BY <1>1, <2>3, <2>5
    <3>3. status' \in {Failure("Internal", id), Failure("SystemRollback", id),
                       St("Success", id)}
      BY <2>5 DEF DoPendingOta, Becomes
    <3> HIDE DEF id
    <3>4. ~ Starting' /\ status'.id = id
      BY <2>1, <3>3 DEF Starting, Failure, St
    <3>5. ActiveBar' = RecordedUuid
      BY <3>1, <3>4 DEF ActiveBar
    <3>6. CASE status' = St("Success", id)
      <4>1. PhaseBar' = "succeeded"
        BY <2>1, <3>1, <3>4, <3>6 DEF PhaseBar, St
      <4> QED  BY <2>2, <2>3, <3>2, <3>5, <4>1 DEF Attempt!Next, Attempt!Succeed
    <3>7. CASE status' \in {Failure("Internal", id), Failure("SystemRollback", id)}
      <4>1. PhaseBar' = "failed"
        BY <2>1, <3>1, <3>4, <3>7 DEF PhaseBar, Failure
      <4> QED  BY <2>2, <2>3, <3>2, <3>5, <4>1 DEF Attempt!Next, Attempt!Fail
    <3> QED  BY <3>3, <3>6, <3>7
  <2>6. CASE \/ Becomes(St("NoPendingOta", None)) \/ Becomes(Failure("Io", None))
    BY <2>4, <2>6 DEF Becomes, St, Failure
  <2> QED  BY <1>3, <2>5, <2>6 DEF CheckReboot
<1>4. CASE Clear
  <2>1. /\ tpc = "clear" /\ status.tag = "Idle" /\ status.id = None
        /\ tpc' = "recv" /\ status' = Idle
    BY <1>4 DEF Clear, Shape, Anonymous
  <2>2. PhaseBar = "none" /\ ActiveBar = None
    BY <2>1 DEF PhaseBar, ActiveBar, Starting
  <2>3. PhaseBar' = "none" /\ ActiveBar' = None
    BY <2>1 DEF PhaseBar, ActiveBar, Starting, Idle, St
  <2>4. RecordedUuid' = None \/ RecordedUuid' = RecordedUuid
    BY <1>4 DEF Clear, RecordedUuid
  <2> QED  BY <2>2, <2>3, <2>4 DEF Attempt!Next, Attempt!Erase
<1>5. CASE Crash \/ PowerLoss \/ DeviceReboot
  <2>1. tpc' = "init"
    BY <1>5, RestartState
  <2>2. RecordedUuid' = RecordedUuid
    BY <1>5 DEF Crash, PowerLoss, DeviceReboot, fileVars, RecordedUuid
  <2>3. /\ ActiveBar' = RecordedUuid
        /\ PhaseBar' = IF RecordedUuid = None THEN "none" ELSE "restarted"
    BY <2>1, <2>2 DEF PhaseBar, ActiveBar, Starting
  <2> QED  BY <2>2, <2>3 DEF Attempt!Next, Attempt!Restart
<1> QED  BY <1>2, <1>3, <1>4, <1>5

(* The component implements OtaAttempt: at most one update at a time, never *)
(* installed before it is recorded, never forgotten once recorded, and a   *)
(* success only after a restart, whatever crashes or is cancelled.         *)
THEOREM AttemptImplemented == Spec => ImplementsAttempt
<1>1. Init => Attempt!Init
  BY DEF Init, ProcessInit, Attempt!Init, PhaseBar, ActiveBar, RecordedUuid, Starting
<1>2. IInv /\ [Next]_vars => [Attempt!Next]_(Attempt!vars)
  <2> SUFFICES ASSUME IInv, [Next]_vars
               PROVE  Attempt!Next \/ UNCHANGED <<PhaseBar, ActiveBar, RecordedUuid>>
    BY DEF Attempt!vars
  <2> QED
    BY AttemptIdleSteps, AttemptMoves, AttemptDeploys, AttemptRecovers
       DEF IInv, Next, Task
<1> QED
  BY <1>1, <1>2, Invariance, PTL DEF Spec, ImplementsAttempt, Attempt!Spec
=============================================================================
