---------------------------- MODULE Deployments ----------------------------
(***************************************************************************)
(* The applications: the requests of the server about containers, and what *)
(* becomes of them (src/edgehog-device-runtime-containers/src/):           *)
(*                                                                         *)
(*   ServiceHandle    service/events.rs, stores a request, then sends an   *)
(*                    event to the service                                 *)
(*   Service          service/mod.rs with resource/, works on one event at *)
(*                    a time: publishes, starts, stops, updates, deletes   *)
(*   RuntimeListener  events/mod.rs, has the service look again at what    *)
(*                    changed in Docker                                    *)
(*                                                                         *)
(* They share the store.  The service works from what it read there when   *)
(* it began: todo is what is left to do, and every step of it is one call  *)
(* to Docker, or the property and the row that record its result.  The     *)
(* Docker events of the service's own operations are left out: the refresh *)
(* finds what the service has just written.                                *)
(***************************************************************************)
EXTENDS ContainerStore, SequencesExt

CONSTANTS
    None,         \* no event
    Known,        \* resources and containers stored and published already
    AlwaysPull,   \* the images with PullPolicy::Always
    Capacity,     \* CHANNEL_SIZE, src/src/containers.rs:53
    MaxCommands,  \* bound: commands of the server
    MaxMishaps    \* bound: failures of Docker, the store or Astarte, containers
                  \* stopped or removed outside of Edgehog, and restarts

ASSUME DeploymentsAssumption ==
    /\ Known \subseteq Resources \cup Containers
    /\ AlwaysPull \subseteq Images
    /\ Capacity \in Nat \ {0}
    /\ {MaxCommands, MaxMishaps} \subseteq Nat

VARIABLES
    \* ServiceHandle
    sending,    \* the event of the request it has stored, or None
    \* Service
    queue,      \* the events it was sent
    phase,      \* of initialize, then "loop"; "down" when that failed
    batch,      \* what the phase has loaded and not worked on
    op,         \* the event or the deployment it works on
    todo,       \* what is left to do for it
    \* RuntimeListener
    noticed,    \* containers with a Docker event
    \* Docker
    docker,     \* the containers
    present,    \* images that are pulled, volumes that are created
    \* Astarte
    prop,       \* the properties
    errors,     \* deployments of a request that was answered with an Error
                \* event, and not started since
    \* requests still to come, and bounds
    unborn,     \* what the server has not asked to create
    commands, faults, outside, crashes

storeVars   == <<db>>
serviceVars == <<phase, batch, op, todo>>
dockerVars  == <<docker, present>>
boundVars   == <<commands, faults, outside, crashes>>
vars == <<storeVars, sending, queue, serviceVars, noticed, dockerVars, prop,
          errors, unborn, boundVars>>

Objects == Resources \cup Containers \cup Deployments

Event(kind, x) == [kind |-> kind, x |-> x, to |-> x]
Update(from, to) == [kind |-> "update", x |-> from, to |-> to]

Creations == {Event("publish", x) : x \in Objects}
Commands  == {Event(kind, d) : kind \in {"start", "stop", "delete"}, d \in Deployments}
             \cup {Update(from, to) : from, to \in Deployments}
Refreshes == {Event("refresh", c) : c \in Containers}
Events    == Creations \cup Commands \cup Refreshes

ASSUME NoneAssumption == None \notin Events

(* What the service works on.  back are the containers that an update      *)
(* stops, and starts again when it fails.                                  *)
Operations ==
    [kind : {"idle", "publish", "refresh", "start", "stop", "delete", "update", "restart"},
     x : Objects \cup {None}, to : Deployments \cup {None}, back : Seq(Containers)]

Idle == [kind |-> "idle", x |-> None, to |-> None, back |-> <<>>]
Operation(kind, x) == [Idle EXCEPT !.kind = kind, !.x = x]

Step(do, x) == [do |-> do, x |-> x]
Steps == [do : {"publish", "fetch", "up", "create", "created", "start", "started",
                "stop", "halt", "stopped", "restart", "down", "remove", "unset",
                "drop", "reportStarted", "reportStopped"},
          x : Objects]

DockerStates == {"absent", "created", "running", "exited"}
PropValues == {"unset", "false", "true", "Received", "Created", "Running", "Stopped", "Started"}

Mishap == faults + outside + crashes < MaxMishaps

(* Mutant: initialize starts before it stops and deletes.                  *)
InitPhasesStartFirst ==
    <<"boot", "resources", "containers", "deployments", "start", "delete", "stop">>

InitPhases == <<"boot", "resources", "containers", "deployments", "delete", "stop", "start">>

TypeOK ==
    /\ db \in Tables
    /\ sending \in Events \cup {None}
    /\ queue \in Seq(Events) /\ Len(queue) <= Capacity
    /\ phase \in {InitPhases[n] : n \in DOMAIN InitPhases} \cup {"loop", "down"}
    /\ batch \subseteq Objects
    /\ op \in Operations
    /\ todo \in Seq(Steps)
    /\ noticed \subseteq Containers
    /\ docker \in [Containers -> DockerStates]
    /\ present \subseteq Resources
    /\ prop \in [Objects -> PropValues]
    /\ errors \subseteq Deployments
    /\ unborn \subseteq Objects
    /\ commands \in 0..MaxCommands /\ faults \in 0..MaxMishaps
    /\ outside \in 0..MaxMishaps /\ crashes \in 0..MaxMishaps

-----------------------------------------------------------------------------
(* What is known at the start was stored and published by an earlier run.  *)
Init ==
    /\ db = [NoRows EXCEPT
              !.res = [r \in Resources |-> IF r \in Known THEN "Published" ELSE "none"],
              !.cont = [c \in Containers |-> IF c \in Known THEN "Published" ELSE "none"],
              !.links = [c \in Containers |-> IF c \in Known THEN Needs[c] \cap Known ELSE {}],
              !.missing = [c \in Containers |-> IF c \in Known THEN Needs[c] \ Known ELSE {}]]
    /\ sending = None /\ queue = <<>> /\ noticed = {}
    /\ phase = "boot" /\ batch = {} /\ op = Idle /\ todo = <<>>
    /\ docker = [c \in Containers |-> "absent"] /\ present = {}
    /\ prop = [x \in Objects |-> IF x \notin Known THEN "unset"
                                 ELSE IF x \in Containers THEN "Received" ELSE "false"]
    /\ errors = {}
    /\ unborn = Objects \ Known
    /\ commands = 0 /\ faults = 0 /\ outside = 0 /\ crashes = 0

-----------------------------------------------------------------------------
(* ServiceHandle.                                                          *)

(* persist_request: a request that cannot be stored is answered with an    *)
(* error, and its event is sent to the service all the same.               *)
Persist(e, possible, tables) ==
    /\ sending = None
    /\ sending' = e
    /\ \/ /\ possible
          /\ db' = tables
          /\ UNCHANGED <<errors, faults>>
       \/ /\ IF possible THEN Mishap /\ faults' = faults + 1
                         ELSE UNCHANGED faults
          /\ errors' = errors \cup ({e.x, e.to} \cap Deployments)
          /\ UNCHANGED db
    /\ UNCHANGED <<queue, serviceVars, noticed, dockerVars, prop, outside, crashes>>

ReceiveCreation(x) ==
    /\ x \in unborn
    /\ unborn' = unborn \ {x}
    /\ Persist(Event("publish", x), TRUE,
               IF x \in Resources THEN CreateResource(x)
               ELSE IF x \in Containers THEN CreateContainer(x)
               ELSE CreateDeployment(x))
    /\ UNCHANGED commands

(* The server commands only the deployments it has asked to create.        *)
CommandStatus == [start |-> "Started", stop |-> "Stopped", delete |-> "Deleted"]

ReceiveCommand(kind, d) ==
    /\ d \notin unborn
    /\ commands < MaxCommands /\ commands' = commands + 1
    /\ Persist(Event(kind, d), db.dep[d] # "none", SetDeployment(d, CommandStatus[kind]))
    /\ UNCHANGED unborn

ReceiveUpdate(from, to) ==
    /\ {from, to} \cap unborn = {}
    /\ commands < MaxCommands /\ commands' = commands + 1
    /\ Persist(Update(from, to), db.dep[from] # "none" /\ db.dep[to] # "none",
               UpdateDeployments(from, to))
    /\ UNCHANGED unborn

(* Mutant: the event is sent without waiting for room.                     *)
SendEventUnbounded ==
    /\ sending # None /\ phase # "down"
    /\ queue' = Append(queue, sending)
    /\ sending' = None
    /\ UNCHANGED <<storeVars, serviceVars, noticed, dockerVars, prop, errors,
                   unborn, boundVars>>

SendEvent ==
    /\ sending # None /\ phase # "down" /\ Len(queue) < Capacity
    /\ queue' = Append(queue, sending)
    /\ sending' = None
    /\ UNCHANGED <<storeVars, serviceVars, noticed, dockerVars, prop, errors,
                   unborn, boundVars>>

-----------------------------------------------------------------------------
(* The service begins with an event, or with a deployment that initialize  *)
(* has loaded.                                                             *)

Each(do, s) == [n \in DOMAIN s |-> Step(do, s[n])]

(* start_deployment, of what find_complete_deployment returned.            *)
StartSteps(d) ==
    Each("up", SetToSeq(JoinedLinks(d) \cap Images))
      \o Each("up", SetToSeq(JoinedLinks(d) \ Images))
      \o Each("up", InOrder(d, Joined(d)))
      \o <<Step("reportStarted", d)>>

(* delete_deployment: the containers in reverse, images last.              *)
DeleteSteps(d) ==
    Each("down", Reverse(InOrder(d, ContainersToDelete(d))))
      \o Each("down", SetToSeq(ResourcesToDelete(d) \ Images))
      \o Each("down", SetToSeq(ResourcesToDelete(d) \cap Images))
      \o <<Step("unset", d), Step("drop", d)>>

Begin(operation, steps) ==
    /\ op' = operation
    /\ todo' = steps

NotFound(D) ==
    /\ errors' = errors \cup D
    /\ UNCHANGED <<op, todo>>

BeginPublish(x) ==
    /\ Begin(Operation("publish", x),
             <<Step("publish", x)>>
               \o (IF x \in Deployments THEN <<>> ELSE <<Step("fetch", x)>>))
    /\ UNCHANGED errors

BeginRefresh(c) ==
    /\ Begin(Operation("refresh", c), <<Step("fetch", c)>>)
    /\ UNCHANGED errors

BeginStart(d) ==
    IF IsComplete(d)
    THEN Begin(Operation("start", d), StartSteps(d)) /\ UNCHANGED errors
    ELSE NotFound({d})

BeginStop(d) ==
    IF db.dep[d] # "none"
    THEN /\ Begin(Operation("stop", d),
                  Each("stop", InOrder(d, db.rows[d])) \o <<Step("reportStopped", d)>>)
         /\ UNCHANGED errors
    ELSE NotFound({d})

BeginDelete(d) ==
    IF db.dep[d] # "none"
    THEN Begin(Operation("delete", d), DeleteSteps(d)) /\ UNCHANGED errors
    ELSE NotFound({d})

(* The query of the containers to stop has no order_by: that they come by  *)
(* index is the model's choice, and no property depends on it.             *)
BeginUpdate(from, to) ==
    LET back == InOrder(from, ContainersToStop(from, to)) IN
    IF db.dep[from] = "none" THEN NotFound({from, to})
    ELSE IF ~ IsComplete(to) THEN NotFound({from, to})
    ELSE /\ Begin([kind |-> "update", x |-> from, to |-> to, back |-> back],
                  Each("stop", back) \o <<Step("reportStopped", from)>> \o StartSteps(to))
         /\ UNCHANGED errors

BeginEvent(e) ==
    CASE e.kind = "publish" -> BeginPublish(e.x)
      [] e.kind = "refresh" -> BeginRefresh(e.x)
      [] e.kind = "start"   -> BeginStart(e.x)
      [] e.kind = "stop"    -> BeginStop(e.x)
      [] e.kind = "delete"  -> BeginDelete(e.x)
      [] e.kind = "update"  -> BeginUpdate(e.x, e.to)

TakeEvent ==
    /\ phase = "loop" /\ op = Idle /\ queue # <<>>
    /\ queue' = Tail(queue)
    /\ BeginEvent(Head(queue))
    /\ UNCHANGED <<storeVars, sending, phase, batch, noticed, dockerVars, prop,
                   unborn, boundVars>>

(* initialize: publish_received, then deletions and stops before starts.   *)
Load(ph) ==
    CASE ph = "resources"   -> InState(db.res, "Received")
      [] ph = "containers"  -> InState(db.cont, "Received")
      [] ph = "deployments" -> InState(db.dep, "Received")
      [] ph = "delete"      -> InState(db.dep, "Deleted")
      [] ph = "stop"        -> InState(db.dep, "Stopped")
      [] ph = "start"       -> InState(db.dep, "Started")
      [] ph = "loop"        -> {}

PhaseAfter(ph) ==
    LET n == CHOOSE n \in DOMAIN InitPhases : InitPhases[n] = ph IN
    IF n = Len(InitPhases) THEN "loop" ELSE InitPhases[n + 1]

NextPhase ==
    /\ phase \notin {"loop", "down"} /\ op = Idle /\ batch = {}
    /\ phase' = PhaseAfter(phase)
    /\ batch' = Load(PhaseAfter(phase))
    /\ UNCHANGED <<storeVars, sending, queue, op, todo, noticed, dockerVars,
                   prop, errors, unborn, boundVars>>

TakeLoaded(x) ==
    /\ op = Idle
    /\ x \in batch /\ batch' = batch \ {x}
    /\ CASE phase = "delete" -> BeginDelete(x)
         [] phase = "stop"   -> BeginStop(x)
         [] phase = "start"  -> BeginStart(x)
         [] OTHER            -> BeginPublish(x)
    /\ UNCHANGED <<storeVars, sending, queue, phase, noticed, dockerVars, prop,
                   unborn, boundVars>>

-----------------------------------------------------------------------------
(* The steps.                                                              *)

Doing(do) == todo # <<>> /\ Head(todo).do = do
Subject == Head(todo).x

Continue(steps) ==
    /\ todo' = steps \o Tail(todo)
    /\ UNCHANGED <<op, errors, phase, batch>>

(* The `?' of every call.  A failed update starts again what it stopped;   *)
(* a failure of publish_received ends the service.                         *)
Fail ==
    /\ IF op.kind = "update"
       THEN /\ op' = [op EXCEPT !.kind = "restart"]
            /\ todo' = Each("restart", op.back) \o <<Step("reportStarted", op.x)>>
       ELSE op' = Idle /\ todo' = <<>>
    /\ errors' = errors \cup ({op.x, op.to} \cap Deployments)
    /\ IF op.kind = "publish" /\ phase # "loop"
       THEN phase' = "down" /\ batch' = {}
       ELSE UNCHANGED <<phase, batch>>

Send(value) == prop' = [prop EXCEPT ![Subject] = value]

HasRow(x) ==
    IF x \in Deployments THEN db.dep[x] # "none"
    ELSE IF x \in Containers THEN IsStored(x) ELSE db.res[x] # "none"

SetContainer(c, status) == [db EXCEPT !.cont[c] = status]
SetResource(r, status)  == [db EXCEPT !.res[r] = status]

StepOnly == UNCHANGED <<sending, queue, noticed, unborn, boundVars>>

(* publish sends the property, then updates the row: whatever a command    *)
(* has stored meanwhile, a deployment is Stopped.                          *)
Publish ==
    /\ Doing("publish")
    /\ Send(IF Subject \in Deployments THEN "Stopped"
            ELSE IF Subject \in Containers THEN "Received" ELSE "false")
    /\ IF HasRow(Subject)
       THEN /\ db' = IF Subject \in Deployments THEN SetDeployment(Subject, "Stopped")
                     ELSE IF Subject \in Containers THEN SetContainer(Subject, "Published")
                     ELSE SetResource(Subject, "Published")
            /\ Continue(<<>>)
       ELSE Fail /\ UNCHANGED db
    /\ UNCHANGED dockerVars
    /\ StepOnly

(* fetch: find the row, and send what Docker says of it.                   *)
Found(x) == IF x \in Containers THEN FindContainer(x) ELSE db.res[x] # "none"

Exists(x) == IF x \in Containers THEN docker[x] # "absent" ELSE x \in present

ContainerValue == [absent |-> "Received", created |-> "Created",
                   running |-> "Running", exited |-> "Stopped"]

Seen(x) == IF x \in Containers THEN ContainerValue[docker[x]]
           ELSE IF x \in present THEN "true" ELSE "false"

(* A step that begins with fetch, and goes on by what it found.            *)
Look(do, steps) ==
    /\ Doing(do)
    /\ IF Found(Subject) THEN Send(Seen(Subject)) /\ Continue(steps)
                         ELSE Fail /\ UNCHANGED prop
    /\ UNCHANGED <<storeVars, dockerVars>>
    /\ StepOnly

Fetch ==
    /\ Doing("fetch")
    /\ IF Found(Subject) THEN Send(Seen(Subject)) ELSE UNCHANGED prop
    /\ Continue(<<>>)
    /\ UNCHANGED <<storeVars, dockerVars>>
    /\ StepOnly

Steps2(first, second) == <<Step(first, Subject), Step(second, Subject)>>

Up ==
    Look("up",
         (IF Exists(Subject) /\ Subject \notin AlwaysPull THEN <<>> ELSE Steps2("create", "created"))
           \o (IF Subject \in Containers THEN Steps2("start", "started") ELSE <<>>))

StopLook == Look("stop", IF Exists(Subject) THEN Steps2("halt", "stopped") ELSE <<>>)

RestartLook == Look("restart", IF Exists(Subject) THEN Steps2("start", "started") ELSE <<>>)

Down ==
    Look("down",
         (IF Exists(Subject)
          THEN (IF Subject \in Containers THEN <<Step("halt", Subject)>> ELSE <<>>)
                 \o <<Step("remove", Subject)>>
          ELSE <<>>) \o Steps2("unset", "drop"))

(* Docker creates no container whose image is not there.                   *)
Create ==
    /\ Doing("create")
    /\ IF Subject \in Resources
       THEN present' = present \cup {Subject} /\ Continue(<<>>) /\ UNCHANGED docker
       ELSE IF docker[Subject] = "absent" /\ Needs[Subject] \cap Images \subseteq present
       THEN docker' = [docker EXCEPT ![Subject] = "created"] /\ Continue(<<>>) /\ UNCHANGED present
       ELSE Fail /\ UNCHANGED dockerVars
    /\ UNCHANGED <<storeVars, prop>>
    /\ StepOnly

(* The property and the row that record a call to Docker.                  *)
Record(do, value, tables) ==
    /\ Doing(do)
    /\ Send(value)
    /\ IF HasRow(Subject) THEN db' = tables /\ Continue(<<>>)
                          ELSE Fail /\ UNCHANGED db
    /\ UNCHANGED dockerVars
    /\ StepOnly

Created ==
    Record("created",
           IF Subject \in Containers THEN "Created" ELSE "true",
           IF Subject \in Containers THEN SetContainer(Subject, "Stopped")
                                     ELSE SetResource(Subject, "Created"))
Started == Record("started", "Running", SetContainer(Subject, "Running"))
Stopped == Record("stopped", "Stopped", SetContainer(Subject, "Stopped"))

(* mark_missing: Docker has no such container any more.                    *)
MarkMissing ==
    /\ Send("Received")
    /\ db' = IF HasRow(Subject) THEN SetContainer(Subject, "Published") ELSE db
    /\ Fail

Start ==
    /\ Doing("start")
    /\ IF Exists(Subject)
       THEN /\ docker' = [docker EXCEPT ![Subject] = "running"]
            /\ Continue(<<>>)
            /\ UNCHANGED <<storeVars, prop>>
       ELSE MarkMissing /\ UNCHANGED docker
    /\ UNCHANGED present
    /\ StepOnly

(* Docker stops a container; a deletion does not mind that it is gone.     *)
Halt ==
    /\ Doing("halt")
    /\ docker' = [docker EXCEPT ![Subject] = IF @ = "running" THEN "exited" ELSE @]
    /\ IF Exists(Subject) \/ op.kind = "delete"
       THEN Continue(<<>>) /\ UNCHANGED <<storeVars, prop>>
       ELSE MarkMissing
    /\ UNCHANGED present
    /\ StepOnly

(* Docker removes no running container and nothing that a container uses;  *)
(* an image in use is left.                                                *)
InUse(r) == \E c \in Containers : docker[c] # "absent" /\ r \in Needs[c]

RemoveObject ==
    /\ Doing("remove")
    /\ IF Subject \in Containers /\ docker[Subject] # "running"
       THEN docker' = [docker EXCEPT ![Subject] = "absent"] /\ Continue(<<>>) /\ UNCHANGED present
       ELSE IF Subject \in Resources /\ ~ InUse(Subject)
       THEN present' = present \ {Subject} /\ Continue(<<>>) /\ UNCHANGED docker
       ELSE /\ IF Subject \in Images THEN Continue(<<>>) ELSE Fail
            /\ UNCHANGED dockerVars
    /\ UNCHANGED <<storeVars, prop>>
    /\ StepOnly

(* unset the property, then delete the row.                                *)
Unset ==
    /\ Doing("unset")
    /\ Send("unset")
    /\ Continue(<<>>)
    /\ UNCHANGED <<storeVars, dockerVars>>
    /\ StepOnly

Drop ==
    /\ Doing("drop")
    /\ IF HasRow(Subject)
       THEN /\ db' = IF Subject \in Deployments THEN DeleteDeployment(Subject)
                     ELSE IF Subject \in Containers THEN DeleteContainer(Subject)
                     ELSE DeleteResource(Subject)
            /\ Continue(<<>>)
       ELSE Fail /\ UNCHANGED db
    /\ UNCHANGED <<dockerVars, prop>>
    /\ StepOnly

Report ==
    /\ \/ Doing("reportStarted") /\ Send("Started")
       \/ Doing("reportStopped") /\ Send("Stopped")
    /\ Continue(<<>>)
    /\ UNCHANGED <<storeVars, dockerVars>>
    /\ StepOnly

Finish ==
    /\ op # Idle /\ todo = <<>>
    /\ op' = Idle
    /\ errors' = IF op.kind = "start" THEN errors \ {op.x}
                 ELSE IF op.kind = "update" THEN errors \ {op.to} ELSE errors
    /\ UNCHANGED <<storeVars, dockerVars, prop, todo, phase, batch>>
    /\ StepOnly

(* A call to Docker, to the store or to Astarte fails.                     *)
CallFails ==
    /\ todo # <<>>
    /\ Mishap /\ faults' = faults + 1
    /\ Fail
    /\ UNCHANGED <<storeVars, dockerVars, prop, sending, queue, noticed, unborn,
                   commands, outside, crashes>>

ServiceStep ==
    \/ TakeEvent \/ NextPhase \/ \E x \in batch : TakeLoaded(x)
    \/ Publish \/ Fetch \/ Up \/ StopLook \/ RestartLook \/ Down
    \/ Create \/ Created \/ Start \/ Started \/ Halt \/ Stopped
    \/ RemoveObject \/ Unset \/ Drop \/ Report \/ Finish

-----------------------------------------------------------------------------
(* Docker, the listener and the runtime.                                   *)

(* A container exits by itself, or is removed by hand.                     *)
ChangeOutside(c) ==
    /\ Mishap /\ outside' = outside + 1
    /\ \/ docker[c] = "running" /\ docker' = [docker EXCEPT ![c] = "exited"]
       \/ docker[c] # "absent" /\ docker' = [docker EXCEPT ![c] = "absent"]
    /\ noticed' = noticed \cup {c}
    /\ UNCHANGED <<storeVars, sending, queue, serviceVars, present, prop, errors,
                   unborn, commands, faults, crashes>>

(* handle_container drops the event of a container it does not know, and   *)
(* the listener one that cannot be sent.                                   *)
(* Mutant: the event of a container that was removed is dropped too.       *)
ListenPresent(c) ==
    /\ c \in noticed /\ noticed' = noticed \ {c}
    /\ IF docker[c] # "absent" /\ phase # "down"
       THEN /\ Len(queue) < Capacity
            /\ queue' = Append(queue, Event("refresh", c))
       ELSE UNCHANGED queue
    /\ UNCHANGED <<storeVars, sending, serviceVars, dockerVars, prop, errors,
                   unborn, boundVars>>

Listen(c) ==
    /\ c \in noticed /\ noticed' = noticed \ {c}
    /\ IF IsStored(c) /\ phase # "down"
       THEN /\ Len(queue) < Capacity
            /\ queue' = Append(queue, Event("refresh", c))
       ELSE UNCHANGED queue
    /\ UNCHANGED <<storeVars, sending, serviceVars, dockerVars, prop, errors,
                   unborn, boundVars>>

(* Docker and the store outlive the runtime; what is in flight does not.   *)
Restart ==
    /\ sending' = None /\ queue' = <<>> /\ noticed' = {}
    /\ phase' = "boot" /\ batch' = {} /\ op' = Idle /\ todo' = <<>>
    /\ errors' = {}
    /\ UNCHANGED <<storeVars, dockerVars, prop, unborn, commands, faults, outside>>

Crash == Mishap /\ crashes' = crashes + 1 /\ Restart

(* The service has ended: the handle's task fails, and so the runtime.     *)
Disconnected == phase = "down" /\ sending # None /\ Restart /\ UNCHANGED crashes

(* Nothing is left to do: the server may ask no more.                      *)
Settled ==
    /\ phase = "loop" /\ op = Idle /\ queue = <<>> /\ sending = None /\ noticed = {}

Rest ==
    /\ Settled \/ phase = "down"
    /\ UNCHANGED vars

Next ==
    \/ \E x \in Objects : ReceiveCreation(x)
    \/ \E kind \in DOMAIN CommandStatus, d \in Deployments : ReceiveCommand(kind, d)
    \/ \E from, to \in Deployments : ReceiveUpdate(from, to)
    \/ SendEvent
    \/ ServiceStep
    \/ CallFails
    \/ \E c \in Containers : ChangeOutside(c) \/ Listen(c)
    \/ Crash \/ Disconnected
    \/ Rest

Spec == Init /\ [][Next]_vars

-----------------------------------------------------------------------------
(* Properties.                                                             *)

(* Deployments implements Ownership: a container belongs to the            *)
(* deployments whose row of it can be loaded (find_deployment_for_delete), *)
(* and those go only after the container is removed from Docker, whatever  *)
(* fails or crashes in between.                                            *)
Owners == [c \in Containers |-> {d \in Deployments : c \in Joined(d)}]
O == INSTANCE Ownership WITH owners <- Owners
ImplementsOwnership == O!OwnershipSpec

(* When all requests are worked on and nothing has failed, what the store  *)
(* says is started runs, whatever overtook what: or the server was told    *)
(* that it does not.  What is meant are the containers whose image was     *)
(* there all along: is_deployment_complete is content with one complete    *)
(* container, and join_resources leaves out those without an image.        *)
StartedRuns ==
    Settled /\ faults = 0 /\ outside = 0 =>
      \A d \in Deployments : \A c \in Joined(d) :
        /\ db.dep[d] = "Started" /\ d \notin errors
        /\ Needs[c] \cap Images \subseteq Known
        /\ \A e \in Deployments \ {d} : c \notin Named(e)
        => docker[c] = "running"

(* initialize stops and deletes before it starts: "to ensure the ports and *)
(* other resources are freed before starting the containers"               *)
(* (service/mod.rs:121).  What still runs then is a container of a         *)
(* deployment that is to be started, whose stop failed or is answered with *)
(* an Error event, or whose next event is on the way, whatever failed.     *)
About(d) == {e \in Events : e.kind # "refresh" /\ d \in {e.x, e.to}}
FreedBeforeStart ==
    phase = "start" =>
      \A c \in Containers : docker[c] = "running" =>
        \E d \in Deployments :
          /\ c \in db.rows[d]
          /\ \/ db.dep[d] = "Started"
             \/ d \in errors
             \/ sending \in About(d)
             \/ \E n \in DOMAIN queue : queue[n] \in About(d)

(* The property of a container agrees with Docker when the service has     *)
(* nothing to do and nothing has failed, even if the container exits or is *)
(* removed behind its back.                                                *)
PropertyIsTrue ==
    Settled /\ faults = 0 /\ crashes = 0 =>
      \A c \in Containers :
        IsStored(c) => (prop[c] = "Running" <=> docker[c] = "running")

(* "The deployment is stopped" (models/containers/deployment.rs:117 of the  *)
(* store), when nothing is left to do and nothing failed.  publish writes  *)
(* Stopped over a Started that the handle has stored meanwhile, and the    *)
(* deployment is started all the same.                                     *)
StoppedIsStopped ==
    Settled /\ faults + outside + crashes = 0 =>
      \A d \in Deployments : \A c \in db.rows[d] :
        /\ db.dep[d] = "Stopped" /\ d \notin errors
        /\ \A e \in Deployments \ {d} : c \notin Named(e)
        => docker[c] # "running"

(* An update does not stop the containers that both deployments have.      *)
UpdateKeepsShared ==
    [][op.kind = "update" /\ outside' = outside =>
         \A c \in db.rows[op.x] \cap db.rows[op.to] :
           docker[c] = "running" => docker'[c] = "running"]_vars
=============================================================================
