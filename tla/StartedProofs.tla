--------------------------- MODULE StartedProofs ---------------------------
(***************************************************************************)
(* Proofs about the deployments that Deployments starts, for every value   *)
(* of the constants: when the service has nothing left to do, what the     *)
(* store says is started runs, or the server was told that it does not.    *)
(***************************************************************************)
EXTENDS PropertyProofs

-----------------------------------------------------------------------------
(* The invariant.                                                          *)

(* The event of a request that starts d, and of one that stops or deletes  *)
(* it: an update to a deployment that is not in the store does nothing.    *)
Starts(e, d) == e = Event("start", d) \/ \E f \in Deployments : e = Update(f, d)
Opposes(e, d) ==
    \/ e = Event("stop", d)
    \/ e = Event("delete", d)
    \/ \E f \in Deployments \ {d} : e = Update(d, f) /\ db.dep[f] # "none"

(* After what opposes d comes what starts it.                              *)
Answered(d) ==
    /\ ~ Opposes(sending, d)
    /\ \A n \in DOMAIN queue : Opposes(queue[n], d) =>
         \/ Starts(sending, d)
         \/ \E m \in DOMAIN queue : m > n /\ Starts(queue[m], d)

(* The operation that is under way.                                        *)
StartsNow(d) == (op.kind = "start" /\ op.x = d) \/ (op.kind = "update" /\ op.to = d)
StopsNow(d) ==
    /\ op.x = d
    /\ op.kind \in {"stop", "delete"} \/ (op.kind = "update" /\ op.to # d)

(* The containers of StartedRuns.                                          *)
Mine(d) ==
    {c \in Joined(d) : /\ Needs[c] \cap Images \subseteq Known
                       /\ \A e \in Deployments \ {d} : c \notin Named(e)}

(* Where a deployment is that the store says is started: initialize will   *)
(* start it; an event that starts it is on its way; it was answered with   *)
(* an Error event; or its containers run, or are about to.                 *)
ToLoad(d)   == phase \in {"boot", "resources", "containers", "deployments", "delete", "stop"}
               \/ (phase = "start" /\ d \in batch)
Asked(d)    == Starts(sending, d) \/ \E n \in DOMAIN queue : Starts(queue[n], d)
Refused(d)  == d \in errors /\ ~ StartsNow(d)
Runs(c, d)  == \/ docker[c] = "running"
               \/ /\ StartsNow(d)
                  /\ Step("up", c) \in Members(todo) \/ Step("start", c) \in Members(todo)
Running(d)  == db.lacks[d] = {} /\ ~ StopsNow(d) /\ \A c \in Mine(d) : Runs(c, d)

Placed(d) == ToLoad(d) \/ Asked(d) \/ Refused(d) \/ Running(d)
StartedOK ==
    faults = 0 /\ outside = 0 =>
      \A d \in Deployments : db.dep[d] = "Started" => Answered(d) /\ Placed(d)

(* Only containers of the deployment it works on are stopped.              *)
StopsOwn ==
    \A s \in Members(todo) :
      s.do \in {"stop", "halt", "down"} /\ s.x \in Containers =>
        op.x \in Deployments /\ s.x \in Named(op.x)

(* The server has asked to create what it updates.                         *)
ToldOf(e, U) == e \in Events /\ e.kind = "update" => e.to \notin U
UpdatesBorn ==
    ToldOf(sending, unborn) /\ \A n \in DOMAIN queue : ToldOf(queue[n], unborn)

KnownBorn == Known \cap unborn = {}

Restored == StopsOwn /\ UpdatesBorn /\ KnownBorn /\ StartedOK

-----------------------------------------------------------------------------
(* What the service begins with.                                           *)

(* start_deployment brings up every container of the deployment that has   *)
(* its image.                                                              *)
LEMMA StartsAll ==
  ASSUME db \in Tables, RowsOK, NEW d \in Deployments
  PROVE  \A c \in Joined(d) : Step("up", c) \in Members(StartSteps(d))
<1> DEFINE I == JoinedLinks(d) \cap Images
           V == JoinedLinks(d) \ Images
           i == Each("up", SetToSeq(I))
           v == Each("up", SetToSeq(V))
           q == InOrder(d, Joined(d))
           u == Each("up", q)
           e == <<Step("reportStarted", d)>>
<1>1. /\ JoinedLinks(d) \subseteq Resources /\ Joined(d) \subseteq Containers
      /\ Joined(d) \subseteq Named(d)
  BY DEF JoinedLinks, Joined, Tables, RowsOK
<1>2. IsFiniteSet(I) /\ IsFiniteSet(V)
  BY <1>1, ContainerStoreAssumption, FS_Subset
<1>3. SetToSeq(I) \in Seq(I) /\ SetToSeq(V) \in Seq(V)
  BY <1>2, SetToSeqFacts
<1>4. /\ q \in Seq(Joined(d))
      /\ \A c \in Joined(d) : \E n \in DOMAIN q : q[n] = c
  <2>1. Joined(d) \cap Containers = Joined(d) /\ Joined(d) \cap Named(d) = Joined(d)
    BY <1>1
  <2>2. q \in Seq(Joined(d))  BY <2>1, InOrderFacts
  <2>3. \A c \in Joined(d) \cap Named(d) :
          \E n \in DOMAIN InOrder(d, Joined(d)) : InOrder(d, Joined(d))[n] = c
    BY InOrderFacts, ZenonT(60)
  <2> QED  BY <2>1, <2>2, <2>3
<1>5. I \in SUBSET Objects /\ V \in SUBSET Objects /\ Joined(d) \in SUBSET Objects
  BY <1>1 DEF Objects
<1>6. StartSteps(d) = i \o v \o u \o e  BY DEF StartSteps
<1>7. e \in Seq(Steps)  BY StepType, OneStep DEF Dos, Objects
<1> HIDE DEF I, V, q, e
<1>8. i \in Seq(Steps) /\ v \in Seq(Steps)  BY <1>3, <1>5, EachFacts DEF Dos
<1>9. /\ u \in Seq(Steps) /\ DOMAIN u = DOMAIN q
      /\ \A n \in DOMAIN q : u[n] = Step("up", q[n])
  BY <1>4, <1>5, EachFacts DEF Dos
<1> HIDE DEF i, v, u
<1>10. i \o v \in Seq(Steps)  BY <1>8, ConcatBoth
<1>11. i \o v \o u \in Seq(Steps) /\ Members(u) \subseteq Members(i \o v \o u)
  BY <1>9, <1>10, ConcatBoth
<1>12. Members(u) \subseteq Members(StartSteps(d))
  BY <1>6, <1>7, <1>11, ConcatBoth
<1>13. ASSUME NEW c \in Joined(d)  PROVE Step("up", c) \in Members(u)
  <2>1. PICK n \in DOMAIN q : q[n] = c  BY <1>4
  <2> QED  BY <1>9, <2>1 DEF Members
<1> QED  BY <1>12, <1>13

(* An update starts the new deployment, unless it is refused.              *)
LEMMA UpdateStarts ==
  ASSUME db \in Tables, RowsOK, NEW from \in Deployments, NEW to \in Deployments,
         BeginUpdate(from, to)
  PROVE  \/ /\ op'.kind = "update" /\ op'.x = from /\ op'.to = to
            /\ db.dep[from] # "none" /\ IsComplete(to)
            /\ \A c \in Joined(to) : Step("up", c) \in Members(todo')
         \/ NotFound({from, to}) /\ (db.dep[from] = "none" \/ ~ IsComplete(to))
<1>1. CASE db.dep[from] # "none" /\ IsComplete(to)
  <2> DEFINE S == ContainersToStop(from, to)
             back == InOrder(from, S)
             q == Each("stop", back) \o <<Step("reportStopped", from)>>
             new == [kind |-> "update", x |-> from, to |-> to, back |-> back]
  <2>1. todo' = q \o StartSteps(to) /\ op' = new
    BY <1>1 DEF BeginUpdate, Begin
  <2>2. new.kind = "update" /\ new.x = from /\ new.to = to  OBVIOUS
  <2>3. q \in Seq(Steps)  BY StopList
  <2>4. StartSteps(to) \in Seq(Steps)  BY StartStepsFacts
  <2> HIDE DEF q, new
  <2>5. Members(StartSteps(to)) \subseteq Members(todo')
    BY <2>1, <2>3, <2>4, ConcatBoth
  <2> QED  BY <1>1, <2>1, <2>2, <2>5, StartsAll
<1>2. CASE ~ (db.dep[from] # "none" /\ IsComplete(to))
  BY <1>2 DEF BeginUpdate
<1> QED  BY <1>1, <1>2

(* delete_deployment takes down only containers of the deployment.         *)
LEMMA DeletesOwn ==
  ASSUME db \in Tables, NEW d \in Deployments,
         NEW s \in Members(DeleteSteps(d)), s.x \in Containers
  PROVE  s.x \in Joined(d)
<1> DEFINE c == DownContainers(d)
           v == DownVolumes(d)
           i == DownImages(d)
           e == DropSelf(d)
<1>1. DeleteSteps(d) = c \o v \o i \o e
  BY DEF DeleteSteps, DownContainers, DownVolumes, DownImages, DropSelf
<1>2. Images \subseteq Resources /\ Containers \cap Resources = {} /\ d \notin Containers
  BY ContainerStoreAssumption
<1>3. /\ c \in Seq(Steps) /\ \A t \in Members(c) : t.x \in Joined(d)
      /\ v \in Seq(Steps) /\ \A t \in Members(v) : t.x \notin Containers
      /\ i \in Seq(Steps) /\ \A t \in Members(i) : t.x \notin Containers
      /\ e \in Seq(Steps) /\ \A t \in Members(e) : t.x = d
  <2>1. c \in Seq(Steps) /\ \A t \in Members(c) : t.x \in Joined(d)
    BY DownContainersFacts DEF ContainersToDelete
  <2>2. /\ v \in Seq(Steps) /\ \A t \in Members(v) : t.x \notin Containers
        /\ i \in Seq(Steps) /\ \A t \in Members(i) : t.x \notin Containers
    BY <1>2, DownResourcesFacts
  <2>3. e \in Seq(Steps) /\ \A t \in Members(e) : t.x = d
    <3>1. e \in Seq(Steps) /\ Members(e) = {Step("unset", d), Step("drop", d)}
      BY DropSelfFacts
    <3> HIDE DEF e
    <3> QED  BY <3>1 DEF Step
  <2> QED  BY <2>1, <2>2, <2>3
<1> HIDE DEF c, v, i, e
<1>4. c \o v \in Seq(Steps) /\ Members(c \o v) = Members(c) \cup Members(v)
  BY <1>3, ConcatBoth
<1>5. c \o v \o i \in Seq(Steps) /\ Members(c \o v \o i) = Members(c \o v) \cup Members(i)
  BY <1>3, <1>4, ConcatBoth
<1>6. Members(c \o v \o i \o e) = Members(c \o v \o i) \cup Members(e)
  BY <1>3, <1>5, ConcatBoth
<1> QED  BY <1>1, <1>2, <1>3, <1>4, <1>5, <1>6

-----------------------------------------------------------------------------
(* Only containers of the deployment it works on are stopped.              *)

StopDo == {"stop", "halt", "down"}

(* The step that brings up, or restarts, looks first.                      *)
LEMMA LooksFirst ==
  ASSUME Work
  PROVE  (Doing("up") => Up) /\ (Doing("restart") => RestartLook)
BY DEF Work, Publish, Fetch, Up, StopLook, RestartLook, Down, Look, Create, Created,
       Started, Stopped, Record, Start, Halt, RemoveObject, Unset, Drop, Report, Doing

(* A step that stops comes after one that looked for it to stop.           *)
LEMMA HaltComes ==
  ASSUME OpOK, Fits, Subjects(todo), Work, ~ Fail,
         NEW s \in Members(todo'), s \notin Members(todo), s.do \in StopDo
  PROVE  s.x = Subject /\ Head(todo).do \in StopDo /\ op' = op
<1>1. PICK t \in Seq(Steps) : Continue(t) /\ Adds(t, Subject) /\ Small(t) /\ Links(t)
  BY WorkLinks
<1>2. todo # <<>> /\ Subject \in Objects  BY WorkGoes
<1>3. Members(todo') \subseteq Members(t) \cup Members(todo) /\ op' = op
  BY <1>1, <1>2, GoesOn
<1>4. s \in Members(t) /\ s.x = Subject /\ s.do = "halt"
  BY <1>1, <1>3 DEF Adds, Small, StopDo
<1>5. t # <<>>  BY <1>4, NoSteps
<1>6. Head(todo).do \in {"up", "stop", "restart", "down"}
  BY <1>1, <1>5 DEF Links, Looked
<1>7. ASSUME NEW u \in Seq(Steps), Continue(u), \A m \in Members(u) : m.do # "halt"
      PROVE  FALSE
  <2>1. Members(todo') \subseteq Members(u) \cup Members(todo)
    BY <1>2, <1>7, GoesOn
  <2> QED  BY <1>4, <1>7, <2>1
<1>8. Head(todo).do # "up"
  <2> SUFFICES ASSUME Head(todo).do = "up"  PROVE FALSE
    OBVIOUS
  <2>1. Look("up", UpSteps)  BY <1>2, LooksFirst DEF Up, UpSteps, Doing
  <2>2. Continue(UpSteps)  BY <2>1 DEF Look
  <2> QED  BY <1>2, <1>7, <2>2, LookDos
<1>9. Head(todo).do # "restart"
  <2> SUFFICES ASSUME Head(todo).do = "restart"  PROVE FALSE
    OBVIOUS
  <2>1. Look("restart", RestartSteps)
    BY <1>2, LooksFirst DEF RestartLook, RestartSteps, Doing
  <2>2. Continue(RestartSteps)  BY <2>1 DEF Look
  <2> QED  BY <1>2, <1>7, <2>2, LookDos
<1> QED  BY <1>3, <1>4, <1>6, <1>8, <1>9 DEF StopDo

LEMMA OwnBegins ==
  ASSUME OpOK, op = Idle, db \in Tables, RowsOK, Begins
  PROVE  StopsOwn'
<1>1. todo = <<>>  BY DEF OpOK
<1>2. ASSUME \A s \in Members(todo') : s.do \notin StopDo  PROVE StopsOwn'
  BY <1>2 DEF StopsOwn, StopDo, Members
<1>3. ASSUME NEW D, NotFound(D)  PROVE StopsOwn'
  <2>1. todo' = <<>>  BY <1>1, <1>3 DEF NotFound
  <2> QED  BY <1>2, <2>1, NoSteps
<1>4. ASSUME NEW d \in Deployments, op'.x = d,
             \A s \in Members(todo') :
               s.do \in StopDo /\ s.x \in Containers => s.x \in db.rows[d]
      PROVE  StopsOwn'
  BY <1>4 DEF StopsOwn, StopDo, Members, RowsOK
<1>5. ASSUME NEW x \in Objects, BeginPublish(x)  PROVE StopsOwn'
  <2>1. \A s \in Members(todo') : s.do \in {"publish", "fetch"}
    <3>1. Members(todo') \subseteq {Step("publish", x), Step("fetch", x)}
      BY <1>5, PublishBegins
    <3>2. Step("publish", x).do = "publish" /\ Step("fetch", x).do = "fetch"
      BY DEF Step
    <3> QED  BY <3>1, <3>2
  <2> QED  BY <1>2, <2>1 DEF StopDo
<1>6. ASSUME NEW c \in Containers, BeginRefresh(c)  PROVE StopsOwn'
  <2>1. \A s \in Members(todo') : s.do = "fetch"
    BY <1>6, RefreshBegins DEF Step
  <2> QED  BY <1>2, <2>1 DEF StopDo
<1>7. ASSUME NEW d \in Deployments, BeginStart(d)  PROVE StopsOwn'
  <2>1. CASE StartingSteps(todo', d)
    BY <1>2, <2>1 DEF StartingSteps, StopDo
  <2> QED  BY <1>3, <1>7, <2>1, StartBegins
<1>8. ASSUME NEW d \in Deployments, BeginStop(d)  PROVE StopsOwn'
  <2>1. CASE op'.x = d /\ StoppingSteps(todo', d, db.rows[d])
    <3>1. \A s \in Members(todo') :
            s.do \in StopDo /\ s.x \in Containers => s.x \in db.rows[d]
      BY <2>1 DEF StoppingSteps, StopDo
    <3> QED  BY <1>4, <2>1, <3>1
  <2> QED  BY <1>3, <1>8, <2>1, StopBegins
<1>9. ASSUME NEW d \in Deployments, BeginDelete(d)  PROVE StopsOwn'
  <2>1. CASE db.dep[d] = "none"
    BY <1>3, <1>9, <2>1 DEF BeginDelete
  <2>2. CASE db.dep[d] # "none"
    <3>1. op' = Operation("delete", d) /\ todo' = DeleteSteps(d)
      BY <1>9, <2>2 DEF BeginDelete, Begin
    <3>2. op'.x = d  BY <3>1, OperationParts
    <3>3. Joined(d) \subseteq db.rows[d]  BY DEF Joined
    <3>4. \A s \in Members(todo') : s.x \in Containers => s.x \in db.rows[d]
      BY <3>1, <3>3, DeletesOwn
    <3> QED  BY <1>4, <3>2, <3>4
  <2> QED  BY <2>1, <2>2
<1>10. ASSUME NEW from \in Deployments, NEW to \in Deployments, BeginUpdate(from, to)
       PROVE  StopsOwn'
  <2>1. CASE op'.x = from /\ \A s \in Members(todo') :
               \/ s.do = "stop" /\ s.x \in db.rows[from] \ db.rows[to]
               \/ s.do = "reportStopped"
               \/ s.do = "up"
               \/ s.do = "reportStarted"
    <3>1. \A s \in Members(todo') :
            s.do \in StopDo /\ s.x \in Containers => s.x \in db.rows[from]
      BY <2>1 DEF StopDo
    <3> QED  BY <1>4, <2>1, <3>1
  <2> QED  BY <1>3, <1>10, <2>1, UpdateBegins
<1> QED  BY <1>5, <1>6, <1>7, <1>8, <1>9, <1>10 DEF Begins

LEMMA OwnNext ==
  ASSUME Typed, Worked, StoreInv, StopsOwn, [Next]_vars
  PROVE  StopsOwn'
<1>1. OpOK /\ Fits /\ Subjects(todo) /\ db \in Tables /\ RowsOK /\ queue \in Seq(Events)
  BY DEF Typed, TypeOK, Worked, StoreInv
<1>2. ASSUME \A s \in Members(todo') : s.do \notin StopDo  PROVE StopsOwn'
  BY <1>2 DEF StopsOwn, StopDo, Members
<1>3. ASSUME todo' = <<>>  PROVE StopsOwn'
  BY <1>2, <1>3, NoSteps
<1>4. CASE TakeEvent
  <2>1. Head(queue) \in Events /\ op = Idle /\ BeginEvent(Head(queue))
    BY <1>1, <1>4 DEF TakeEvent
  <2> QED  BY <1>1, <2>1, EventBegins, OwnBegins
<1>5. ASSUME NEW x \in batch, TakeLoaded(x)  PROVE StopsOwn'
  BY <1>1, <1>5, LoadedBegins, OwnBegins
<1>6. CASE NextPhase  BY <1>3, <1>6, NextPhaseFacts
<1>7. CASE Finish  BY <1>3, <1>7 DEF Finish
<1>8. ASSUME Fail  PROVE StopsOwn'
  <2>1. \A s \in Members(todo') : s.do \in {"restart", "reportStarted"}
    BY <1>1, <1>8, Fails, NoSteps DEF Step
  <2> QED  BY <1>2, <2>1 DEF StopDo
<1>9. CASE Ending  BY <1>3, <1>9 DEF Ending, Restart
<1>10. CASE Apart
  BY <1>10 DEF Apart, serviceVars, StopsOwn, Members
<1>11. CASE Working /\ ~ Fail
  <2>1. todo # <<>> /\ op' = op
    <3>1. todo # <<>>  BY <1>11 DEF Working
    <3> QED  BY <1>1, <1>11, <3>1, GoesOn DEF Working
  <2> SUFFICES ASSUME NEW s \in Members(todo'), s.do \in StopDo, s.x \in Containers
               PROVE  op'.x \in Deployments /\ s.x \in Named(op'.x)
    BY DEF StopsOwn, StopDo, Members
  <2>2. CASE s \in Members(todo)
    BY <2>1, <2>2 DEF StopsOwn, StopDo
  <2>3. CASE s \notin Members(todo)
    <3>1. s.x = Subject /\ Head(todo).do \in StopDo
      BY <1>1, <1>11, <2>3, HaltComes DEF Working
    <3>2. Head(todo) \in Members(todo) /\ Head(todo).x = s.x
      BY <1>1, <2>1, <3>1, HeadIs DEF Subject
    <3> QED  BY <2>1, <3>1, <3>2 DEF StopsOwn, StopDo
  <2> QED  BY <2>2, <2>3
<1> QED
  BY <1>4, <1>5, <1>6, <1>7, <1>8, <1>9, <1>10, <1>11, Happens DEF Failing

-----------------------------------------------------------------------------
(* The requests and the channel.                                           *)

LEMMA EventFacts ==
  ASSUME NEW k, NEW l, NEW x, NEW y, NEW v, NEW w
  PROVE  /\ Event(k, x) = Event(l, y) <=> k = l /\ x = y
         /\ k # "update" => Event(k, x) # Update(v, w)
         /\ Update(x, y) = Update(v, w) <=> x = v /\ y = w
         /\ Event(k, x).kind = k /\ Update(x, y).kind = "update" /\ Update(x, y).to = y
BY DEF Event, Update

LEMMA EventsAre ==
  ASSUME NEW d \in Deployments
  PROVE  /\ \A kind \in {"start", "stop", "delete"} : Event(kind, d) \in Events
         /\ \A f \in Deployments : Update(d, f) \in Events
BY DEF Events, Commands

(* Neither: the event is about something else.                             *)
LEMMA NoCommand ==
  ASSUME NEW d \in Deployments, NEW e,
         e = None \/ \E k \in {"publish", "refresh"} : \E x : e = Event(k, x)
  PROVE  ~ Starts(e, d) /\ ~ Opposes(e, d) /\ ~ Opposes(e, d)'
<1>1. CASE e = None
  <2>1. /\ \A kind \in {"start", "stop", "delete"} : e # Event(kind, d)
        /\ \A f \in Deployments : e # Update(d, f) /\ e # Update(f, d)
    BY <1>1, NoneAssumption, EventsAre
  <2> QED  BY <2>1 DEF Starts, Opposes
<1>2. ASSUME NEW k \in {"publish", "refresh"}, NEW x, e = Event(k, x)
      PROVE  ~ Starts(e, d) /\ ~ Opposes(e, d) /\ ~ Opposes(e, d)'
  BY <1>2, EventFacts DEF Starts, Opposes
<1> QED  BY <1>1, <1>2

Requesting ==
    \/ \E x \in Objects : ReceiveCreation(x)
    \/ \E kind \in DOMAIN CommandStatus, d \in Deployments : ReceiveCommand(kind, d)
    \/ \E from, to \in Deployments : ReceiveUpdate(from, to)

Queues(e) == e \in Events /\ queue' = Append(queue, e)

(* What becomes of the events.                                             *)
LEMMA Messages ==
  ASSUME Typed, [Next]_vars
  PROVE  \/ UNCHANGED <<sending, queue>>
         \/ Requesting /\ sending = None /\ UNCHANGED queue
         \/ Queues(sending) /\ sending' = None /\ UNCHANGED db
         \/ UNCHANGED sending /\ \E c \in Containers : Queues(Event("refresh", c))
         \/ TakeEvent
         \/ sending' = None /\ queue' = <<>> /\ phase' = "boot"
<1>1. queue \in Seq(Events) /\ sending \in Events \cup {None}  BY DEF Typed, TypeOK
<1>2. ASSUME NEW e, NEW possible, NEW tables, Persist(e, possible, tables)
      PROVE  sending = None /\ UNCHANGED queue
  BY <1>2 DEF Persist
<1>3. CASE Requesting
  <2>1. sending = None /\ UNCHANGED queue
    BY <1>2, <1>3 DEF Requesting, ReceiveCreation, ReceiveCommand, ReceiveUpdate
  <2> QED  BY <1>3, <2>1
<1>4. CASE SendEvent
  BY <1>1, <1>4 DEF SendEvent, Queues, storeVars
<1>5. ASSUME NEW c \in Containers, Listen(c)
      PROVE  UNCHANGED sending /\ (UNCHANGED queue \/ Queues(Event("refresh", c)))
  <2>1. Event("refresh", c) \in Events  BY DEF Events, Refreshes
  <2> QED  BY <1>5, <2>1 DEF Listen, Queues
<1>6. CASE Crash \/ Disconnected
  BY <1>6 DEF Crash, Disconnected, Restart
<1>7. CASE ServiceStep /\ ~ TakeEvent
  BY <1>7
     DEF ServiceStep, NextPhase, TakeLoaded, Publish, Fetch, Up, StopLook, RestartLook,
         Down, Look, Create, Created, Started, Stopped, Record, Start, Halt, RemoveObject,
         Unset, Drop, Report, Finish, StepOnly
<1>8. CASE CallFails \/ Rest \/ UNCHANGED vars \/ (\E c \in Containers : ChangeOutside(c))
  BY <1>8 DEF CallFails, Rest, ChangeOutside, vars
<1> QED
  BY <1>3, <1>4, <1>5, <1>6, <1>7, <1>8 DEF Next, Requesting

(* The event that was stored is one of its request.                        *)
LEMMA RequestSends ==
  ASSUME Typed, Requesting, faults' = 0
  PROVE  \/ \E x \in Objects : sending' = Event("publish", x) /\ db' = Creation(x)
         \/ /\ unborn' = unborn
            /\ \E kind \in DOMAIN CommandStatus, d \in Deployments \ unborn :
                 /\ sending' = Event(kind, d)
                 /\ IF db.dep[d] # "none" THEN db' = SetDeployment(d, CommandStatus[kind])
                                          ELSE UNCHANGED db
         \/ /\ unborn' = unborn
            /\ \E from, to \in Deployments \ unborn :
                 /\ sending' = Update(from, to)
                 /\ IF db.dep[from] # "none" /\ db.dep[to] # "none"
                    THEN db' = UpdateDeployments(from, to) ELSE UNCHANGED db
<1>1. ASSUME NEW e, NEW possible \in BOOLEAN, NEW tables, Persist(e, possible, tables)
      PROVE  sending' = e /\ (IF possible THEN db' = tables ELSE UNCHANGED db)
  <2>1. faults \in Nat  BY DEF Typed, TypeOK
  <2>2. faults' # faults + 1  BY <2>1
  <2> QED  BY <1>1, <2>2 DEF Persist
<1>2. ASSUME NEW x \in Objects, ReceiveCreation(x)
      PROVE  sending' = Event("publish", x) /\ db' = Creation(x)
  <2>1. Persist(Event("publish", x), TRUE, Creation(x))
    BY <1>2 DEF ReceiveCreation, Creation
  <2> QED  BY <1>1, <2>1
<1>3. ASSUME NEW kind \in DOMAIN CommandStatus, NEW d \in Deployments, ReceiveCommand(kind, d)
      PROVE  /\ d \notin unborn /\ sending' = Event(kind, d) /\ unborn' = unborn
             /\ IF db.dep[d] # "none" THEN db' = SetDeployment(d, CommandStatus[kind])
                                      ELSE UNCHANGED db
  <2>1. /\ Persist(Event(kind, d), db.dep[d] # "none", SetDeployment(d, CommandStatus[kind]))
        /\ d \notin unborn /\ unborn' = unborn
    BY <1>3 DEF ReceiveCommand
  <2>2. (db.dep[d] # "none") \in BOOLEAN  OBVIOUS
  <2> QED  BY <1>1, <2>1, <2>2
<1>4. ASSUME NEW from \in Deployments, NEW to \in Deployments, ReceiveUpdate(from, to)
      PROVE  /\ from \notin unborn /\ to \notin unborn /\ sending' = Update(from, to)
             /\ unborn' = unborn
             /\ IF db.dep[from] # "none" /\ db.dep[to] # "none"
                THEN db' = UpdateDeployments(from, to) ELSE UNCHANGED db
  <2>1. /\ Persist(Update(from, to), db.dep[from] # "none" /\ db.dep[to] # "none",
                   UpdateDeployments(from, to))
        /\ from \notin unborn /\ to \notin unborn /\ unborn' = unborn
    BY <1>4 DEF ReceiveUpdate
  <2>2. (db.dep[from] # "none" /\ db.dep[to] # "none") \in BOOLEAN  OBVIOUS
  <2> QED  BY <1>1, <2>1, <2>2
<1> QED  BY <1>2, <1>3, <1>4 DEF Requesting

(* What a request leaves started, its event does not oppose; and what it   *)
(* makes so, its event starts.                                             *)
LEMMA RequestAsks ==
  ASSUME Typed, Requesting, faults' = 0, NEW d \in Deployments, db'.dep[d] = "Started"
  PROVE  /\ ~ Opposes(sending, d)'
         /\ db.dep[d] = "Started" \/ Starts(sending, d)'
<1>1. db \in Tables  BY DEF Typed, TypeOK
<1>2. ASSUME NEW x \in Objects, sending' = Event("publish", x), db' = Creation(x)
      PROVE  ~ Opposes(sending, d)' /\ db.dep[d] = "Started"
  <2>1. db'.dep[d] \in {db.dep[d], "Received"}
    BY <1>1, <1>2, CreationFacts DEF Gained, GainedRows
  <2>2. ~ Opposes(sending, d)'
    BY <1>2, EventFacts DEF Opposes
  <2> QED  BY <2>1, <2>2
<1>3. ASSUME NEW kind \in DOMAIN CommandStatus, NEW e \in Deployments,
             sending' = Event(kind, e),
             IF db.dep[e] # "none" THEN db' = SetDeployment(e, CommandStatus[kind])
                                   ELSE UNCHANGED db
      PROVE  ~ Opposes(sending, d)' /\ (db.dep[d] = "Started" \/ Starts(sending, d)')
  <2>1. kind \in {"start", "stop", "delete"} /\ (kind = "start" <=> CommandStatus[kind] = "Started")
    BY DEF CommandStatus
  <2>2. e # d => db'.dep[d] = db.dep[d]
    BY <1>1, <1>3 DEF SetDeployment, Tables
  <2>3. e = d => kind = "start"
    <3>1. e = d => db.dep[d] # "none"  BY <1>3
    <3>2. e = d => db'.dep[d] = CommandStatus[kind]
      BY <1>1, <1>3, <3>1 DEF SetDeployment, Tables
    <3> QED  BY <2>1, <3>2
  <2>4. ~ Opposes(sending, d)'
    <3>1. \A f : Event(kind, e) # Update(d, f)  BY <2>1, EventFacts
    <3>2. Event(kind, e) # Event("stop", d) /\ Event(kind, e) # Event("delete", d)
      BY <2>3, EventFacts
    <3> QED  BY <1>3, <3>1, <3>2 DEF Opposes
  <2> QED  BY <1>3, <2>2, <2>3, <2>4 DEF Starts
<1>4. ASSUME NEW from \in Deployments, NEW to \in Deployments,
             sending' = Update(from, to),
             IF db.dep[from] # "none" /\ db.dep[to] # "none"
             THEN db' = UpdateDeployments(from, to) ELSE UNCHANGED db
      PROVE  ~ Opposes(sending, d)' /\ (db.dep[d] = "Started" \/ Starts(sending, d)')
  <2>1. db'.dep[d] = db.dep[d] \/ d = to
    BY <1>1, <1>4 DEF UpdateDeployments, Tables
  <2>2. d = from /\ d # to => db'.dep[to] = "none"
    <3>1. d = from /\ d # to => db'.dep[d] = IF db.dep[d] = "Started" /\ db.dep[to] # "none"
                                             THEN "Stopped" ELSE db.dep[d]
      BY <1>1, <1>4 DEF UpdateDeployments, Tables
    <3> QED  BY <1>4, <3>1
  <2>3. ~ Opposes(sending, d)'
    <3> SUFFICES ASSUME Opposes(sending, d)'  PROVE FALSE
      OBVIOUS
    <3>1. Update(from, to) # Event("stop", d) /\ Update(from, to) # Event("delete", d)
      BY EventFacts
    <3>2. PICK f \in Deployments \ {d} : Update(from, to) = Update(d, f) /\ db'.dep[f] # "none"
      BY <1>4, <3>1 DEF Opposes
    <3>3. from = d /\ to = f  BY <3>2, EventFacts
    <3> QED  BY <2>2, <3>2, <3>3
  <2> QED  BY <1>4, <2>1, <2>3 DEF Starts
<1> QED  BY <1>2, <1>3, <1>4, RequestSends

(* Only a request makes a deployment started.                              *)
LEMMA BecomesStarted ==
  ASSUME Typed, Worked, [Next]_vars, NEW d \in Deployments,
         db.dep[d] # "Started", db'.dep[d] = "Started"
  PROVE  Requesting
<1>1. OpOK /\ db \in Tables  BY DEF Typed, TypeOK
<1>2. db' # db  OBVIOUS
<1>3. ASSUME NEW c, NEW status, db' = SetContainer(c, status)  PROVE FALSE
  BY <1>1, <1>3 DEF SetContainer, Tables
<1>4. ASSUME NEW r, NEW status, db' = SetResource(r, status)  PROVE FALSE
  BY <1>1, <1>4 DEF SetResource, Tables
<1>5. ASSUME Publish  PROVE FALSE
  <2>1. Subject \in Deployments /\ db' = SetDeployment(Subject, "Stopped")
    BY <1>2, <1>3, <1>4, <1>5 DEF Publish
  <2> QED  BY <1>1, <2>1 DEF SetDeployment, Tables
<1>6. ASSUME Drop  PROVE FALSE
  <2>1. Doing("drop") /\ db' = Deletion(Subject)
    BY <1>2, <1>6 DEF Drop, Deletion
  <2>2. Subject \in Objects  BY <1>1, <2>1, DoingFacts
  <2>3. PICK S : Lost(Subject, S)  BY <1>1, <2>1, <2>2, DeletionFacts
  <2>4. db'.dep[d] \in {"none", db.dep[d]}  BY <2>3 DEF Lost
  <2> QED  BY <2>4
<1>7. CASE Created \/ Started \/ Stopped \/ Start \/ Halt
  BY <1>2, <1>3, <1>4, <1>7
     DEF Created, Started, Stopped, Record, Start, Halt, MarkMissing, storeVars
<1>8. CASE ServiceStep
  BY <1>2, <1>5, <1>6, <1>7, <1>8
     DEF ServiceStep, TakeEvent, NextPhase, TakeLoaded, Fetch, Up, StopLook,
         RestartLook, Down, Look, Create, RemoveObject, Unset, Report, Finish, storeVars
<1> QED
  BY <1>2, <1>8
     DEF Requesting, Next, SendEvent, CallFails, ChangeOutside, Listen, Crash, Disconnected,
         Restart, Rest, vars, storeVars

(* What was asked for stays so, and a deployment that is gone stays away.  *)
LEMMA BornStay ==
  ASSUME StoreStep
  PROVE  unborn' \subseteq unborn
BY DEF StoreStep, Creating

LEMMA GoneStays ==
  ASSUME Typed, StoreStep, NEW d \in Deployments, d \notin unborn, db.dep[d] = "none"
  PROVE  db'.dep[d] = "none"
<1>1. db \in Tables  BY DEF Typed, TypeOK
<1>2. CASE Creating
  <2>1. PICK x \in unborn \cap Objects : db' = Creation(x)  BY <1>2 DEF Creating
  <2>2. GainedRows(x) /\ x # d  BY <1>1, <2>1, CreationFacts DEF Gained
  <2> QED  BY <2>2 DEF GainedRows
<1>3. CASE Setting  BY <1>1, <1>3, SettingFacts
<1>4. CASE Dropping
  <2>1. Subject \in Objects  BY <1>4, DoingFacts DEF Dropping, Drop, Typed
  <2>2. PICK S : Lost(Subject, S)
    BY <1>1, <1>4, <2>1, DeletionFacts DEF Dropping
  <2> QED  BY <2>2 DEF Lost
<1> QED  BY <1>2, <1>3, <1>4 DEF StoreStep

(* An event that is on its way does not come to oppose.                    *)
LEMMA OpposesStays ==
  ASSUME Typed, StoreStep, NEW d \in Deployments, NEW e, ToldOf(e, unborn), Opposes(e, d)'
  PROVE  Opposes(e, d)
<1>1. CASE e = Event("stop", d) \/ e = Event("delete", d)  BY <1>1 DEF Opposes
<1>2. ASSUME NEW f \in Deployments \ {d}, e = Update(d, f), db'.dep[f] # "none"
      PROVE  Opposes(e, d)
  <2>1. e \in Events /\ e.kind = "update" /\ e.to = f  BY <1>2, EventsAre, EventFacts
  <2>2. f \notin unborn  BY <2>1 DEF ToldOf
  <2>3. db.dep[f] # "none"  BY <1>2, <2>2, GoneStays
  <2> QED  BY <1>2, <2>3 DEF Opposes
<1> QED  BY <1>1, <1>2 DEF Opposes

(* Sequences.                                                              *)
LEMMA TailFacts ==
  ASSUME NEW S, NEW q \in Seq(S), q # <<>>
  PROVE  /\ Tail(q) \in Seq(S)
         /\ DOMAIN q = 1..Len(q) /\ Len(q) \in Nat /\ Head(q) = q[1] /\ 1 \in DOMAIN q
         /\ DOMAIN Tail(q) = 1..Len(q) - 1
         /\ \A n \in DOMAIN Tail(q) : n + 1 \in DOMAIN q /\ Tail(q)[n] = q[n + 1]
<1>1. /\ Head(q) = q[1] /\ Tail(q) \in Seq(S) /\ Len(Tail(q)) = Len(q) - 1
      /\ \A k \in 1..Len(q) - 1 : Tail(q)[k] = q[k + 1]
  BY HeadTailProperties
<1>2. DOMAIN q = 1..Len(q) /\ Len(q) \in Nat /\ Len(q) # 0
  BY LenProperties, EmptySeq
<1>3. DOMAIN Tail(q) = 1..Len(Tail(q))  BY <1>1, LenProperties
<1> QED  BY <1>1, <1>2, <1>3

LEMMA AppendIs ==
  ASSUME NEW S, NEW q \in Seq(S), NEW e \in S
  PROVE  /\ DOMAIN q = 1..Len(q) /\ Len(q) \in Nat
         /\ DOMAIN Append(q, e) = 1..Len(q) + 1
         /\ \A n \in DOMAIN q : Append(q, e)[n] = q[n]
         /\ Append(q, e)[Len(q) + 1] = e
<1>1. /\ Append(q, e) \in Seq(S) /\ Len(Append(q, e)) = Len(q) + 1
      /\ \A n \in 1..Len(q) : Append(q, e)[n] = q[n]
      /\ Append(q, e)[Len(q) + 1] = e
  BY AppendProperties
<1>2. /\ DOMAIN q = 1..Len(q) /\ Len(q) \in Nat
      /\ DOMAIN Append(q, e) = 1..Len(Append(q, e))
  BY <1>1, LenProperties
<1> QED  BY <1>1, <1>2

(* An update names deployments that the server has asked to create.        *)
LEMMA UpdatesBornNext ==
  ASSUME Typed, StoreStep, UpdatesBorn, [Next]_vars
  PROVE  UpdatesBorn'
<1>1. queue \in Seq(Events)  BY DEF Typed, TypeOK
<1>2. ASSUME NEW e, ToldOf(e, unborn)  PROVE ToldOf(e, unborn')
  BY <1>2, BornStay DEF ToldOf
<1>3. ASSUME NEW e, ~ (e \in Events /\ e.kind = "update")
      PROVE  ToldOf(e, unborn) /\ ToldOf(e, unborn')
  BY <1>3 DEF ToldOf
<1>4. ToldOf(None, unborn) /\ ToldOf(None, unborn')  BY <1>3, NoneAssumption
<1>5. \A n \in DOMAIN queue : ToldOf(queue[n], unborn')
  BY <1>2 DEF UpdatesBorn
<1>6. CASE UNCHANGED <<sending, queue>>
  BY <1>2, <1>6 DEF UpdatesBorn, ToldOf
<1>7. CASE Requesting /\ UNCHANGED queue
  <2>1. ToldOf(sending', unborn')
    <3>1. ASSUME NEW e, NEW p, NEW t, Persist(e, p, t)  PROVE sending' = e
      BY <3>1 DEF Persist
    <3>2. CASE \E x \in Objects : ReceiveCreation(x)
      <4>1. PICK x \in Objects : sending' = Event("publish", x)
        BY <3>1, <3>2 DEF ReceiveCreation
      <4> QED  BY <4>1, EventFacts DEF ToldOf
    <3>3. CASE \E kind \in DOMAIN CommandStatus, d \in Deployments : ReceiveCommand(kind, d)
      <4>1. PICK kind \in DOMAIN CommandStatus, d \in Deployments : sending' = Event(kind, d)
        BY <3>1, <3>3 DEF ReceiveCommand
      <4>2. kind # "update"  BY DEF CommandStatus
      <4> QED  BY <4>1, <4>2, EventFacts DEF ToldOf
    <3>4. CASE \E from, to \in Deployments : ReceiveUpdate(from, to)
      <4>1. PICK from \in Deployments, to \in Deployments :
              sending' = Update(from, to) /\ to \notin unborn'
        BY <3>1, <3>4 DEF ReceiveUpdate
      <4> QED  BY <4>1, EventFacts DEF ToldOf
    <3> QED  BY <1>7, <3>2, <3>3, <3>4 DEF Requesting
  <2> QED  BY <1>5, <1>7, <2>1 DEF UpdatesBorn
<1>8. ASSUME NEW e, Queues(e), ToldOf(e, unborn'), ToldOf(sending', unborn')  PROVE UpdatesBorn'
  <2>1. \A n \in DOMAIN queue' :
        (n \in DOMAIN queue /\ queue'[n] = queue[n]) \/ queue'[n] = e
    BY <1>1, <1>8, AppendIs DEF Queues
  <2> QED  BY <1>5, <1>8, <2>1 DEF UpdatesBorn
<1>9. CASE Queues(sending) /\ sending' = None
  <2>1. PICK e : e = sending  OBVIOUS
  <2>2. ToldOf(e, unborn')  BY <1>2, <2>1 DEF UpdatesBorn
  <2> QED  BY <1>4, <1>8, <1>9, <2>1, <2>2
<1>10. ASSUME UNCHANGED sending, NEW c \in Containers, Queues(Event("refresh", c))
       PROVE  UpdatesBorn'
  <2>1. ToldOf(Event("refresh", c), unborn')  BY <1>3, EventFacts
  <2>2. ToldOf(sending', unborn')  BY <1>2, <1>10 DEF UpdatesBorn, ToldOf
  <2> QED  BY <1>8, <1>10, <2>1, <2>2
<1>11. CASE TakeEvent
  <2>1. queue # <<>> /\ queue' = Tail(queue) /\ sending' = sending
    BY <1>11 DEF TakeEvent
  <2>2. \A n \in DOMAIN queue' : n + 1 \in DOMAIN queue /\ queue'[n] = queue[n + 1]
    BY <1>1, <2>1, TailFacts
  <2>3. ToldOf(sending', unborn')  BY <1>2, <2>1 DEF UpdatesBorn, ToldOf
  <2> QED  BY <1>5, <2>2, <2>3 DEF UpdatesBorn
<1>12. CASE sending' = None /\ queue' = <<>>
  <2>1. DOMAIN queue' = {}  BY <1>12
  <2> QED  BY <1>4, <1>12, <2>1 DEF UpdatesBorn
<1> QED
  BY <1>6, <1>7, <1>9, <1>10, <1>11, <1>12, Messages

(* A request that stops or deletes what is started is answered by one that *)
(* starts it, and that comes later.                                        *)
LEMMA AnsweredFrom ==
  ASSUME NEW d, NEW s, NEW q, sending' = s, queue' = q, ~ Opposes(s, d)',
         \A n \in DOMAIN q : Opposes(q[n], d)' =>
           Starts(s, d) \/ \E m \in DOMAIN q : m > n /\ Starts(q[m], d)
  PROVE  Answered(d)'
BY DEF Answered, Opposes, Starts

LEMMA AnsweredNext ==
  ASSUME Typed, Worked, StoreStep, UpdatesBorn, [Next]_vars, faults' = 0,
         NEW d \in Deployments, db'.dep[d] = "Started",
         db.dep[d] = "Started" => Answered(d)
  PROVE  Answered(d)'
<1>1. PICK s : s = sending  OBVIOUS
<1>2. PICK q : q = queue  OBVIOUS
<1>3. q \in Seq(Events) /\ s \in Events \cup {None}
  BY <1>1, <1>2 DEF Typed, TypeOK
<1>4. ~ Requesting => Answered(d)  BY BecomesStarted
<1>5. ASSUME Answered(d)
      PROVE  /\ ~ Opposes(s, d)'
             /\ \A n \in DOMAIN q : Opposes(q[n], d)' =>
                  Starts(s, d) \/ \E m \in DOMAIN q : m > n /\ Starts(q[m], d)
  <2>1. ToldOf(s, unborn) /\ \A n \in DOMAIN q : ToldOf(q[n], unborn)
    BY <1>1, <1>2 DEF UpdatesBorn
  <2>2. ~ Opposes(s, d)  BY <1>1, <1>5 DEF Answered
  <2>3. ~ Opposes(s, d)'  BY <2>1, <2>2, OpposesStays
  <2>4. ASSUME NEW n \in DOMAIN q, Opposes(q[n], d)'
        PROVE  Starts(s, d) \/ \E m \in DOMAIN q : m > n /\ Starts(q[m], d)
    <3>1. PICK e : e = q[n]  OBVIOUS
    <3>2. Opposes(e, d)'  BY <2>4, <3>1
    <3>3. Opposes(e, d)  BY <2>1, <3>1, <3>2, OpposesStays
    <3> QED  BY <1>1, <1>2, <1>5, <3>1, <3>3 DEF Answered
  <2> QED  BY <2>3, <2>4
<1>6. ~ Starts(None, d) /\ ~ Opposes(None, d)'  BY NoCommand
<1>7. CASE UNCHANGED <<sending, queue>> /\ ~ Requesting
  <2>1. sending' = s /\ queue' = q  BY <1>1, <1>2, <1>7
  <2> QED  BY <1>4, <1>5, <1>7, <2>1, AnsweredFrom
<1>8. CASE Requesting
  <2>1. sending = None /\ queue' = q
    <3>1. ASSUME NEW e, NEW p, NEW t, Persist(e, p, t)  PROVE sending = None /\ queue' = queue
      BY <3>1 DEF Persist
    <3> QED
      BY <1>2, <1>8, <3>1 DEF Requesting, ReceiveCreation, ReceiveCommand, ReceiveUpdate
  <2>2. PICK e : e = sending'  OBVIOUS
  <2>3. ~ Opposes(e, d)'
    <3>1. ~ Opposes(sending, d)'  BY <1>8, RequestAsks
    <3> QED  BY <2>2, <3>1 DEF Opposes
  <2>4. db.dep[d] = "Started" \/ Starts(e, d)
    <3>1. db.dep[d] = "Started" \/ Starts(sending, d)'  BY <1>8, RequestAsks
    <3> QED  BY <2>2, <3>1 DEF Starts
  <2>5. \A n \in DOMAIN q : Opposes(q[n], d)' =>
           Starts(e, d) \/ \E m \in DOMAIN q : m > n /\ Starts(q[m], d)
    BY <1>1, <1>5, <1>6, <2>1, <2>4
  <2> QED  BY <2>1, <2>2, <2>3, <2>5, AnsweredFrom
<1>9. ASSUME Answered(d), NEW e \in Events, NEW t, queue' = Append(q, e), sending' = t,
             ~ Opposes(e, d)', ~ Opposes(t, d)', Starts(s, d) => Starts(e, d) \/ Starts(t, d)
      PROVE  Answered(d)'
  <2> DEFINE r == Append(q, e)
  <2>1. /\ DOMAIN q = 1..Len(q) /\ Len(q) \in Nat
        /\ DOMAIN r = 1..Len(q) + 1 /\ \A n \in DOMAIN q : r[n] = q[n]
        /\ r[Len(q) + 1] = e
    BY <1>3, AppendIs
  <2> HIDE DEF r
  <2>2. ASSUME NEW n \in DOMAIN r, Opposes(r[n], d)'
        PROVE  Starts(t, d) \/ \E m \in DOMAIN r : m > n /\ Starts(r[m], d)
    <3>1. n \in DOMAIN q
      <4>1. n # Len(q) + 1
        <5> SUFFICES ASSUME n = Len(q) + 1  PROVE FALSE
          OBVIOUS
        <5>1. r[n] = e  BY <2>1
        <5> QED  BY <1>9, <2>2, <5>1
      <4> QED  BY <2>1, <4>1
    <3>2. r[n] = q[n]  BY <2>1, <3>1
    <3>3. Starts(s, d) \/ \E m \in DOMAIN q : m > n /\ Starts(q[m], d)
      BY <1>5, <1>9, <2>2, <3>1, <3>2
    <3>4. CASE Starts(s, d)
      <4>1. Len(q) + 1 \in DOMAIN r /\ Len(q) + 1 > n  BY <2>1, <3>1
      <4> QED  BY <1>9, <2>1, <3>4, <4>1
    <3>5. ASSUME NEW m \in DOMAIN q, m > n, Starts(q[m], d)
          PROVE  m \in DOMAIN r /\ m > n /\ Starts(r[m], d)
      <4>1. m \in DOMAIN r /\ r[m] = q[m]  BY <2>1
      <4> QED  BY <3>5, <4>1
    <3> QED  BY <3>3, <3>4, <3>5
  <2>3. queue' = r  BY <1>9 DEF r
  <2> QED  BY <1>9, <2>2, <2>3, AnsweredFrom
<1>10. CASE Queues(sending) /\ sending' = None /\ UNCHANGED db /\ ~ Requesting
  <2>1. s \in Events /\ queue' = Append(q, s)  BY <1>1, <1>2, <1>10 DEF Queues
  <2>2. ~ Opposes(s, d)'  BY <1>4, <1>5, <1>10
  <2> QED  BY <1>4, <1>6, <1>9, <1>10, <2>1, <2>2
<1>11. ASSUME UNCHANGED sending, NEW c \in Containers, Queues(Event("refresh", c)),
              ~ Requesting
       PROVE  Answered(d)'
  <2>1. PICK e : e = Event("refresh", c)  OBVIOUS
  <2>2. e \in Events /\ queue' = Append(q, e) /\ sending' = s
    BY <1>1, <1>2, <1>11, <2>1 DEF Queues
  <2>3. ~ Opposes(e, d)'  BY <2>1, NoCommand
  <2>4. ~ Opposes(s, d)'  BY <1>4, <1>5, <1>11
  <2> QED  BY <1>4, <1>9, <1>11, <2>2, <2>3, <2>4
<1>12. CASE TakeEvent /\ ~ Requesting
  <2> DEFINE r == Tail(q)
  <2>1. q # <<>> /\ queue' = r /\ sending' = s
    BY <1>1, <1>2, <1>12 DEF TakeEvent
  <2>2. /\ DOMAIN q = 1..Len(q) /\ Len(q) \in Nat /\ DOMAIN r = 1..Len(q) - 1
        /\ \A n \in DOMAIN r : n + 1 \in DOMAIN q /\ r[n] = q[n + 1]
    BY <1>3, <2>1, TailFacts
  <2> HIDE DEF r
  <2>3. ASSUME NEW n \in DOMAIN r, Opposes(r[n], d)'
        PROVE  Starts(s, d) \/ \E m \in DOMAIN r : m > n /\ Starts(r[m], d)
    <3>1. PICK k \in DOMAIN q : k = n + 1 /\ r[n] = q[k]  BY <2>2
    <3>2. Starts(s, d) \/ \E m \in DOMAIN q : m > k /\ Starts(q[m], d)
      BY <1>4, <1>5, <1>12, <2>3, <3>1
    <3>3. ASSUME NEW m \in DOMAIN q, m > k, Starts(q[m], d)
          PROVE  m - 1 \in DOMAIN r /\ m - 1 > n /\ Starts(r[m - 1], d)
      <4>1. m - 1 \in DOMAIN r /\ m - 1 > n  BY <2>2, <3>1, <3>3
      <4>2. r[m - 1] = q[m]  BY <2>2, <4>1
      <4> QED  BY <3>3, <4>1, <4>2
    <3> QED  BY <3>2, <3>3
  <2>4. ~ Opposes(s, d)'  BY <1>4, <1>5, <1>12
  <2> QED  BY <2>1, <2>3, <2>4, AnsweredFrom
<1>13. CASE sending' = None /\ queue' = <<>> /\ ~ Requesting
  <2>1. \A n \in DOMAIN <<>> : FALSE  OBVIOUS
  <2>2. PICK r : r = <<>>  OBVIOUS
  <2>3. queue' = r /\ \A n \in DOMAIN r : FALSE  BY <1>13, <2>1, <2>2
  <2> QED  BY <1>6, <1>13, <2>3, AnsweredFrom
<1> QED
  BY <1>7, <1>8, <1>10, <1>11, <1>12, <1>13, Messages

(* An event that starts the deployment stays on its way until it is taken. *)
LEMMA AskedStays ==
  ASSUME Typed, [Next]_vars, ~ TakeEvent, phase' # "boot", NEW d \in Deployments, Asked(d)
  PROVE  Asked(d)'
<1>1. PICK s : s = sending  OBVIOUS
<1>2. PICK q : q = queue  OBVIOUS
<1>3. q \in Seq(Events)  BY <1>2 DEF Typed, TypeOK
<1>4. ~ Starts(None, d)  BY NoCommand
<1>5. Starts(s, d) \/ \E n \in DOMAIN q : Starts(q[n], d)  BY <1>1, <1>2 DEF Asked
<1>6. ASSUME NEW t, NEW r, sending' = t, queue' = r,
             Starts(t, d) \/ \E n \in DOMAIN r : Starts(r[n], d)
      PROVE  Asked(d)'
  BY <1>6 DEF Asked, Starts
<1>7. CASE UNCHANGED <<sending, queue>>
  BY <1>1, <1>2, <1>5, <1>6, <1>7
<1>8. CASE sending = None /\ UNCHANGED queue
  <2>1. \E n \in DOMAIN q : Starts(q[n], d)  BY <1>1, <1>4, <1>5, <1>8
  <2>2. PICK t : t = sending'  OBVIOUS
  <2> QED  BY <1>2, <1>6, <1>8, <2>1, <2>2
<1>9. ASSUME NEW e \in Events, NEW t, queue' = Append(q, e), sending' = t,
             Starts(s, d) => Starts(e, d) \/ Starts(t, d)
      PROVE  Asked(d)'
  <2> DEFINE r == Append(q, e)
  <2>1. /\ DOMAIN q = 1..Len(q) /\ Len(q) \in Nat
        /\ DOMAIN r = 1..Len(q) + 1 /\ \A n \in DOMAIN q : r[n] = q[n]
        /\ r[Len(q) + 1] = e
    BY <1>3, AppendIs
  <2>2. queue' = r  BY <1>9
  <2> HIDE DEF r
  <2>3. Starts(t, d) \/ \E n \in DOMAIN r : Starts(r[n], d)
    <3>1. CASE Starts(s, d)
      <4>1. Len(q) + 1 \in DOMAIN r  BY <2>1
      <4> QED  BY <1>9, <2>1, <3>1, <4>1
    <3>2. ASSUME NEW n \in DOMAIN q, Starts(q[n], d)
          PROVE  n \in DOMAIN r /\ Starts(r[n], d)
      <4>1. n \in DOMAIN r /\ r[n] = q[n]  BY <2>1
      <4> QED  BY <3>2, <4>1
    <3> QED  BY <1>5, <3>1, <3>2
  <2> QED  BY <1>6, <1>9, <2>2, <2>3
<1>10. CASE Queues(sending) /\ sending' = None
  BY <1>1, <1>2, <1>9, <1>10 DEF Queues
<1>11. ASSUME UNCHANGED sending, NEW e, Queues(e)  PROVE Asked(d)'
  BY <1>1, <1>2, <1>9, <1>11 DEF Queues
<1> QED
  BY <1>7, <1>8, <1>10, <1>11, Messages

LEMMA AskedTaken ==
  ASSUME Typed, TakeEvent, NEW d \in Deployments
  PROVE  /\ Asked(d) => Starts(Head(queue), d) \/ Asked(d)'
         /\ Answered(d) /\ Opposes(Head(queue), d) => Asked(d)'
<1>1. PICK s : s = sending  OBVIOUS
<1>2. PICK q : q = queue  OBVIOUS
<1>3. q \in Seq(Events)  BY <1>2 DEF Typed, TypeOK
<1> DEFINE r == Tail(q)
<1>4. q # <<>> /\ queue' = r /\ sending' = s
  BY <1>1, <1>2 DEF TakeEvent
<1>5. /\ DOMAIN q = 1..Len(q) /\ Len(q) \in Nat /\ DOMAIN r = 1..Len(q) - 1
      /\ Head(q) = q[1] /\ 1 \in DOMAIN q
      /\ \A n \in DOMAIN r : n + 1 \in DOMAIN q /\ r[n] = q[n + 1]
  BY <1>3, <1>4, TailFacts
<1> HIDE DEF r
<1>6. ASSUME Starts(s, d) \/ \E n \in DOMAIN r : Starts(r[n], d)  PROVE Asked(d)'
  BY <1>4, <1>6 DEF Asked, Starts
<1>7. ASSUME NEW n \in DOMAIN q, n # 1, Starts(q[n], d)  PROVE Asked(d)'
  <2>1. n - 1 \in DOMAIN r  BY <1>5, <1>7
  <2>2. r[n - 1] = q[n]  BY <1>5, <2>1
  <2> QED  BY <1>6, <1>7, <2>1, <2>2
<1>8. ASSUME Asked(d)  PROVE Starts(Head(q), d) \/ Asked(d)'
  <2>1. Starts(s, d) \/ \E n \in DOMAIN q : Starts(q[n], d)  BY <1>1, <1>2, <1>8 DEF Asked
  <2> QED  BY <1>5, <1>6, <1>7, <2>1
<1>9. ASSUME Answered(d), Opposes(Head(q), d)  PROVE Asked(d)'
  <2>1. Opposes(q[1], d)  BY <1>5, <1>9
  <2>2. Starts(s, d) \/ \E m \in DOMAIN q : m > 1 /\ Starts(q[m], d)
    BY <1>1, <1>2, <1>5, <1>9, <2>1 DEF Answered
  <2> QED  BY <1>5, <1>6, <1>7, <2>2
<1> QED  BY <1>2, <1>8, <1>9

-----------------------------------------------------------------------------
(* The containers of a deployment that is started.                         *)

(* The store learns of no image that was there all along.                  *)
LEMMA LinksGain ==
  ASSUME Typed, Filed, StoreInv, KnownBorn, StoreStep,
         NEW c \in Containers, IsStored(c), Needs[c] \cap Images \subseteq Known
  PROVE  db'.links[c] \cap Images \subseteq db.links[c]
<1>1. db \in Tables  BY DEF Typed, TypeOK
<1>2. db.missing[c] \subseteq Needs[c]  BY DEF StoreInv, LinksOK
<1>3. ASSUME NEW x \in unborn \cap Objects, db' = Creation(x)
      PROVE  db'.links[c] \cap Images \subseteq db.links[c]
  <2>1. x \notin Known  BY <1>3 DEF KnownBorn
  <2>2. CASE x \in Resources
    <3>1. db' = CreateResource(x)  BY <1>3, <2>2 DEF Creation
    <3>2. db'.links[c] = db.links[c] \cup (db.missing[c] \cap {x})
      BY <1>1, <3>1 DEF CreateResource, Tables
    <3> QED  BY <1>2, <2>1, <3>2
  <2>3. CASE x \in Containers /\ x \notin Resources
    <3>1. db' = CreateContainer(x)  BY <1>3, <2>3 DEF Creation
    <3>2. ~ IsStored(x)
      BY <1>3, <2>3, ObjectKinds DEF Filed, Born, HasRow
    <3>3. x # c  BY <3>2
    <3>4. db'.links[c] = db.links[c]
      BY <1>1, <3>1, <3>2, <3>3 DEF CreateContainer, Tables
    <3> QED  BY <3>4
  <2>4. CASE x \notin Containers /\ x \notin Resources
    <3>1. db' = CreateDeployment(x)  BY <1>3, <2>4 DEF Creation
    <3>2. db'.links = db.links  BY <1>1, <3>1 DEF CreateDeployment, Tables
    <3> QED  BY <3>2
  <2> QED  BY <2>2, <2>3, <2>4
<1>4. CASE Dropping
  <2>1. db' = Deletion(Subject)  BY <1>4 DEF Dropping
  <2>2. ASSUME NEW S  PROVE WithoutContainers(S).links[c] \subseteq db.links[c]
    BY <1>1 DEF WithoutContainers, Tables
  <2>3. ASSUME NEW d, db' = DeleteDeployment(d)  PROVE db'.links[c] = db.links[c]
    BY <1>1, <2>3 DEF DeleteDeployment, Tables
  <2>4. ASSUME NEW r, db' = DeleteResource(r)  PROVE db'.links[c] \subseteq db.links[c]
    <3> DEFINE S == {b \in Containers : r \in db.links[b]}
               t == WithoutContainers(S)
    <3>1. t.links[c] \subseteq db.links[c]  BY <2>2
    <3>2. r \in Images => db' = [t EXCEPT !.res[r] = "none"]
      BY <2>4 DEF DeleteResource
    <3>3. t \in Tables  BY <1>1, WithoutType
    <3> HIDE DEF t
    <3>4. r \in Images => db'.links = t.links  BY <3>2, <3>3 DEF Tables
    <3>5. r \notin Images => db'.links[c] \subseteq db.links[c]
      BY <1>1, <2>4 DEF DeleteResource, Tables
    <3> QED  BY <3>1, <3>4, <3>5
  <2> QED  BY <2>1, <2>2, <2>3, <2>4 DEF Deletion, DeleteContainer
<1>5. CASE Setting  BY <1>1, <1>5, SettingFacts
<1> QED  BY <1>3, <1>4, <1>5 DEF StoreStep, Creating

(* A deployment that misses nothing gains no container.                    *)
LEMMA MineStays ==
  ASSUME Typed, Filed, StoreInv, KnownBorn, StoreStep,
         NEW d \in Deployments, d \notin unborn, db.lacks[d] = {}
  PROVE  Mine(d)' \subseteq Mine(d)
<1> SUFFICES ASSUME NEW c \in Mine(d)'  PROVE c \in Mine(d)
  OBVIOUS
<1>1. /\ c \in db'.rows[d] /\ db'.links[c] \cap Images # {}
      /\ Needs[c] \cap Images \subseteq Known
      /\ \A e \in Deployments \ {d} : c \notin Named(e)
  BY DEF Mine, Joined
<1>2. db.rows[d] \subseteq Containers  BY DEF Typed, TypeOK, Tables
<1>3. c \in db.rows[d]  BY <1>1, RowsStay
<1>4. c \in Containers /\ IsStored(c)  BY <1>2, <1>3 DEF Filed, RowsStored
<1>5. db'.links[c] \cap Images \subseteq db.links[c]  BY <1>1, <1>4, LinksGain
<1> QED  BY <1>1, <1>3, <1>5 DEF Mine, Joined

(* The service stops no container of a deployment that it does not stop.   *)
LEMMA NotStopped ==
  ASSUME Typed, Worked, UpdateOK, StopsOwn, [Next]_vars, outside' = 0,
         NEW d \in Deployments, ~ StopsNow(d), NEW c \in Mine(d), docker[c] = "running"
  PROVE  docker'[c] = "running"
<1> SUFFICES ASSUME docker'[c] # "running"  PROVE FALSE
  OBVIOUS
<1>1. OpOK /\ Fits /\ outside \in Nat /\ db.rows[d] \subseteq Containers
  BY DEF Typed, TypeOK, Tables, Worked
<1>2. c \in db.rows[d] /\ \A e \in Deployments \ {d} : c \notin Named(e)
  BY DEF Mine, Joined
<1>3. c \in Containers  BY <1>1, <1>2
<1>4. Doing("halt") /\ Subject = c
  <2>1. outside' # outside + 1  BY <1>1
  <2> QED  BY <1>3, <2>1, StopsRunning
<1>5. Head(todo) \in Members(todo) /\ Head(todo).do = "halt" /\ Head(todo).x = c
  BY <1>1, <1>4, DoingFacts DEF Subject
<1>6. op.x = d  BY <1>2, <1>3, <1>5 DEF StopsOwn
<1>7. op.kind \in {"stop", "delete", "update"}
  <2>1. op.kind \in Kinds /\ "halt" \in Does[op.kind]  BY <1>1, <1>4, DoesFacts
  <2> QED  BY <2>1 DEF Kinds, Does, StopDos, StartDos
<1>8. op.kind = "update" /\ op.to = d  BY <1>6, <1>7 DEF StopsNow
<1> QED  BY <1>2, <1>5, <1>8 DEF UpdateOK

(* What runs, or is about to, goes on, whatever is done for others.        *)
LEMMA RunningStays ==
  ASSUME Typed, Worked, Filed, StoreInv, UpdateOK, StopsOwn, KnownBorn, StoreStep,
         [Next]_vars, outside' = 0, NEW d \in Deployments, d \notin unborn, Running(d),
         ~ StopsNow(d)',
         \A c \in Containers :
           /\ StartsNow(d) /\ docker'[c] # "running"
           /\ Step("up", c) \in Members(todo) \/ Step("start", c) \in Members(todo)
           => /\ StartsNow(d)'
              /\ Step("up", c) \in Members(todo') \/ Step("start", c) \in Members(todo')
  PROVE  Running(d)'
<1>1. db'.lacks[d] = {}  BY RowsStay DEF Running
<1>2. Mine(d)' \subseteq Mine(d)  BY MineStays DEF Running
<1>3. ASSUME NEW c \in Mine(d)  PROVE Runs(c, d)'
  <2>1. c \in Containers
    BY DEF Typed, TypeOK, Tables, Mine, Joined
  <2>2. Runs(c, d)  BY DEF Running
  <2>3. docker[c] = "running" => docker'[c] = "running"
    BY NotStopped DEF Running
  <2> QED  BY <2>1, <2>2, <2>3 DEF Runs, Members
<1>4. \A c \in Mine(d)' : Runs(c, d)'
  <2> SUFFICES ASSUME NEW c \in Mine(d)'  PROVE Runs(c, d)'
    OBVIOUS
  <2> QED  BY <1>2, <1>3
<1> QED  BY <1>1, <1>4 DEF Running

-----------------------------------------------------------------------------
(* Where a deployment is that the store says is started.                   *)

(* An event is what its kind and its deployments say.                      *)
LEMMA EventIs ==
  ASSUME NEW e \in Events, NEW d \in Deployments
  PROVE  /\ \A kind \in {"start", "stop", "delete"} :
              e.kind = kind /\ e.x = d => e = Event(kind, d)
         /\ e.kind = "update" => e = Update(e.x, e.to) /\ {e.x, e.to} \subseteq Deployments
<1>1. CASE e \in Creations \cup Refreshes
  <2>1. PICK k \in {"publish", "refresh"} : \E x : e = Event(k, x)
    BY <1>1 DEF Creations, Refreshes
  <2>2. e.kind = k  BY <2>1 DEF Event
  <2> QED  BY <2>2
<1>2. CASE e \in Commands
  <2>1. ASSUME NEW k \in {"start", "stop", "delete"}, NEW f \in Deployments, e = Event(k, f)
        PROVE  e.kind = k /\ e.x = f
    BY <2>1 DEF Event
  <2>2. ASSUME NEW f \in Deployments, NEW g \in Deployments, e = Update(f, g)
        PROVE  e.kind = "update" /\ e.x = f /\ e.to = g
    BY <2>2 DEF Update
  <2>3. CASE \E k \in {"start", "stop", "delete"}, f \in Deployments : e = Event(k, f)
    BY <2>1, <2>3
  <2>4. CASE \E f, g \in Deployments : e = Update(f, g)
    BY <2>2, <2>4
  <2> QED  BY <1>2, <2>3, <2>4 DEF Commands
<1> QED  BY <1>1, <1>2 DEF Events

(* When the service begins, the deployment is started or refused.          *)
LEMMA StartPlaces ==
  ASSUME Typed, StoreInv, op = Idle, NEW d \in Deployments, BeginStart(d), UNCHANGED db
  PROVE  Refused(d)' \/ Running(d)'
<1>1. db \in Tables /\ RowsOK  BY DEF Typed, TypeOK, StoreInv
<1>2. CASE IsComplete(d)
  <2>1. op' = Operation("start", d) /\ todo' = StartSteps(d)
    BY <1>2 DEF BeginStart, Begin
  <2>2. op'.kind = "start" /\ op'.x = d  BY <2>1, OperationParts
  <2>3. db'.lacks[d] = {}  BY <1>2 DEF IsComplete
  <2>4. \A c \in Mine(d)' : c \in Joined(d)  BY DEF Mine, Joined
  <2>5. \A c \in Joined(d) : Step("up", c) \in Members(todo')
    BY <1>1, <2>1, StartsAll
  <2>6. \A c \in Mine(d)' : Runs(c, d)'
    BY <2>2, <2>4, <2>5 DEF Runs, StartsNow, Members
  <2> QED  BY <2>2, <2>3, <2>6 DEF Running, StopsNow
<1>3. CASE ~ IsComplete(d)
  <2>1. d \in errors' /\ op' = Idle  BY <1>3 DEF BeginStart, NotFound
  <2> QED  BY <2>1, IdleFacts DEF Refused, StartsNow
<1> QED  BY <1>2, <1>3

LEMMA UpdatePlaces ==
  ASSUME Typed, StoreInv, op = Idle, NEW f \in Deployments, NEW d \in Deployments,
         BeginUpdate(f, d), UNCHANGED db
  PROVE  Refused(d)' \/ Running(d)'
<1>1. db \in Tables /\ RowsOK  BY DEF Typed, TypeOK, StoreInv
<1>2. CASE /\ op'.kind = "update" /\ op'.x = f /\ op'.to = d /\ IsComplete(d)
           /\ \A c \in Joined(d) : Step("up", c) \in Members(todo')
  <2>1. db'.lacks[d] = {}  BY <1>2 DEF IsComplete
  <2>2. \A c \in Mine(d)' : c \in Joined(d)  BY DEF Mine, Joined
  <2>3. \A c \in Mine(d)' : Runs(c, d)'
    BY <1>2, <2>2 DEF Runs, StartsNow, Members
  <2> QED  BY <1>2, <2>1, <2>3 DEF Running, StopsNow
<1>3. CASE NotFound({f, d})
  <2>1. d \in errors' /\ op' = Idle  BY <1>3 DEF NotFound
  <2> QED  BY <2>1, IdleFacts DEF Refused, StartsNow
<1> QED  BY <1>1, <1>2, <1>3, UpdateStarts

(* Neither the start nor the stop of the deployment.                       *)
Elsewhere(d) ==
    /\ op = Idle /\ UNCHANGED <<db, docker>> /\ errors \subseteq errors'
    /\ ~ StartsNow(d)' /\ ~ StopsNow(d)'

LEMMA ElsewhereStays ==
  ASSUME NEW d \in Deployments, Elsewhere(d), Refused(d) \/ Running(d)
  PROVE  Refused(d)' \/ Running(d)'
<1>1. ~ StartsNow(d)  BY IdleFacts DEF Elsewhere, StartsNow
<1>2. CASE Refused(d)  BY <1>2 DEF Refused, Elsewhere
<1>3. CASE Running(d)
  <2>1. \A c \in Mine(d)' : docker'[c] = "running"
    BY <1>1, <1>3 DEF Mine, Joined, Running, Runs, Elsewhere
  <2> QED  BY <1>3, <2>1 DEF Running, Runs, Elsewhere
<1> QED  BY <1>2, <1>3

(* What the service takes on when it begins.                               *)
LEMMA TakenFor ==
  ASSUME Typed, NEW e \in Events, BeginEvent(e), op = Idle
  PROVE  /\ errors \subseteq errors'
         /\ \/ op' = Idle
            \/ /\ op'.kind = e.kind /\ op'.x = e.x
               /\ e.kind = "update" => op'.to = e.to /\ db.dep[e.to] # "none"
<1>1. db \in Tables  BY DEF Typed, TypeOK
<1>2. ASSUME NEW D, NotFound(D)  PROVE op' = Idle /\ errors \subseteq errors'
  BY <1>2 DEF NotFound
<1>3. CASE e.kind = "publish" /\ e.x \in Objects /\ BeginPublish(e.x)
  BY <1>3, PublishBegins
<1>4. CASE e.kind = "refresh" /\ e.x \in Containers /\ BeginRefresh(e.x)
  BY <1>4, RefreshBegins
<1>5. CASE e.kind = "start" /\ e.x \in Deployments /\ BeginStart(e.x)
  BY <1>1, <1>2, <1>5, StartBegins
<1>6. CASE e.kind = "stop" /\ e.x \in Deployments /\ BeginStop(e.x)
  BY <1>1, <1>2, <1>6, StopBegins
<1>7. CASE e.kind = "delete" /\ e.x \in Deployments /\ BeginDelete(e.x)
  BY <1>1, <1>2, <1>7, DeleteBegins
<1>8. CASE /\ e.kind = "update" /\ e.x \in Deployments /\ e.to \in Deployments
           /\ BeginUpdate(e.x, e.to)
  BY <1>1, <1>2, <1>8, UpdateBegins DEF IsComplete
<1> QED  BY <1>3, <1>4, <1>5, <1>6, <1>7, <1>8, EventBegins

(* An event that neither starts nor opposes it is about something else.    *)
LEMMA TakenElsewhere ==
  ASSUME Typed, TakeEvent, NEW d \in Deployments, NEW e, e = Head(queue),
         ~ Starts(e, d), ~ Opposes(e, d)
  PROVE  Elsewhere(d)
<1>1. queue \in Seq(Events) /\ queue # <<>> /\ op = Idle /\ UNCHANGED <<db, docker>>
  BY DEF Typed, TypeOK, TakeEvent, storeVars, dockerVars
<1>2. e \in Events /\ BeginEvent(e)
  BY <1>1 DEF TakeEvent
<1>3. /\ ~ (e.kind = "start" /\ e.x = d) /\ ~ (e.kind = "stop" /\ e.x = d)
      /\ ~ (e.kind = "delete" /\ e.x = d)
      /\ e.kind = "update" => e.to # d
      /\ e.kind = "update" /\ e.x = d => db.dep[e.to] = "none"
  <2>1. e.kind = "update" => e = Update(e.x, e.to) /\ e.x \in Deployments /\ e.to \in Deployments
    BY <1>2, EventIs
  <2>2. e.kind = "update" => e.to # d  BY <2>1 DEF Starts
  <2>3. e.kind = "update" /\ e.x = d => db.dep[e.to] = "none"
    BY <2>1, <2>2 DEF Opposes
  <2>4. /\ e.kind = "start" /\ e.x = d => e = Event("start", d)
        /\ e.kind = "stop" /\ e.x = d => e = Event("stop", d)
        /\ e.kind = "delete" /\ e.x = d => e = Event("delete", d)
    BY <1>2, EventIs
  <2>5. /\ e # Event("start", d) /\ e # Event("stop", d) /\ e # Event("delete", d)
    BY DEF Starts, Opposes
  <2> QED  BY <2>2, <2>3, <2>4, <2>5
<1>4. errors \subseteq errors'  BY <1>1, <1>2, TakenFor
<1>5. \/ op' = Idle
      \/ /\ op'.kind = e.kind /\ op'.x = e.x
         /\ e.kind = "update" => op'.to = e.to /\ db.dep[e.to] # "none"
  BY <1>1, <1>2, TakenFor
<1>6. ~ StartsNow(d)' /\ ~ StopsNow(d)'
  BY <1>3, <1>5, IdleFacts DEF StartsNow, StopsNow
<1> QED  BY <1>1, <1>4, <1>6 DEF Elsewhere

(* The service takes an event.                                             *)
LEMMA TakesOn ==
  ASSUME Typed, StoreInv, TakeEvent, NEW d \in Deployments, Answered(d),
         Asked(d) \/ Refused(d) \/ Running(d)
  PROVE  Asked(d)' \/ Refused(d)' \/ Running(d)'
<1>1. PICK e : e = Head(queue)  OBVIOUS
<1>2. /\ queue \in Seq(Events) /\ queue # <<>> /\ op = Idle /\ UNCHANGED db
      /\ BeginEvent(Head(queue))
  BY DEF Typed, TypeOK, TakeEvent, storeVars
<1>3. e \in Events /\ BeginEvent(e)  BY <1>1, <1>2
<1>4. CASE e = Event("start", d)
  <2>1. e.kind = "start" /\ e.x = d  BY <1>4 DEF Event
  <2>2. BeginStart(d)  BY <1>3, <2>1 DEF BeginEvent
  <2> QED  BY <1>2, <2>2, StartPlaces
<1>5. ASSUME NEW f \in Deployments, e = Update(f, d)
      PROVE  Refused(d)' \/ Running(d)'
  <2>1. e.kind = "update" /\ e.x = f /\ e.to = d  BY <1>5 DEF Update
  <2>2. BeginUpdate(f, d)  BY <1>3, <2>1 DEF BeginEvent
  <2> QED  BY <1>2, <2>2, UpdatePlaces
<1>6. CASE Opposes(e, d)  BY <1>1, <1>6, AskedTaken
<1>7. CASE ~ Starts(e, d) /\ ~ Opposes(e, d)
  <2>1. Elsewhere(d)  BY <1>1, <1>7, TakenElsewhere
  <2>2. Asked(d) => Asked(d)'  BY <1>1, <1>7, AskedTaken
  <2> QED  BY <2>1, <2>2, ElsewhereStays
<1> QED  BY <1>4, <1>5, <1>6, <1>7 DEF Starts

(* initialize has loaded it, or loads something else.                      *)
LEMMA LoadedPlaces ==
  ASSUME Typed, StoreInv, NEW x \in batch, TakeLoaded(x), NEW d \in Deployments,
         ToLoad(d) \/ Refused(d) \/ Running(d)
  PROVE  ToLoad(d)' \/ Refused(d)' \/ Running(d)'
<1>1. /\ db \in Tables /\ op = Idle /\ UNCHANGED <<db, docker, phase>>
      /\ batch' = batch \ {x}
  BY DEF Typed, TypeOK, TakeLoaded, storeVars, dockerVars
<1>2. CASE phase \notin {"start", "loop", "down"}
  <2>1. phase \in Phases  BY PhaseFacts DEF Typed, TypeOK
  <2> QED  BY <1>1, <1>2, <2>1 DEF ToLoad, Phases
<1>3. CASE phase = "start" /\ x = d
  <2>1. BeginStart(d)  BY <1>3, LoadedBegins
  <2> QED  BY <1>1, <2>1, StartPlaces
<1>4. CASE phase = "start" /\ x # d
  <2>1. x \in Deployments /\ BeginStart(x)  BY <1>4, LoadedBegins
  <2>2. \/ op'.kind = "start" /\ op'.x = x /\ errors' = errors
        \/ NotFound({x})
    BY <1>1, <2>1, StartBegins
  <2>3. errors \subseteq errors' /\ ~ StartsNow(d)' /\ ~ StopsNow(d)'
    BY <1>1, <1>4, <2>2, IdleFacts DEF NotFound, StartsNow, StopsNow
  <2>4. Elsewhere(d)  BY <1>1, <2>3 DEF Elsewhere
  <2>5. ToLoad(d) => ToLoad(d)'  BY <1>1, <1>4 DEF ToLoad
  <2> QED  BY <2>4, <2>5, ElsewhereStays
<1>5. CASE phase \in {"loop", "down"}
  <2>1. x \in Objects /\ BeginPublish(x)  BY <1>5, LoadedBegins
  <2>2. op'.kind = "publish" /\ errors' = errors  BY <2>1, PublishBegins
  <2>3. Elsewhere(d)  BY <1>1, <2>2 DEF Elsewhere, StartsNow, StopsNow
  <2>4. ~ ToLoad(d)  BY <1>5 DEF ToLoad
  <2> QED  BY <2>3, <2>4, ElsewhereStays
<1> QED  BY <1>2, <1>3, <1>4, <1>5

(* initialize loads what is started after all the rest.                    *)
LEMMA PhasePlaces ==
  ASSUME Typed, NextPhase, NEW d \in Deployments, db.dep[d] = "Started",
         ToLoad(d) \/ Refused(d) \/ Running(d)
  PROVE  ToLoad(d)' \/ Refused(d)' \/ Running(d)'
<1>1. /\ op = Idle /\ batch = {} /\ UNCHANGED <<db, op, todo, docker, errors>>
      /\ phase \in Phases \ {"loop", "down"} /\ phase' = PhaseAfter(phase)
      /\ phase' \in Phases \ {"boot", "down"}
  BY NextPhaseFacts, PhaseFacts DEF NextPhase, Typed, TypeOK
<1>2. CASE phase' \notin {"start", "loop"}
  BY <1>1, <1>2 DEF ToLoad, Phases
<1>3. CASE phase' = "start"
  <2>1. batch' = InState(db.dep, "Started")  BY <1>3, NextPhaseFacts
  <2>2. db.dep \in [Deployments -> DeploymentStatus]  BY DEF Typed, TypeOK, Tables
  <2> QED  BY <1>3, <2>1, <2>2 DEF InState, ToLoad
<1>4. CASE phase' = "loop"
  <2>1. phase = "start"  BY <1>1, <1>4, PhaseOrder DEF Phases
  <2>2. ~ ToLoad(d)  BY <1>1, <2>1 DEF ToLoad
  <2>3. Elsewhere(d)  BY <1>1, IdleFacts DEF Elsewhere, StartsNow, StopsNow
  <2> QED  BY <2>2, <2>3, ElsewhereStays
<1> QED  BY <1>2, <1>3, <1>4

(* An operation ends when nothing is left of it.                           *)
LEMMA FinishPlaces ==
  ASSUME Finish, NEW d \in Deployments, ToLoad(d) \/ Refused(d) \/ Running(d)
  PROVE  ToLoad(d)' \/ Refused(d)' \/ Running(d)'
<1>1. /\ UNCHANGED <<db, docker, phase, batch, todo>> /\ op' = Idle /\ todo = <<>>
      /\ errors' = IF op.kind = "start" THEN errors \ {op.x}
                   ELSE IF op.kind = "update" THEN errors \ {op.to} ELSE errors
  BY DEF Finish, storeVars, dockerVars
<1>2. ~ StartsNow(d)' /\ ~ StopsNow(d)'  BY <1>1, IdleFacts DEF StartsNow, StopsNow
<1>3. CASE ToLoad(d)  BY <1>1, <1>3 DEF ToLoad
<1>4. CASE Refused(d)
  <2>1. d \in errors'  BY <1>1, <1>4 DEF Refused, StartsNow
  <2> QED  BY <1>2, <2>1 DEF Refused
<1>5. CASE Running(d)
  <2>1. \A c \in Mine(d)' : docker'[c] = "running"
    BY <1>1, <1>5, NoSteps DEF Mine, Joined, Running, Runs
  <2> QED  BY <1>1, <1>2, <1>5, <2>1 DEF Running, Runs
<1> QED  BY <1>3, <1>4, <1>5

(* While the service works.                                                *)
LEMMA FailPlaces ==
  ASSUME Typed, Worked, Filed, StoreInv, UpdateOK, StopsOwn, KnownBorn, StoreStep,
         [Next]_vars, outside' = 0, phase' # "down", Failing,
         NEW d \in Deployments, d \notin unborn, ToLoad(d) \/ Refused(d) \/ Running(d)
  PROVE  ToLoad(d)' \/ Refused(d)' \/ Running(d)'
<1>1. /\ UNCHANGED <<phase, batch>> /\ errors' = errors \cup ({op.x, op.to} \cap Deployments)
      /\ op' = Idle \/ op'.kind = "restart"
  BY Fails DEF Failing, Typed
<1>2. ~ StartsNow(d)' /\ ~ StopsNow(d)'  BY <1>1, IdleFacts DEF StartsNow, StopsNow
<1>3. CASE ToLoad(d)  BY <1>1, <1>3 DEF ToLoad
<1>4. CASE Refused(d)  BY <1>1, <1>2, <1>4 DEF Refused
<1>5. CASE StartsNow(d)
  <2>1. d \in errors'  BY <1>1, <1>5 DEF StartsNow
  <2> QED  BY <1>2, <2>1 DEF Refused
<1>6. CASE Running(d) /\ ~ StartsNow(d)
  BY <1>2, <1>6, RunningStays
<1> QED  BY <1>3, <1>4, <1>5, <1>6

(* A container that is brought up is started, unless the service fails.    *)
LEMMA StartComes ==
  ASSUME Typed, Worked, Working, NEW c \in Containers, docker'[c] # "running",
         Step("up", c) \in Members(todo) \/ Step("start", c) \in Members(todo)
  PROVE  Step("up", c) \in Members(todo') \/ Step("start", c) \in Members(todo')
<1>1. OpOK /\ todo # <<>> /\ Work /\ docker \in [Containers -> DockerStates]
  BY DEF Typed, TypeOK, Working
<1>2. ~ Fail
  <2>1. op' = op  BY DEF Working, Continue
  <2> QED  BY <1>1, <2>1, FailsOrGoes
<1>3. \A m \in Members(todo) : m = Head(todo) \/ m \in Members(todo')
  BY <1>1, MembersStay DEF Working
<1>4. CASE Head(todo) = Step("up", c)
  <2>1. Doing("up") /\ Subject = c  BY <1>1, <1>4 DEF Doing, Subject, Step
  <2>2. Up  BY <1>1, <2>1, LooksFirst
  <2>3. Look("up", UpSteps)  BY <2>2 DEF Up, UpSteps
  <2>4. Continue(UpSteps)  BY <1>2, <2>3 DEF Look
  <2>5. c \in Objects  BY DEF Objects
  <2>6. Step("start", c) \in Members(UpSteps)
    <3> DEFINE a == IF Exists(Subject) /\ Subject \notin AlwaysPull
                    THEN <<>> ELSE Steps2("create", "created")
               b == Steps2("start", "started")
    <3>1. UpSteps = a \o b  BY <2>1 DEF UpSteps
    <3>2. /\ <<>> \in Seq(Steps) /\ Steps2("create", "created") \in Seq(Steps)
          /\ b \in Seq(Steps)
      BY <2>1, <2>5, NextSteps DEF Steps2, Dos
    <3>3. a \in Seq(Steps)  BY <3>2
    <3>4. Step("start", c) \in Members(b)
      BY <2>1, <2>5, TwoSteps, StepType DEF Steps2, Dos
    <3> HIDE DEF a, b
    <3> QED  BY <3>1, <3>2, <3>3, <3>4, ConcatBoth
  <2>7. UpSteps \in Seq(Steps)  BY <2>1, <2>5, LookSteps
  <2> QED  BY <1>1, <2>4, <2>6, <2>7, MembersStay
<1>5. CASE Head(todo) = Step("start", c)
  <2>1. Doing("start") /\ Subject = c  BY <1>1, <1>5 DEF Doing, Subject, Step
  <2>2. Start  BY <1>1, <2>1, DoneBy
  <2>3. docker'[c] = "running"
    BY <1>1, <1>2, <2>1, <2>2 DEF Start, MarkMissing
  <2> QED  BY <2>3
<1> QED  BY <1>3, <1>4, <1>5

LEMMA WorkPlaces ==
  ASSUME Typed, Worked, Filed, StoreInv, UpdateOK, StopsOwn, KnownBorn, StoreStep,
         [Next]_vars, outside' = 0, Working,
         NEW d \in Deployments, d \notin unborn, ToLoad(d) \/ Refused(d) \/ Running(d)
  PROVE  ToLoad(d)' \/ Refused(d)' \/ Running(d)'
<1>1. UNCHANGED <<op, errors, phase, batch>>  BY DEF Working, Continue
<1>2. (StartsNow(d)' <=> StartsNow(d)) /\ (StopsNow(d)' <=> StopsNow(d))
  BY <1>1 DEF StartsNow, StopsNow
<1>3. CASE ToLoad(d)  BY <1>1, <1>3 DEF ToLoad
<1>4. CASE Refused(d)  BY <1>1, <1>2, <1>4 DEF Refused
<1>5. CASE Running(d)
  <2>1. ~ StopsNow(d)'  BY <1>2, <1>5 DEF Running
  <2> QED  BY <1>2, <1>5, <2>1, StartComes, RunningStays
<1> QED  BY <1>3, <1>4, <1>5

LEMMA ApartPlaces ==
  ASSUME Typed, Worked, Filed, StoreInv, UpdateOK, StopsOwn, KnownBorn, StoreStep,
         [Next]_vars, outside' = 0, Apart,
         NEW d \in Deployments, d \notin unborn, ToLoad(d) \/ Refused(d) \/ Running(d)
  PROVE  ToLoad(d)' \/ Refused(d)' \/ Running(d)'
<1>1. UNCHANGED <<op, todo, phase, batch>> /\ errors \subseteq errors'
  BY DEF Apart, serviceVars
<1>2. (StartsNow(d)' <=> StartsNow(d)) /\ (StopsNow(d)' <=> StopsNow(d))
  BY <1>1 DEF StartsNow, StopsNow
<1>3. CASE ToLoad(d)  BY <1>1, <1>3 DEF ToLoad
<1>4. CASE Refused(d)  BY <1>1, <1>2, <1>4 DEF Refused
<1>5. CASE Running(d)
  <2>1. ~ StopsNow(d)'  BY <1>2, <1>5 DEF Running
  <2> QED  BY <1>1, <1>2, <1>5, <2>1, RunningStays
<1> QED  BY <1>3, <1>4, <1>5

(* Mishaps are not forgotten.                                              *)
LEMMA OutsideGrows ==
  ASSUME Typed, [Next]_vars, outside' = 0
  PROVE  outside = 0
<1>1. outside \in Nat  BY DEF Typed, TypeOK
<1>2. ASSUME NEW e, NEW possible, NEW tables, Persist(e, possible, tables)
      PROVE  outside' = outside
  BY <1>2 DEF Persist
<1>3. CASE Requesting
  BY <1>2, <1>3 DEF Requesting, ReceiveCreation, ReceiveCommand, ReceiveUpdate
<1>4. CASE \E c \in Containers : ChangeOutside(c)  BY <1>1, <1>4 DEF ChangeOutside
<1>5. CASE UNCHANGED outside  BY <1>5
<1>6. CASE ServiceStep
  BY <1>5, <1>6
     DEF ServiceStep, TakeEvent, NextPhase, TakeLoaded, Publish, Fetch, Up, StopLook,
         RestartLook, Down, Look, Create, Created, Started, Stopped, Record, Start, Halt,
         RemoveObject, Unset, Drop, Report, Finish, StepOnly, boundVars
<1>7. CASE SendEvent \/ CallFails \/ Crash \/ Disconnected \/ Rest \/ UNCHANGED vars
           \/ (\E c \in Containers : Listen(c))
  BY <1>5, <1>7
     DEF SendEvent, CallFails, Crash, Disconnected, Restart, Rest, vars, boundVars, Listen
<1> QED  BY <1>3, <1>4, <1>6, <1>7 DEF Next, Requesting

(* Each step keeps what is started in its place.                           *)
LEMMA PlacedNext ==
  ASSUME Typed, Worked, Filed, StoreInv, UpdateOK, StoreStep, UpOK', StopsOwn, KnownBorn,
         [Next]_vars, faults' = 0, outside' = 0,
         NEW d \in Deployments, db'.dep[d] = "Started",
         db.dep[d] = "Started" => Answered(d) /\ Placed(d)
  PROVE  Placed(d)'
<1>1. CASE db.dep[d] # "Started"
  <2>1. Requesting  BY <1>1, BecomesStarted
  <2>2. Starts(sending, d)'  BY <1>1, <2>1, RequestAsks
  <2> QED  BY <2>2 DEF Placed, Asked
<1>2. CASE phase' = "boot"  BY <1>2 DEF Placed, ToLoad
<1>3. CASE db.dep[d] = "Started" /\ phase' # "boot"
  <2>1. Answered(d) /\ Placed(d)  BY <1>3
  <2>2. d \notin unborn  BY <1>3 DEF Filed, Born, HasRow
  <2>3. phase' # "down"  BY DEF UpOK
  <2>4. CASE TakeEvent
    <3>1. phase = "loop"  BY <2>4 DEF TakeEvent
    <3>2. Asked(d) \/ Refused(d) \/ Running(d)  BY <2>1, <3>1 DEF Placed, ToLoad
    <3> QED  BY <2>1, <2>4, <3>2, TakesOn DEF Placed
  <2>5. CASE Asked(d) /\ ~ TakeEvent  BY <1>3, <2>5, AskedStays DEF Placed
  <2>6. CASE ~ Asked(d) /\ ~ TakeEvent
    <3>1. ToLoad(d) \/ Refused(d) \/ Running(d)  BY <2>1, <2>6 DEF Placed
    <3>2. CASE NextPhase  BY <1>3, <3>1, <3>2, PhasePlaces DEF Placed
    <3>3. CASE \E x \in batch : TakeLoaded(x)  BY <3>1, <3>3, LoadedPlaces DEF Placed
    <3>4. CASE Finish  BY <3>1, <3>4, FinishPlaces DEF Placed
    <3>5. CASE Failing  BY <2>2, <2>3, <3>1, <3>5, FailPlaces DEF Placed
    <3>6. CASE Working  BY <2>2, <3>1, <3>6, WorkPlaces DEF Placed
    <3>7. CASE Apart  BY <2>2, <3>1, <3>7, ApartPlaces DEF Placed
    <3> QED
      BY <1>3, <2>6, <3>2, <3>3, <3>4, <3>5, <3>6, <3>7, Happens DEF Ending
  <2> QED  BY <2>4, <2>5, <2>6
<1> QED  BY <1>1, <1>2, <1>3

-----------------------------------------------------------------------------
(* The theorems.                                                           *)

LEMMA RestoredInit ==
  ASSUME Init
  PROVE  Restored
<1>1. /\ todo = <<>> /\ sending = None /\ queue = <<>> /\ unborn = Objects \ Known
      /\ \A d \in Deployments : db.dep[d] = "none"
  BY DEF Init, NoRows
<1>2. StopsOwn  BY <1>1, NoSteps DEF StopsOwn
<1>3. UpdatesBorn
  <2>1. DOMAIN queue = {}  BY <1>1
  <2> QED  BY <1>1, <2>1, NoneAssumption DEF UpdatesBorn, ToldOf
<1>4. KnownBorn  BY <1>1 DEF KnownBorn
<1>5. StartedOK  BY <1>1 DEF StartedOK
<1> QED  BY <1>2, <1>3, <1>4, <1>5 DEF Restored

LEMMA RestoredNext ==
  ASSUME Typed, Kept, Serviced, Told', Restored, [Next]_vars
  PROVE  Restored'
<1>1. Worked /\ Filed /\ UpdateOK /\ StoreStep  BY StoreSteps DEF Serviced
<1>2. StoreInv /\ UpOK'  BY DEF Kept, Told
<1>3. StopsOwn /\ UpdatesBorn /\ KnownBorn /\ StartedOK  BY DEF Restored
<1>4. StopsOwn'  BY <1>1, <1>2, <1>3, OwnNext
<1>5. UpdatesBorn'  BY <1>1, <1>3, UpdatesBornNext
<1>6. KnownBorn'
  <2>1. unborn' \subseteq unborn  BY <1>1, BornStay
  <2> QED  BY <1>3, <2>1 DEF KnownBorn
<1>7. StartedOK'
  <2> SUFFICES ASSUME faults' = 0, outside' = 0,
                      NEW d \in Deployments, db'.dep[d] = "Started"
               PROVE  Answered(d)' /\ Placed(d)'
    BY DEF StartedOK
  <2>1. faults = 0 /\ outside = 0  BY NothingFailed, OutsideGrows
  <2>2. db.dep[d] = "Started" => Answered(d) /\ Placed(d)  BY <1>3, <2>1 DEF StartedOK
  <2>3. Answered(d)'  BY <1>1, <1>3, <2>2, AnsweredNext
  <2>4. Placed(d)'  BY <1>1, <1>2, <1>3, <2>2, PlacedNext
  <2> QED  BY <2>3, <2>4
<1> QED  BY <1>4, <1>5, <1>6, <1>7 DEF Restored

(* As long as nothing fails, a deployment that the store says is started   *)
(* is to be loaded by initialize, has the event that starts it on the way, *)
(* was answered with an Error event, or runs: the status is stored before  *)
(* the event is sent (ServiceHandle::on_event), and no request that stops  *)
(* it is the last one.                                                     *)
THEOREM RestoredAlways == Spec => []Restored
<1>1. Init => Restored  BY RestoredInit
<1>2. Typed /\ Kept /\ Serviced /\ Told' /\ Restored /\ [Next]_vars => Restored'
  BY RestoredNext
<1> QED
  BY <1>1, <1>2, Wellformed, OwnershipKept, ServicedAlways, ToldAlways, PTL DEF Spec

(* StartedRuns: when all requests are worked on and nothing has failed,    *)
(* what the store says is started runs, or the server was told that it     *)
(* does not, whatever overtook what and whenever the runtime was restarted *)
(* (Service::initialize, start_deployment, update_deployment), for any     *)
(* deployments that share any containers and resources.                    *)
THEOREM StartedAlways == Spec => []StartedRuns
<1>1. Typed /\ Restored => StartedRuns
  <2> SUFFICES ASSUME Typed, Restored, Settled, faults = 0, outside = 0,
                      NEW d \in Deployments, NEW c \in Joined(d),
                      db.dep[d] = "Started", d \notin errors,
                      Needs[c] \cap Images \subseteq Known,
                      \A e \in Deployments \ {d} : c \notin Named(e)
               PROVE  docker[c] = "running"
    BY DEF StartedRuns
  <2>1. /\ phase = "loop" /\ op = Idle /\ queue = <<>> /\ sending = None /\ todo = <<>>
    BY DEF Settled, Typed, OpOK
  <2>2. Placed(d)  BY DEF Restored, StartedOK
  <2>3. ~ ToLoad(d) /\ ~ Refused(d)  BY <2>1 DEF ToLoad, Refused
  <2>4. ~ Asked(d)
    <3>1. DOMAIN queue = {}  BY <2>1
    <3>2. ~ Starts(None, d)  BY NoCommand
    <3> QED  BY <2>1, <3>1, <3>2 DEF Asked
  <2>5. Running(d) /\ c \in Mine(d)  BY <2>2, <2>3, <2>4 DEF Placed, Mine
  <2> QED  BY <2>1, <2>5, NoSteps DEF Running, Runs
<1> QED  BY <1>1, Wellformed, RestoredAlways, PTL

=============================================================================
