--------------------------- MODULE ServiceProofs ---------------------------
(***************************************************************************)
(* Proofs about what the service of Deployments does with the events and   *)
(* with Docker, for every value of the constants: what an update leaves    *)
(* alone, what runs when initialize starts the deployments, and that the   *)
(* properties in Astarte say what Docker says.                             *)
(***************************************************************************)
EXTENDS DeploymentsProofs

-----------------------------------------------------------------------------
(* What the steps of an operation are.                                     *)

StopDos == {"stop", "halt", "stopped", "reportStopped"}
StartDos == {"up", "create", "created", "start", "started", "reportStarted"}
Does ==
    [idle    |-> {},
     publish |-> {"publish", "fetch"},
     refresh |-> {"fetch"},
     start   |-> StartDos,
     stop    |-> StopDos,
     delete  |-> {"down", "halt", "remove", "unset", "drop"},
     update  |-> StopDos \cup StartDos,
     restart |-> {"restart", "start", "started", "reportStarted"}]

Fits == \A s \in Members(todo) : s.do \in Does[op.kind]

(* What the service works on while it starts.                              *)
PhaseDoes ==
    [boot        |-> {"idle"},
     resources   |-> {"idle", "publish"},
     containers  |-> {"idle", "publish"},
     deployments |-> {"idle", "publish"},
     delete      |-> {"idle", "delete"},
     stop        |-> {"idle", "stop"},
     start       |-> {"idle", "start"}]

InPhase ==
    /\ phase \in DOMAIN PhaseDoes => op.kind \in PhaseDoes[phase]
    /\ phase = "boot" => batch = {}

(* What they are about.                                                    *)
ContainerDos == {"start", "started", "halt", "stopped", "stop", "restart"}
Subjects(q) ==
    \A s \in Members(q) :
      /\ s.do \in ContainerDos => s.x \in Containers
      /\ s.do \in {"up", "create", "created"} => s.x \in Resources \cup Containers

Worked == Fits /\ InPhase /\ Subjects(todo)

-----------------------------------------------------------------------------
(* What the service goes on with.                                          *)

LEMMA Objectives ==
  ASSUME NEW x \in Objects, NEW dos \in SUBSET Dos
  PROVE  /\ \A do \in dos : /\ <<Step(do, x)>> \in Seq(Steps)
                            /\ \A m \in Members(<<Step(do, x)>>) : m.do \in dos /\ m.x = x
         /\ \A do, then \in dos :
               /\ <<Step(do, x), Step(then, x)>> \in Seq(Steps)
               /\ \A m \in Members(<<Step(do, x), Step(then, x)>>) : m.do \in dos /\ m.x = x
<1>1. \A do \in dos : Step(do, x) \in Steps /\ Step(do, x).do = do /\ Step(do, x).x = x
  BY StepType DEF Step
<1> QED  BY <1>1, OneStep, TwoSteps

(* Looking at what is there adds steps about the same, and each fits the   *)
(* operation that has the look.                                            *)
LEMMA LookDos ==
  ASSUME Subject \in Objects
  PROVE  /\ UpSteps \in Seq(Steps)
         /\ \A m \in Members(UpSteps) :
               m.x = Subject /\ m.do \in {"create", "created", "start", "started"}
         /\ Subject \in Resources \cup Containers => Subjects(UpSteps)
         /\ StopSteps \in Seq(Steps)
         /\ \A m \in Members(StopSteps) : m.x = Subject /\ m.do \in {"halt", "stopped"}
         /\ RestartSteps \in Seq(Steps)
         /\ \A m \in Members(RestartSteps) : m.x = Subject /\ m.do \in {"start", "started"}
         /\ DownSteps \in Seq(Steps)
         /\ \A m \in Members(DownSteps) :
               m.x = Subject /\ m.do \in {"halt", "remove", "unset", "drop"}
         /\ Subjects(DownSteps)
<1>1. <<>> \in Seq(Steps) /\ Members(<<>>) = {}  BY NoSteps
<1>2. /\ UpSteps \in Seq(Steps)
      /\ \A m \in Members(UpSteps) :
            m.x = Subject /\ m.do \in {"create", "created", "start", "started"}
      /\ Subject \in Resources \cup Containers => Subjects(UpSteps)
  <2> DEFINE dos == {"create", "created", "start", "started"}
             p == IF Exists(Subject) /\ Subject \notin AlwaysPull
                  THEN <<>> ELSE Steps2("create", "created")
             q == IF Subject \in Containers THEN Steps2("start", "started") ELSE <<>>
  <2>1. dos \in SUBSET Dos  BY DEF Dos
  <2>2. p \in Seq(Steps) /\ \A m \in Members(p) : m.do \in {"create", "created"} /\ m.x = Subject
    <3> DEFINE few == {"create", "created"}
    <3>1. few \in SUBSET Dos  BY DEF Dos
    <3>2. LET t == Steps2("create", "created") IN
            t \in Seq(Steps) /\ \A m \in Members(t) : m.do \in few /\ m.x = Subject
      BY <3>1, Objectives DEF Steps2
    <3> QED  BY <1>1, <3>2
  <2>3. /\ q \in Seq(Steps)
        /\ \A m \in Members(q) :
             m.do \in {"start", "started"} /\ m.x = Subject /\ m.x \in Containers
    <3> DEFINE few == {"start", "started"}
    <3>1. few \in SUBSET Dos  BY DEF Dos
    <3>2. LET t == Steps2("start", "started") IN
            t \in Seq(Steps) /\ \A m \in Members(t) : m.do \in few /\ m.x = Subject
      BY <3>1, Objectives DEF Steps2
    <3> QED  BY <1>1, <3>2
  <2>4. UpSteps = p \o q  BY DEF UpSteps
  <2> HIDE DEF p, q
  <2>5. UpSteps \in Seq(Steps) /\ Members(UpSteps) \subseteq Members(p) \cup Members(q)
    BY <2>2, <2>3, <2>4, ConcatMembers
  <2>6. Subject \in Resources \cup Containers => Subjects(UpSteps)
    BY <2>2, <2>3, <2>5 DEF Subjects, ContainerDos
  <2> QED  BY <2>2, <2>3, <2>5, <2>6
<1>3. /\ StopSteps \in Seq(Steps)
      /\ \A m \in Members(StopSteps) : m.x = Subject /\ m.do \in {"halt", "stopped"}
  <2> DEFINE dos == {"halt", "stopped"}
  <2>1. dos \in SUBSET Dos  BY DEF Dos
  <2>2. LET q == Steps2("halt", "stopped") IN
          q \in Seq(Steps) /\ \A m \in Members(q) : m.do \in dos /\ m.x = Subject
    BY <2>1, Objectives DEF Steps2
  <2> QED  BY <1>1, <2>2 DEF StopSteps
<1>4. /\ RestartSteps \in Seq(Steps)
      /\ \A m \in Members(RestartSteps) : m.x = Subject /\ m.do \in {"start", "started"}
  <2> DEFINE dos == {"start", "started"}
  <2>1. dos \in SUBSET Dos  BY DEF Dos
  <2>2. LET q == Steps2("start", "started") IN
          q \in Seq(Steps) /\ \A m \in Members(q) : m.do \in dos /\ m.x = Subject
    BY <2>1, Objectives DEF Steps2
  <2> QED  BY <1>1, <2>2 DEF RestartSteps
<1>5. /\ DownSteps \in Seq(Steps)
      /\ \A m \in Members(DownSteps) :
            m.x = Subject /\ m.do \in {"halt", "remove", "unset", "drop"}
      /\ Subjects(DownSteps)
  <2> DEFINE dos == {"halt", "remove", "unset", "drop"}
             h == IF Subject \in Containers THEN <<Step("halt", Subject)>> ELSE <<>>
             r == <<Step("remove", Subject)>>
             p == IF Exists(Subject) THEN h \o r ELSE <<>>
             u == Steps2("unset", "drop")
  <2>1. dos \in SUBSET Dos  BY DEF Dos
  <2>9. /\ <<Step("halt", Subject)>> \in Seq(Steps)
        /\ \A m \in Members(<<Step("halt", Subject)>>) : m.do \in dos /\ m.x = Subject
    BY <2>1, Objectives
  <2>2. /\ h \in Seq(Steps)
        /\ \A m \in Members(h) : m.do \in dos /\ m.x = Subject /\ m.x \in Containers
    <3>1. CASE Subject \in Containers  BY <2>9, <3>1
    <3>2. CASE Subject \notin Containers  BY <1>1, <3>2
    <3> QED  BY <3>1, <3>2
  <2>6. /\ r \in Seq(Steps) /\ u \in Seq(Steps)
        /\ \A m \in Members(r) \cup Members(u) :
              m.do \in {"remove", "unset", "drop"} /\ m.x = Subject
    <3> DEFINE few == {"remove", "unset", "drop"}
    <3>1. few \in SUBSET Dos  BY DEF Dos
    <3> QED  BY <3>1, Objectives DEF Steps2
  <2>3. DownSteps = p \o u  BY DEF DownSteps
  <2> HIDE DEF h, r, u
  <2>4. h \o r \in Seq(Steps) /\ Members(h \o r) \subseteq Members(h) \cup Members(r)
    BY <2>2, <2>6, ConcatMembers
  <2>5. p \in Seq(Steps) /\ Members(p) \subseteq Members(h) \cup Members(r)
    BY <1>1, <2>4
  <2> HIDE DEF p
  <2>7. /\ DownSteps \in Seq(Steps)
        /\ Members(DownSteps) \subseteq Members(h) \cup Members(r) \cup Members(u)
    BY <2>3, <2>5, <2>6, ConcatMembers
  <2>8. Subjects(DownSteps)  BY <2>2, <2>6, <2>7 DEF Subjects, ContainerDos
  <2> QED  BY <2>2, <2>6, <2>7, <2>8
<1> QED  BY <1>2, <1>3, <1>4, <1>5

(* The steps that are left when it goes on.                                *)
LEMMA GoesOn ==
  ASSUME OpOK, todo # <<>>, NEW s \in Seq(Steps), Continue(s)
  PROVE  /\ todo' = s \o Tail(todo) /\ todo' \in Seq(Steps)
         /\ Members(todo') \subseteq Members(s) \cup Members(Tail(todo))
         /\ Members(todo') \subseteq Members(s) \cup Members(todo)
         /\ UNCHANGED <<op, errors, phase, batch>>
<1>1. todo' = s \o Tail(todo) /\ UNCHANGED <<op, errors, phase, batch>>
  BY DEF Continue
<1>2. Tail(todo) \in Seq(Steps) /\ Members(Tail(todo)) \subseteq Members(todo)
  BY TailMembers DEF OpOK
<1> QED  BY <1>1, <1>2, ConcatMembers

(* A failure ends the operation, but for an update, whose containers are   *)
(* started again.                                                          *)
LEMMA Fails ==
  ASSUME OpOK, Fail
  PROVE  /\ op.kind # "update" => op' = Idle /\ todo' = <<>>
         /\ op.kind = "update" =>
              /\ op'.kind = "restart" /\ op'.x = op.x /\ op'.to = op.to
              /\ \A s \in Members(todo') :
                   (s.do = "restart" /\ s.x \in Containers) \/ s = Step("reportStarted", op.x)
         /\ errors' = errors \cup ({op.x, op.to} \cap Deployments)
         /\ (phase' = "down" \/ UNCHANGED <<phase, batch>>)
<1>1. ASSUME op.kind = "update"
      PROVE  /\ op'.kind = "restart" /\ op'.x = op.x /\ op'.to = op.to
             /\ \A s \in Members(todo') :
                  (s.do = "restart" /\ s.x \in Containers) \/ s = Step("reportStarted", op.x)
  <2> DEFINE q == Each("restart", op.back)
             e == <<Step("reportStarted", op.x)>>
  <2>1. op.x \in Objects /\ Containers \in SUBSET Objects
    BY <1>1 DEF OpOK, Objects
  <2>2. e \in Seq(Steps) /\ Members(e) = {Step("reportStarted", op.x)}
    <3>1. Step("reportStarted", op.x) \in Steps  BY <2>1, StepType DEF Dos
    <3> QED  BY <3>1, OneStep
  <2>3. op.back \in Seq(Containers)  BY DEF OpOK, Operations
  <2>4. "restart" \in Dos  BY DEF Dos
  <2> HIDE DEF e
  <2>5. q \in Seq(Steps) /\ \A s \in Members(q) : s.do = "restart" /\ s.x \in Containers
    BY <2>1, <2>3, <2>4, EachFacts
  <2>6. todo' = q \o e /\ op' = [op EXCEPT !.kind = "restart"]
    BY <1>1 DEF Fail, e
  <2> HIDE DEF q
  <2>7. Members(todo') \subseteq Members(q) \cup Members(e)
    BY <2>2, <2>5, <2>6, ConcatMembers
  <2>8. op'.kind = "restart" /\ op'.x = op.x /\ op'.to = op.to
    BY <2>6 DEF OpOK, Operations
  <2> QED  BY <2>2, <2>5, <2>7, <2>8
<1>2. op.kind # "update" => op' = Idle /\ todo' = <<>>  BY DEF Fail
<1>3. /\ errors' = errors \cup ({op.x, op.to} \cap Deployments)
      /\ (phase' = "down" \/ UNCHANGED <<phase, batch>>)
  BY DEF Fail
<1> QED  BY <1>1, <1>2, <1>3

(* Every step of an operation either goes on with steps of the same        *)
(* operation about the same object, or fails.                              *)
Adds(s, x) == Subjects(s) /\ \A m \in Members(s) : m.do \in Does[op.kind] /\ m.x = x
Small(s) == \A m \in Members(s) : m.do \notin {"publish", "fetch", "up", "stop", "restart", "down"}

Work ==
    \/ Publish \/ Fetch \/ Up \/ StopLook \/ RestartLook \/ Down
    \/ Create \/ Created \/ Start \/ Started \/ Halt \/ Stopped
    \/ RemoveObject \/ Unset \/ Drop \/ Report

Kinds == {"idle", "publish", "refresh", "start", "stop", "delete", "update", "restart"}

LEMMA DoesFacts ==
  ASSUME OpOK, Fits, NEW do, Doing(do)
  PROVE  /\ op.kind \in Kinds /\ do \in Does[op.kind]
         /\ do = "up" => {"create", "created", "start", "started"} \subseteq Does[op.kind]
         /\ do = "stop" => {"halt", "stopped"} \subseteq Does[op.kind]
         /\ do = "restart" => {"start", "started"} \subseteq Does[op.kind]
         /\ do = "down" => {"halt", "remove", "unset", "drop"} \subseteq Does[op.kind]
<1>1. do \in Does[op.kind]  BY DoingFacts DEF Fits
<1>2. op.kind \in Kinds  BY DEF OpOK, Operations, Kinds
<1> QED  BY <1>1, <1>2 DEF Does, Kinds, StartDos, StopDos

LEMMA WorkGoes ==
  ASSUME OpOK, Fits, Subjects(todo), Work
  PROVE  /\ todo # <<>> /\ Subject \in Objects /\ StepOnly
         /\ \/ Fail
            \/ \E s \in Seq(Steps) : Continue(s) /\ Adds(s, Subject) /\ Small(s)
<1>1. ASSUME NEW do, Doing(do)  PROVE todo # <<>> /\ Subject \in Objects
  BY <1>1, DoingFacts
<1>2. <<>> \in Seq(Steps) /\ Adds(<<>>, Subject) /\ Small(<<>>)
  BY NoSteps DEF Adds, Small, Subjects
<1>3. ASSUME NEW do, NEW s, Look(do, s), Subject \in Objects =>
               s \in Seq(Steps) /\ Adds(s, Subject) /\ Small(s)
      PROVE  /\ todo # <<>> /\ Subject \in Objects /\ StepOnly
             /\ Fail \/ \E t \in Seq(Steps) : Continue(t) /\ Adds(t, Subject) /\ Small(t)
  BY <1>1, <1>3 DEF Look
<1>4. CASE Up
  <2>1. Look("up", UpSteps)  BY <1>4 DEF Up, UpSteps
  <2>2. Doing("up")  BY <2>1 DEF Look
  <2>3. Subject \in Resources \cup Containers
    BY <2>2, DoingFacts DEF Subjects, Subject
  <2> QED  BY <1>3, <2>1, <2>2, <2>3, LookDos, DoesFacts DEF Adds, Small
<1>5. CASE StopLook
  <2>1. Look("stop", StopSteps)  BY <1>5 DEF StopLook, StopSteps
  <2>2. Doing("stop")  BY <2>1 DEF Look
  <2>3. Subject \in Containers
    BY <2>2, DoingFacts DEF Subjects, ContainerDos, Subject
  <2>4. Subject \in Objects => Subjects(StopSteps)
    BY <2>3, LookDos DEF Subjects
  <2> QED  BY <1>3, <2>1, <2>2, <2>4, LookDos, DoesFacts DEF Adds, Small
<1>6. CASE RestartLook
  <2>1. Look("restart", RestartSteps)  BY <1>6 DEF RestartLook, RestartSteps
  <2>2. Doing("restart")  BY <2>1 DEF Look
  <2>3. Subject \in Containers
    BY <2>2, DoingFacts DEF Subjects, ContainerDos, Subject
  <2>4. Subject \in Objects => Subjects(RestartSteps)
    BY <2>3, LookDos DEF Subjects
  <2> QED  BY <1>3, <2>1, <2>2, <2>4, LookDos, DoesFacts DEF Adds, Small
<1>7. CASE Down
  <2>1. Look("down", DownSteps)  BY <1>7 DEF Down, DownSteps
  <2>2. Doing("down")  BY <2>1 DEF Look
  <2> QED  BY <1>3, <2>1, <2>2, LookDos, DoesFacts DEF Adds, Small
<1>8. CASE Publish  BY <1>1, <1>2, <1>8 DEF Publish
<1>9. CASE Fetch  BY <1>1, <1>2, <1>9 DEF Fetch
<1>10. CASE Create  BY <1>1, <1>2, <1>10 DEF Create
<1>11. CASE Created  BY <1>1, <1>2, <1>11 DEF Created, Record
<1>12. CASE Start  BY <1>1, <1>2, <1>12 DEF Start, MarkMissing
<1>13. CASE Started  BY <1>1, <1>2, <1>13 DEF Started, Record
<1>14. CASE Halt  BY <1>1, <1>2, <1>14 DEF Halt, MarkMissing
<1>15. CASE Stopped  BY <1>1, <1>2, <1>15 DEF Stopped, Record
<1>16. CASE RemoveObject  BY <1>1, <1>2, <1>16 DEF RemoveObject
<1>17. CASE Unset  BY <1>1, <1>2, <1>17 DEF Unset
<1>18. CASE Drop  BY <1>1, <1>2, <1>18 DEF Drop
<1>19. CASE Report  BY <1>1, <1>2, <1>19 DEF Report
<1> QED
  BY <1>4, <1>5, <1>6, <1>7, <1>8, <1>9, <1>10, <1>11, <1>12, <1>13, <1>14, <1>15,
     <1>16, <1>17, <1>18, <1>19 DEF Work

-----------------------------------------------------------------------------
(* What the service begins with.                                           *)

LEMMA ConcatBoth ==
  ASSUME NEW p \in Seq(Steps), NEW q \in Seq(Steps)
  PROVE  p \o q \in Seq(Steps) /\ Members(p \o q) = Members(p) \cup Members(q)
<1>1. p \o q \in Seq(Steps) /\ Members(p \o q) \subseteq Members(p) \cup Members(q)
  BY ConcatMembers
<1>2. /\ Len(p \o q) = Len(p) + Len(q)
      /\ \A n \in 1..Len(p) + Len(q) :
            (p \o q)[n] = IF n <= Len(p) THEN p[n] ELSE q[n - Len(p)]
  BY ConcatProperties
<1>3. /\ DOMAIN p = 1..Len(p) /\ DOMAIN q = 1..Len(q) /\ DOMAIN (p \o q) = 1..Len(p \o q)
      /\ Len(p) \in Nat /\ Len(q) \in Nat
  BY <1>1, LenProperties
<1>4. ASSUME NEW n \in DOMAIN p  PROVE p[n] \in Members(p \o q)
  <2>1. n \in DOMAIN (p \o q) /\ (p \o q)[n] = p[n]  BY <1>2, <1>3
  <2> QED  BY <2>1 DEF Members
<1>5. ASSUME NEW n \in DOMAIN q  PROVE q[n] \in Members(p \o q)
  <2>1. n + Len(p) \in DOMAIN (p \o q) /\ (p \o q)[n + Len(p)] = q[n]  BY <1>2, <1>3
  <2> QED  BY <2>1 DEF Members
<1>6. Members(p) \cup Members(q) \subseteq Members(p \o q)
  BY <1>4, <1>5 DEF Members
<1> QED  BY <1>1, <1>6

LEMMA OperationParts ==
  ASSUME NEW kind, NEW x
  PROVE  Operation(kind, x).kind = kind /\ Operation(kind, x).x = x
BY DEF Operation, Idle

LEMMA PublishBegins ==
  ASSUME NEW x \in Objects, BeginPublish(x)
  PROVE  /\ op'.kind = "publish" /\ op'.x = x /\ errors' = errors
         /\ Step("publish", x) \in Members(todo')
         /\ Members(todo') \subseteq {Step("publish", x), Step("fetch", x)}
<1> DEFINE p == <<Step("publish", x)>>
           f == IF x \in Deployments THEN <<>> ELSE <<Step("fetch", x)>>
<1>1. Step("publish", x) \in Steps /\ Step("fetch", x) \in Steps
  BY StepType DEF Dos
<1>2. p \in Seq(Steps) /\ Members(p) = {Step("publish", x)}  BY <1>1, OneStep
<1>3. f \in Seq(Steps) /\ Members(f) \subseteq {Step("fetch", x)}
  <2>1. CASE x \in Deployments  BY <2>1, NoSteps
  <2>2. CASE x \notin Deployments  BY <1>1, <2>2, OneStep
  <2> QED  BY <2>1, <2>2
<1>4. todo' = p \o f /\ op' = Operation("publish", x) /\ errors' = errors
  BY DEF BeginPublish, Begin
<1> HIDE DEF p, f
<1> QED  BY <1>2, <1>3, <1>4, ConcatBoth, OperationParts

LEMMA RefreshBegins ==
  ASSUME NEW c \in Containers, BeginRefresh(c)
  PROVE  /\ op'.kind = "refresh" /\ op'.x = c /\ errors' = errors
         /\ todo' = <<Step("fetch", c)>> /\ Members(todo') = {Step("fetch", c)}
<1>1. Step("fetch", c) \in Steps  BY StepType DEF Dos, Objects
<1>2. /\ todo' = <<Step("fetch", c)>> /\ op' = Operation("refresh", c)
      /\ errors' = errors
  BY DEF BeginRefresh, Begin
<1> QED  BY <1>1, <1>2, OneStep, OperationParts

StartingSteps(q, d) ==
    \A s \in Members(q) :
      \/ s.do = "up" /\ s.x \in Resources \cup Joined(d)
      \/ s.do = "reportStarted" /\ s.x = d

LEMMA StartBegins ==
  ASSUME db \in Tables, NEW d \in Deployments, BeginStart(d)
  PROVE  \/ /\ op'.kind = "start" /\ op'.x = d /\ errors' = errors
            /\ StartingSteps(todo', d) /\ IsComplete(d) /\ todo' = StartSteps(d)
         \/ NotFound({d}) /\ ~ IsComplete(d)
<1>1. CASE IsComplete(d)
  <2>1. todo' = StartSteps(d) /\ op' = Operation("start", d) /\ errors' = errors
    BY <1>1 DEF BeginStart, Begin
  <2> QED  BY <1>1, <2>1, StartStepsFacts, OperationParts DEF StartingSteps
<1>2. CASE ~ IsComplete(d)  BY <1>2 DEF BeginStart
<1> QED  BY <1>1, <1>2

StoppingSteps(q, d, S) ==
    \A s \in Members(q) :
      \/ s.do = "stop" /\ s.x \in S
      \/ s.do = "reportStopped" /\ s.x = d

LEMMA StopList ==
  ASSUME NEW d \in Deployments, NEW S
  PROVE  LET q == Each("stop", InOrder(d, S)) \o <<Step("reportStopped", d)>> IN
         /\ q \in Seq(Steps) /\ StoppingSteps(q, d, S)
         /\ \A c \in S \cap Named(d) : Step("stop", c) \in Members(q)
<1> DEFINE p == Each("stop", InOrder(d, S))
           e == <<Step("reportStopped", d)>>
<1>1. Step("reportStopped", d) \in Steps  BY StepType DEF Dos, Objects
<1>2. e \in Seq(Steps) /\ Members(e) = {Step("reportStopped", d)}  BY <1>1, OneStep
<1>3. /\ p \in Seq(Steps)
      /\ \A s \in Members(p) : s.do = "stop" /\ s.x \in S
      /\ \A c \in S \cap Named(d) : Step("stop", c) \in Members(p)
  BY StopStepsFacts
<1> HIDE DEF p, e
<1>4. p \o e \in Seq(Steps) /\ Members(p \o e) = Members(p) \cup Members(e)
  BY <1>2, <1>3, ConcatBoth
<1>5. Step("reportStopped", d).do = "reportStopped" /\ Step("reportStopped", d).x = d
  BY DEF Step
<1>6. StoppingSteps(p \o e, d, S)  BY <1>2, <1>3, <1>4, <1>5 DEF StoppingSteps
<1> QED  BY <1>3, <1>4, <1>6 DEF p, e

LEMMA StopBegins ==
  ASSUME db \in Tables, NEW d \in Deployments, BeginStop(d)
  PROVE  \/ /\ op'.kind = "stop" /\ op'.x = d /\ errors' = errors /\ db.dep[d] # "none"
            /\ StoppingSteps(todo', d, db.rows[d])
            /\ \A c \in db.rows[d] \cap Named(d) : Step("stop", c) \in Members(todo')
         \/ NotFound({d}) /\ db.dep[d] = "none"
<1>1. CASE db.dep[d] # "none"
  <2>1. /\ todo' = Each("stop", InOrder(d, db.rows[d])) \o <<Step("reportStopped", d)>>
        /\ op' = Operation("stop", d) /\ errors' = errors
    BY <1>1 DEF BeginStop, Begin
  <2> QED  BY <1>1, <2>1, StopList, OperationParts
<1>2. CASE db.dep[d] = "none"  BY <1>2 DEF BeginStop
<1> QED  BY <1>1, <1>2

LEMMA DeleteBegins ==
  ASSUME db \in Tables, NEW d \in Deployments, BeginDelete(d)
  PROVE  \/ /\ op'.kind = "delete" /\ op'.x = d /\ errors' = errors /\ db.dep[d] # "none"
            /\ Step("drop", d) \in Members(todo')
            /\ \A s \in Members(todo') :
                 s.do = "down" \/ s = Step("unset", d) \/ s = Step("drop", d)
         \/ NotFound({d}) /\ db.dep[d] = "none"
<1>1. CASE db.dep[d] # "none"
  <2> DEFINE c == DownContainers(d)
             v == DownVolumes(d)
             i == DownImages(d)
             e == DropSelf(d)
  <2>1. DeleteSteps(d) = c \o v \o i \o e
    BY DEF DeleteSteps, DownContainers, DownVolumes, DownImages, DropSelf
  <2>2. /\ c \in Seq(Steps) /\ \A s \in Members(c) : s.do = "down"
        /\ v \in Seq(Steps) /\ \A s \in Members(v) : s.do = "down"
        /\ i \in Seq(Steps) /\ \A s \in Members(i) : s.do = "down"
        /\ e \in Seq(Steps) /\ Members(e) = {Step("unset", d), Step("drop", d)}
    BY DownContainersFacts, DownResourcesFacts, DropSelfFacts
  <2> HIDE DEF c, v, i, e
  <2>3. c \o v \in Seq(Steps) /\ Members(c \o v) = Members(c) \cup Members(v)
    BY <2>2, ConcatBoth
  <2>4. c \o v \o i \in Seq(Steps) /\ Members(c \o v \o i) = Members(c \o v) \cup Members(i)
    BY <2>2, <2>3, ConcatBoth
  <2>5. Members(c \o v \o i \o e) = Members(c \o v \o i) \cup Members(e)
    BY <2>2, <2>4, ConcatBoth
  <2>6. todo' = DeleteSteps(d) /\ op' = Operation("delete", d) /\ errors' = errors
    BY <1>1 DEF BeginDelete, Begin
  <2> QED  BY <1>1, <2>1, <2>2, <2>3, <2>4, <2>5, <2>6, OperationParts
<1>2. CASE db.dep[d] = "none"  BY <1>2 DEF BeginDelete
<1> QED  BY <1>1, <1>2

LEMMA UpdateBegins ==
  ASSUME db \in Tables, NEW from \in Deployments, NEW to \in Deployments,
         BeginUpdate(from, to)
  PROVE  \/ /\ op'.kind = "update" /\ op'.x = from /\ op'.to = to /\ errors' = errors
            /\ IsComplete(to)
            /\ \A s \in Members(todo') :
                 \/ s.do = "stop" /\ s.x \in db.rows[from] \ db.rows[to]
                 \/ s.do = "reportStopped" /\ s.x = from
                 \/ s.do = "up" /\ s.x \in Resources \cup Joined(to)
                 \/ s.do = "reportStarted" /\ s.x = to
         \/ NotFound({from, to})
<1>1. CASE db.dep[from] # "none" /\ IsComplete(to)
  <2> DEFINE S == ContainersToStop(from, to)
             back == InOrder(from, S)
             q == Each("stop", back) \o <<Step("reportStopped", from)>>
             new == [kind |-> "update", x |-> from, to |-> to, back |-> back]
  <2>1. todo' = q \o StartSteps(to) /\ op' = new /\ errors' = errors
    BY <1>1 DEF BeginUpdate, Begin
  <2>2. new.kind = "update" /\ new.x = from /\ new.to = to  OBVIOUS
  <2>3. q \in Seq(Steps) /\ StoppingSteps(q, from, S)  BY StopList
  <2>4. StartSteps(to) \in Seq(Steps) /\ StartingSteps(StartSteps(to), to)
    BY StartStepsFacts DEF StartingSteps
  <2> HIDE DEF q, new
  <2>5. Members(todo') \subseteq Members(q) \cup Members(StartSteps(to))
    BY <2>1, <2>3, <2>4, ConcatBoth
  <2>6. S = db.rows[from] \ db.rows[to]  BY DEF ContainersToStop
  <2> HIDE DEF S
  <2> QED
    BY <1>1, <2>1, <2>2, <2>3, <2>4, <2>5, <2>6 DEF StoppingSteps, StartingSteps
<1>2. CASE ~ (db.dep[from] # "none" /\ IsComplete(to))
  BY <1>2 DEF BeginUpdate
<1> QED  BY <1>1, <1>2

-----------------------------------------------------------------------------
(* The steps that are left fit the operation, and the operation the phase. *)

LEMMA IdleFacts == Idle.kind = "idle" /\ Idle.x = None /\ Idle.to = None
BY DEF Idle

(* A list of steps that fits a kind of operation.                          *)
LEMMA StartingFits ==
  ASSUME NEW q, NEW d, StartingSteps(q, d)
  PROVE  \A s \in Members(q) : s.do \in Does["start"]
BY DEF StartingSteps, Does, StartDos

LEMMA StoppingFits ==
  ASSUME NEW q, NEW d, NEW S, StoppingSteps(q, d, S)
  PROVE  \A s \in Members(q) : s.do \in Does["stop"]
BY DEF StoppingSteps, Does, StopDos

(* What an idle service begins with, on its way or with an event.          *)
Begins ==
    \/ \E x \in Objects : BeginPublish(x)
    \/ \E c \in Containers : BeginRefresh(c)
    \/ \E d \in Deployments : BeginStart(d) \/ BeginStop(d) \/ BeginDelete(d)
    \/ \E from, to \in Deployments : BeginUpdate(from, to)

LEMMA EventBegins ==
  ASSUME NEW e \in Events, BeginEvent(e)
  PROVE  /\ \/ e.kind = "publish" /\ e.x \in Objects /\ BeginPublish(e.x)
            \/ e.kind = "refresh" /\ e.x \in Containers /\ BeginRefresh(e.x)
            \/ e.kind = "start" /\ e.x \in Deployments /\ BeginStart(e.x)
            \/ e.kind = "stop" /\ e.x \in Deployments /\ BeginStop(e.x)
            \/ e.kind = "delete" /\ e.x \in Deployments /\ BeginDelete(e.x)
            \/ e.kind = "update" /\ e.x \in Deployments /\ e.to \in Deployments
                 /\ BeginUpdate(e.x, e.to)
         /\ Begins
<1>1. \/ e.kind = "publish" /\ e.x \in Objects
      \/ e.kind = "refresh" /\ e.x \in Containers
      \/ e.kind = "start" /\ e.x \in Deployments
      \/ e.kind = "stop" /\ e.x \in Deployments
      \/ e.kind = "delete" /\ e.x \in Deployments
      \/ e.kind = "update" /\ e.x \in Deployments /\ e.to \in Deployments
  BY DEF Events, Creations, Commands, Refreshes, Event, Update
<1> QED  BY <1>1 DEF BeginEvent, Begins

LEMMA BeginsFit ==
  ASSUME OpOK, op = Idle, db \in Tables, Begins
  PROVE  Fits' /\ Subjects(todo')
<1>1. op.kind = "idle"  BY IdleFacts
<1>2. ASSUME NEW D, NotFound(D)  PROVE Fits' /\ Subjects(todo')
  <2>1. op' = op /\ todo' = <<>>  BY <1>2 DEF NotFound, OpOK
  <2> QED  BY <2>1, NoSteps DEF Fits, Subjects
<1>3. ASSUME NEW x \in Objects, BeginPublish(x)  PROVE Fits' /\ Subjects(todo')
  <2>1. Members(todo') \subseteq {Step("publish", x), Step("fetch", x)}
    BY <1>3, PublishBegins
  <2>2. \A s \in Members(todo') : s.do \in {"publish", "fetch"}
    BY <2>1 DEF Step
  <2> QED  BY <1>3, <2>2, PublishBegins DEF Fits, Does, Subjects, ContainerDos
<1>4. ASSUME NEW c \in Containers, BeginRefresh(c)  PROVE Fits' /\ Subjects(todo')
  <2>1. \A s \in Members(todo') : s.do \in {"fetch"}
    BY <1>4, RefreshBegins DEF Step
  <2> QED  BY <1>4, <2>1, RefreshBegins DEF Fits, Does, Subjects, ContainerDos
<1>5. ASSUME NEW d \in Deployments, BeginStart(d)  PROVE Fits' /\ Subjects(todo')
  <2>1. CASE op'.kind = "start" /\ StartingSteps(todo', d)
    <3>1. Joined(d) \subseteq Containers  BY DEF Joined, Tables
    <3>2. Subjects(todo')  BY <2>1, <3>1 DEF StartingSteps, Subjects, ContainerDos
    <3> QED  BY <2>1, <3>2, StartingFits DEF Fits
  <2> QED  BY <1>2, <1>5, <2>1, StartBegins
<1>6. ASSUME NEW d \in Deployments, BeginStop(d)  PROVE Fits' /\ Subjects(todo')
  <2>1. CASE op'.kind = "stop" /\ StoppingSteps(todo', d, db.rows[d])
    <3>1. db.rows[d] \subseteq Containers  BY DEF Tables
    <3>2. Subjects(todo')  BY <2>1, <3>1 DEF StoppingSteps, Subjects, ContainerDos
    <3> QED  BY <2>1, <3>2, StoppingFits DEF Fits
  <2> QED  BY <1>2, <1>6, <2>1, StopBegins
<1>7. ASSUME NEW d \in Deployments, BeginDelete(d)  PROVE Fits' /\ Subjects(todo')
  <2>1. CASE /\ op'.kind = "delete"
             /\ \A s \in Members(todo') :
                  s.do = "down" \/ s = Step("unset", d) \/ s = Step("drop", d)
    <3>1. \A s \in Members(todo') : s.do \in {"down", "unset", "drop"}
      BY <2>1 DEF Step
    <3> QED  BY <2>1, <3>1 DEF Fits, Does, Subjects, ContainerDos
  <2> QED  BY <1>2, <1>7, <2>1, DeleteBegins
<1>8. ASSUME NEW from \in Deployments, NEW to \in Deployments, BeginUpdate(from, to)
      PROVE  Fits' /\ Subjects(todo')
  <2>1. CASE /\ op'.kind = "update"
             /\ \A s \in Members(todo') :
                  \/ s.do = "stop" /\ s.x \in db.rows[from] \ db.rows[to]
                  \/ s.do = "reportStopped"
                  \/ s.do = "up" /\ s.x \in Resources \cup Joined(to)
                  \/ s.do = "reportStarted"
    <3>1. \A s \in Members(todo') :
            s.do \in {"stop", "reportStopped", "up", "reportStarted"}
      BY <2>1
    <3>2. db.rows[from] \subseteq Containers /\ Joined(to) \subseteq Containers
      BY DEF Joined, Tables
    <3>3. Subjects(todo')  BY <2>1, <3>2 DEF Subjects, ContainerDos
    <3> QED  BY <2>1, <3>1, <3>3 DEF Fits, Does, StopDos, StartDos
  <2> QED  BY <1>2, <1>8, <2>1, UpdateBegins
<1> QED  BY <1>3, <1>4, <1>5, <1>6, <1>7, <1>8 DEF Begins

(* Every step of an operation that is under way.                           *)
LEMMA WorkFits ==
  ASSUME OpOK, Fits, Subjects(todo), todo # <<>>,
         Fail \/ \E s \in Seq(Steps) : \E x : Continue(s) /\ Adds(s, x)
  PROVE  Fits' /\ Subjects(todo')
<1>1. ASSUME Fail  PROVE Fits' /\ Subjects(todo')
  <2>1. CASE op.kind = "update"
    <3>1. \A s \in Members(todo') :
            (s.do = "restart" /\ s.x \in Containers) \/ s = Step("reportStarted", op.x)
      BY <1>1, <2>1, Fails
    <3>2. Subjects(todo')  BY <3>1 DEF Subjects, Step, ContainerDos
    <3>3. \A s \in Members(todo') : s.do \in {"restart", "reportStarted"}
      BY <3>1 DEF Step
    <3> QED  BY <1>1, <2>1, <3>2, <3>3, Fails DEF Fits, Does
  <2>2. CASE op.kind # "update"
    BY <1>1, <2>2, Fails, NoSteps DEF Fits, Subjects
  <2> QED  BY <2>1, <2>2
<1>2. ASSUME NEW s \in Seq(Steps), NEW x, Continue(s), Adds(s, x)
      PROVE  Fits' /\ Subjects(todo')
  <2>1. Members(todo') \subseteq Members(s) \cup Members(todo) /\ op' = op
    BY <1>2, GoesOn
  <2> QED  BY <1>2, <2>1 DEF Fits, Adds, Subjects
<1> QED  BY <1>1, <1>2

LEMMA WorkInPhase ==
  ASSUME OpOK, Fits, InPhase, todo # <<>>, Fail \/ UNCHANGED <<op, phase, batch>>
  PROVE  InPhase'
<1>1. CASE Fail
  <2>1. CASE phase' = "down"  BY <2>1 DEF InPhase, PhaseDoes
  <2>2. CASE phase' = phase /\ op.kind # "update"
    BY <1>1, <2>2, Fails, IdleFacts DEF InPhase, PhaseDoes
  <2>3. CASE phase' = phase /\ op.kind = "update"
    BY <2>3 DEF InPhase, PhaseDoes
  <2> QED  BY <1>1, <2>1, <2>2, <2>3, Fails
<1> QED  BY <1>1 DEF InPhase

LEMMA LoadedBegins ==
  ASSUME Typed, NEW x \in batch, TakeLoaded(x)
  PROVE  /\ x \in Objects /\ op = Idle /\ todo = <<>>
         /\ \/ phase = "delete" /\ x \in Deployments /\ BeginDelete(x)
            \/ phase = "stop" /\ x \in Deployments /\ BeginStop(x)
            \/ phase = "start" /\ x \in Deployments /\ BeginStart(x)
            \/ phase \notin {"delete", "stop", "start"} /\ BeginPublish(x)
         /\ Begins
<1>1. x \in Objects /\ op = Idle /\ todo = <<>>
  BY DEF TakeLoaded, Typed, TypeOK, OpOK
<1>2. \/ phase = "delete" /\ x \in Deployments /\ BeginDelete(x)
      \/ phase = "stop" /\ x \in Deployments /\ BeginStop(x)
      \/ phase = "start" /\ x \in Deployments /\ BeginStart(x)
      \/ phase \notin {"delete", "stop", "start"} /\ BeginPublish(x)
  BY DEF TakeLoaded, Typed, BatchOK
<1>3. Begins  BY <1>1, <1>2 DEF Begins
<1> QED  BY <1>1, <1>2, <1>3

LEMMA WorkedNext ==
  ASSUME Typed, Worked, [Next]_vars
  PROVE  Worked'
<1>1. OpOK /\ Fits /\ InPhase /\ Subjects(todo) /\ db \in Tables  BY DEF Typed, TypeOK, Worked
<1>2. ASSUME UNCHANGED <<op, todo, phase, batch>>  PROVE Worked'
  BY <1>1, <1>2 DEF Worked, Fits, InPhase, Subjects
<1>3. CASE TakeEvent
  <2>1. Head(queue) \in Events /\ BeginEvent(Head(queue)) /\ op = Idle
    BY <1>3, HeadTailProperties DEF TakeEvent, Typed, TypeOK
  <2>2. Fits' /\ Subjects(todo')  BY <1>1, <2>1, EventBegins, BeginsFit
  <2>3. phase' = "loop"  BY <1>3 DEF TakeEvent
  <2> QED  BY <2>2, <2>3 DEF Worked, InPhase, PhaseDoes
<1>4. CASE NextPhase
  <2>1. op' = Idle /\ todo' = todo /\ op = Idle  BY <1>4 DEF NextPhase
  <2>4. phase' # "boot"
    <3>1. phase \in Phases \ {"loop", "down"}
      BY <1>4, PhaseFacts DEF NextPhase, Typed, TypeOK
    <3> QED  BY <1>4, <3>1, PhaseFacts DEF NextPhase
  <2>2. InPhase'  BY <2>1, <2>4, IdleFacts DEF InPhase, PhaseDoes
  <2>3. Fits' /\ Subjects(todo')  BY <1>1, <2>1 DEF Fits
  <2> QED  BY <2>2, <2>3 DEF Worked
<1>5. ASSUME NEW x \in batch, TakeLoaded(x)  PROVE Worked'
  <2>1. Fits' /\ Subjects(todo')  BY <1>1, <1>5, LoadedBegins, BeginsFit
  <2>2. op.kind = "idle" /\ phase' = phase /\ phase # "boot"
    BY <1>1, <1>5, LoadedBegins, IdleFacts DEF TakeLoaded, InPhase
  <2>3. ASSUME NEW D, NotFound(D)  PROVE InPhase'
    BY <1>1, <2>2, <2>3 DEF InPhase, NotFound
  <2>4. InPhase'
    <3>1. CASE phase = "delete" /\ x \in Deployments /\ BeginDelete(x)
      <4>1. CASE op'.kind = "delete"
        BY <2>2, <3>1, <4>1 DEF InPhase, PhaseDoes
      <4> QED  BY <1>1, <2>3, <3>1, <4>1, DeleteBegins
    <3>2. CASE phase = "stop" /\ x \in Deployments /\ BeginStop(x)
      <4>1. CASE op'.kind = "stop"
        BY <2>2, <3>2, <4>1 DEF InPhase, PhaseDoes
      <4> QED  BY <1>1, <2>3, <3>2, <4>1, StopBegins
    <3>3. CASE phase = "start" /\ x \in Deployments /\ BeginStart(x)
      <4>1. CASE op'.kind = "start"
        BY <2>2, <3>3, <4>1 DEF InPhase, PhaseDoes
      <4> QED  BY <1>1, <2>3, <3>3, <4>1, StartBegins
    <3>4. CASE phase \notin {"boot", "delete", "stop", "start"} /\ BeginPublish(x)
      <4>1. op'.kind = "publish"  BY <1>5, <3>4, LoadedBegins, PublishBegins
      <4> QED  BY <2>2, <3>4, <4>1 DEF InPhase, PhaseDoes
    <3>5. CASE phase = "boot"  BY <1>1, <3>5 DEF InPhase
    <3> QED  BY <1>5, <3>1, <3>2, <3>3, <3>4, <3>5, LoadedBegins
  <2> QED  BY <2>1, <2>4 DEF Worked
<1>6. CASE Work
  <2>1. Fits' /\ Subjects(todo')  BY <1>1, <1>6, WorkGoes, WorkFits
  <2>2. InPhase'  BY <1>1, <1>6, WorkGoes, WorkInPhase, GoesOn
  <2> QED  BY <2>1, <2>2 DEF Worked
<1>7. CASE Finish
  <2>1. op' = Idle /\ todo' = <<>> /\ UNCHANGED <<phase, batch>>  BY <1>7 DEF Finish
  <2> QED  BY <1>1, <2>1, IdleFacts, NoSteps DEF Worked, Fits, InPhase, PhaseDoes, Subjects
<1>8. CASE CallFails
  BY <1>1, <1>8, WorkFits, WorkInPhase DEF CallFails, Worked
<1>9. CASE Crash \/ Disconnected
  <2>1. op' = Idle /\ todo' = <<>> /\ batch' = {}  BY <1>9 DEF Crash, Disconnected, Restart
  <2> QED  BY <2>1, IdleFacts, NoSteps DEF Worked, Fits, InPhase, PhaseDoes, Subjects
<1> QED
  BY <1>2, <1>3, <1>4, <1>5, <1>6, <1>7, <1>8, <1>9
     DEF Next, ServiceStep, Work, ReceiveCreation, ReceiveCommand, ReceiveUpdate,
         Persist, SendEvent, ChangeOutside, Listen, Rest, vars, serviceVars

-----------------------------------------------------------------------------
(* What a step does to the store.                                          *)

Creation(x) ==
    IF x \in Resources THEN CreateResource(x)
    ELSE IF x \in Containers THEN CreateContainer(x) ELSE CreateDeployment(x)

Deletion(x) ==
    IF x \in Deployments THEN DeleteDeployment(x)
    ELSE IF x \in Containers THEN DeleteContainer(x) ELSE DeleteResource(x)

Creating == \E x \in unborn \cap Objects : unborn' = unborn \ {x} /\ db' = Creation(x)
Setting ==
    \/ \E d \in Deployments, status \in DeploymentStatus \ {"none"} :
         db.dep[d] # "none" /\ db' = SetDeployment(d, status)
    \/ \E d, e \in Deployments :
         db.dep[d] # "none" /\ db.dep[e] # "none" /\ db' = UpdateDeployments(d, e)
    \/ \E c \in Containers, status \in ContainerStatus \ {"none"} :
         IsStored(c) /\ db' = SetContainer(c, status)
    \/ \E r \in Resources, status \in ResourceStatus \ {"none"} :
         db.res[r] # "none" /\ db' = SetResource(r, status)
Dropping == Drop /\ HasRow(Subject) /\ db' = Deletion(Subject)

StoreStep ==
    \/ UNCHANGED db /\ unborn' \subseteq unborn
    \/ Creating
    \/ UNCHANGED unborn /\ (Setting \/ Dropping)

LEMMA ObjectKinds ==
  ASSUME NEW x \in Objects
  PROVE  /\ x \in Deployments \/ x \in Containers \/ x \in Resources
         /\ x \in Deployments => x \notin Containers /\ x \notin Resources
         /\ x \in Containers => x \notin Resources
BY ContainerStoreAssumption DEF Objects

(* The subject of a step that records something is a container, or a step  *)
(* to set the row of its kind.                                             *)
LEMMA RecordSets ==
  ASSUME Typed, Subject \in Objects, HasRow(Subject), UNCHANGED unborn
  PROVE  /\ Subject \in Deployments =>
              (db' = SetDeployment(Subject, "Stopped") => Setting)
         /\ Subject \in Containers => \A status \in ContainerStatus \ {"none"} :
              (db' = SetContainer(Subject, status) => Setting)
         /\ Subject \in Resources => \A status \in ResourceStatus \ {"none"} :
              (db' = SetResource(Subject, status) => Setting)
BY ObjectKinds DEF Setting, HasRow, DeploymentStatus

LEMMA StoreSteps ==
  ASSUME Typed, Worked, [Next]_vars
  PROVE  StoreStep
<1>1. OpOK /\ db \in Tables  BY DEF Typed, TypeOK
<1>2. ASSUME NEW x \in Objects, ReceiveCreation(x)  PROVE StoreStep
  <2>1. Persist(Event("publish", x), TRUE, Creation(x))
    BY <1>2 DEF ReceiveCreation, Creation
  <2>2. x \in unborn /\ unborn' = unborn \ {x}  BY <1>2 DEF ReceiveCreation
  <2> QED  BY <2>1, <2>2 DEF Persist, StoreStep, Creating
<1>3. ASSUME NEW kind \in DOMAIN CommandStatus, NEW d \in Deployments,
             ReceiveCommand(kind, d)
      PROVE  StoreStep
  <2>1. CommandStatus[kind] \in DeploymentStatus \ {"none"}
    BY DEF CommandStatus, DeploymentStatus
  <2>2. Persist(Event(kind, d), db.dep[d] # "none", SetDeployment(d, CommandStatus[kind]))
    BY <1>3 DEF ReceiveCommand
  <2> QED  BY <1>3, <2>1, <2>2 DEF Persist, ReceiveCommand, StoreStep, Setting
<1>4. ASSUME NEW from \in Deployments, NEW to \in Deployments, ReceiveUpdate(from, to)
      PROVE  StoreStep
  BY <1>4 DEF Persist, ReceiveUpdate, StoreStep, Setting
<1>5. ASSUME UNCHANGED <<db, unborn>>  PROVE StoreStep
  BY <1>5 DEF StoreStep
<1>6. ASSUME NEW do, Doing(do)  PROVE Subject \in Objects
  BY <1>1, <1>6, DoingFacts
<1>7. ASSUME NEW do \in ContainerDos, Doing(do)  PROVE Subject \in Containers
  BY <1>1, <1>7, DoingFacts DEF Worked, Subjects, Subject
<1>8. CASE Publish
  <2>1. Subject \in Objects /\ UNCHANGED unborn
    BY <1>6, <1>8 DEF Publish, StepOnly
  <2>2. CASE HasRow(Subject)
    BY <1>8, <2>1, <2>2, ObjectKinds, RecordSets
       DEF Publish, StoreStep, ContainerStatus, ResourceStatus
  <2> QED  BY <1>5, <1>8, <2>1, <2>2 DEF Publish
<1>9. CASE Created
  <2>1. Doing("created") /\ UNCHANGED unborn
    BY <1>9 DEF Created, Record, StepOnly
  <2>2. Subject \in Objects /\ Subject \notin Deployments
    BY <1>1, <2>1, DoingFacts, ObjectKinds DEF Worked, Subjects, Subject
  <2>3. CASE HasRow(Subject)
    BY <1>9, <2>1, <2>2, <2>3, ObjectKinds, RecordSets
       DEF Created, Record, StoreStep, ContainerStatus, ResourceStatus
  <2> QED  BY <1>5, <1>9, <2>1, <2>3 DEF Created, Record
<1>10. CASE Started
  <2>1. Subject \in Objects /\ Subject \in Containers /\ UNCHANGED unborn
    BY <1>6, <1>7, <1>10 DEF Started, Record, StepOnly, ContainerDos
  <2>2. CASE HasRow(Subject)
    BY <1>10, <2>1, <2>2, RecordSets DEF Started, Record, StoreStep, ContainerStatus
  <2> QED  BY <1>5, <1>10, <2>1, <2>2 DEF Started, Record
<1>11. CASE Stopped
  <2>1. Subject \in Objects /\ Subject \in Containers /\ UNCHANGED unborn
    BY <1>6, <1>7, <1>11 DEF Stopped, Record, StepOnly, ContainerDos
  <2>2. CASE HasRow(Subject)
    BY <1>11, <2>1, <2>2, RecordSets DEF Stopped, Record, StoreStep, ContainerStatus
  <2> QED  BY <1>5, <1>11, <2>1, <2>2 DEF Stopped, Record
<1>12. ASSUME MarkMissing, Subject \in Containers, UNCHANGED unborn  PROVE StoreStep
  <2>1. CASE HasRow(Subject)
    <3>1. Subject \in Objects  BY <1>12 DEF Objects
    <3> QED  BY <1>12, <2>1, <3>1, RecordSets DEF MarkMissing, StoreStep, ContainerStatus
  <2> QED  BY <1>5, <1>12, <2>1 DEF MarkMissing
<1>13. CASE Start
  <2>1. Subject \in Containers /\ UNCHANGED unborn
    BY <1>7, <1>13 DEF Start, StepOnly, ContainerDos
  <2> QED  BY <1>5, <1>12, <1>13, <2>1 DEF Start, storeVars
<1>14. CASE Halt
  <2>1. Subject \in Containers /\ UNCHANGED unborn
    BY <1>7, <1>14 DEF Halt, StepOnly, ContainerDos
  <2> QED  BY <1>5, <1>12, <1>14, <2>1 DEF Halt, storeVars
<1>15. CASE Drop
  <2>1. UNCHANGED unborn  BY <1>15 DEF Drop, StepOnly
  <2>2. CASE HasRow(Subject)
    <3>1. db' = Deletion(Subject)  BY <1>15, <2>2 DEF Drop, Deletion
    <3> QED  BY <1>15, <2>1, <2>2, <3>1 DEF StoreStep, Dropping
  <2> QED  BY <1>5, <1>15, <2>1, <2>2 DEF Drop
<1>16. CASE \/ Fetch \/ Up \/ StopLook \/ RestartLook \/ Down \/ Create
            \/ RemoveObject \/ Unset \/ Report
  BY <1>5, <1>16 DEF Fetch, Up, StopLook, RestartLook, Down, Look, Create,
     RemoveObject, Unset, Report, storeVars, StepOnly
<1>17. CASE TakeEvent \/ NextPhase \/ (\E x \in batch : TakeLoaded(x)) \/ Finish
  BY <1>5, <1>17 DEF TakeEvent, NextPhase, TakeLoaded, Finish, storeVars, StepOnly
<1>18. CASE SendEvent \/ CallFails \/ Crash \/ Disconnected \/ Rest \/ UNCHANGED vars
  BY <1>5, <1>18 DEF SendEvent, CallFails, Crash, Disconnected, Restart, Rest,
     vars, storeVars
<1>19. ASSUME NEW c \in Containers, ChangeOutside(c) \/ Listen(c)  PROVE StoreStep
  BY <1>5, <1>19 DEF ChangeOutside, Listen, storeVars
<1>20. CASE ServiceStep
  BY <1>8, <1>9, <1>10, <1>11, <1>13, <1>14, <1>15, <1>16, <1>17, <1>20
     DEF ServiceStep
<1> QED
  BY <1>2, <1>3, <1>4, <1>18, <1>19, <1>20 DEF Next

(* The status of what has a row is set.                                    *)
LEMMA SettingFacts ==
  ASSUME db \in Tables, Setting
  PROVE  /\ db'.rows = db.rows /\ db'.lacks = db.lacks /\ db'.links = db.links
         /\ db'.missing = db.missing
         /\ \A d \in Deployments : db'.dep[d] = "none" <=> db.dep[d] = "none"
         /\ \A c \in Containers : IsStored(c)' <=> IsStored(c)
         /\ \A x \in Objects : HasRow(x)' <=> HasRow(x)
<1> DEFINE Same == /\ db'.rows = db.rows /\ db'.lacks = db.lacks /\ db'.links = db.links
                   /\ db'.missing = db.missing
                   /\ \A d \in Deployments : db'.dep[d] = "none" <=> db.dep[d] = "none"
                   /\ \A c \in Containers : db'.cont[c] = "none" <=> db.cont[c] = "none"
                   /\ \A r \in Resources : db'.res[r] = "none" <=> db.res[r] = "none"
<1>1. ASSUME NEW d \in Deployments, NEW status \in DeploymentStatus \ {"none"},
             db.dep[d] # "none", db' = SetDeployment(d, status)
      PROVE  Same
  BY <1>1 DEF SetDeployment, Tables
<1>2. ASSUME NEW d \in Deployments, NEW e \in Deployments,
             db.dep[d] # "none", db.dep[e] # "none", db' = UpdateDeployments(d, e)
      PROVE  Same
  BY <1>2 DEF UpdateDeployments, Tables
<1>3. ASSUME NEW c \in Containers, NEW status \in ContainerStatus \ {"none"},
             IsStored(c), db' = SetContainer(c, status)
      PROVE  Same
  BY <1>3 DEF SetContainer, Tables, IsStored
<1>4. ASSUME NEW r \in Resources, NEW status \in ResourceStatus \ {"none"},
             db.res[r] # "none", db' = SetResource(r, status)
      PROVE  Same
  BY <1>4 DEF SetResource, Tables
<1>5. Same  BY <1>1, <1>2, <1>3, <1>4 DEF Setting
<1>6. \A c \in Containers : IsStored(c)' <=> IsStored(c)  BY <1>5 DEF IsStored
<1>7. \A x \in Objects : HasRow(x)' <=> HasRow(x)
  BY <1>5, <1>6, ObjectKinds DEF HasRow
<1> QED  BY <1>5, <1>6, <1>7

(* A request is stored: what comes are rows of what it creates, and rows   *)
(* that a deployment lacked.                                               *)
GainedRows(x) ==
    \A d \in Deployments :
      /\ db.rows[d] \subseteq db'.rows[d]
      /\ \A c \in db'.rows[d] \ db.rows[d] : IsStored(c)' /\ (d = x \/ c \in db.lacks[d])
      /\ d # x => db'.lacks[d] \subseteq db.lacks[d] /\ db'.dep[d] = db.dep[d]
      /\ d = x => IF db.dep[d] = "none" THEN db'.dep[d] = "Received"
                                        ELSE db'.dep[d] = db.dep[d]
GainedContainers(x) ==
    \A c \in Containers :
      /\ IsStored(c) => IsStored(c)' /\ db'.missing[c] \subseteq db.missing[c]
      /\ c # x => /\ IsStored(c)' <=> IsStored(c)
                  /\ db'.missing[c] \subseteq db.missing[c]
GainedObjects(x) ==
    \A y \in Objects : (HasRow(y) => HasRow(y)') /\ (HasRow(y)' => HasRow(y) \/ y = x)
Gained(x) == GainedRows(x) /\ GainedContainers(x) /\ GainedObjects(x)

LEMMA CreationFacts ==
  ASSUME db \in Tables, NEW x \in Objects, db' = Creation(x)
  PROVE  Gained(x)
<1> USE DEF Gained
<1>1. CASE x \in Resources
  <2>1. /\ db'.rows = db.rows /\ db'.lacks = db.lacks /\ db'.cont = db.cont
        /\ db'.dep = db.dep
        /\ \A c \in Containers : db'.missing[c] = db.missing[c] \ {x}
        /\ \A r \in Resources : db'.res[r] = IF r = x /\ db.res[r] = "none"
                                             THEN "Received" ELSE db.res[r]
    BY <1>1 DEF Creation, CreateResource, Tables
  <2>2. x \notin Deployments /\ x \notin Containers  BY <1>1, ObjectKinds
  <2>3. \A c : IsStored(c)' <=> IsStored(c)  BY <2>1 DEF IsStored
  <2>4. GainedObjects(x)
    BY <2>1, <2>3, ObjectKinds DEF HasRow, GainedObjects
  <2>5. GainedRows(x)  BY <2>1, <2>2 DEF GainedRows
  <2>6. GainedContainers(x)  BY <2>1, <2>2, <2>3 DEF GainedContainers
  <2> QED  BY <2>4, <2>5, <2>6
<1>2. CASE x \in Containers /\ IsStored(x)
  <2>1. x \notin Resources /\ x \notin Deployments  BY <1>2, ObjectKinds
  <2>2. db' = db  BY <1>2, <2>1 DEF Creation, CreateContainer
  <2>3. \A y : HasRow(y)' <=> HasRow(y)  BY <2>2 DEF HasRow, IsStored
  <2>4. \A c : IsStored(c)' <=> IsStored(c)  BY <2>2 DEF IsStored
  <2>5. GainedObjects(x)  BY <2>3 DEF GainedObjects
  <2>6. GainedRows(x)  BY <2>1, <2>2 DEF GainedRows
  <2>7. GainedContainers(x)  BY <2>2, <2>4 DEF GainedContainers
  <2> QED  BY <2>5, <2>6, <2>7
<1>3. CASE x \in Containers /\ ~ IsStored(x)
  <2> DEFINE here == {r \in Needs[x] : db.res[r] # "none"}
  <2>1. x \notin Resources /\ x \notin Deployments  BY <1>3, ObjectKinds
  <2>2. /\ \A e \in Containers :
             /\ db'.cont[e] = IF e = x THEN "Received" ELSE db.cont[e]
             /\ db'.missing[e] = IF e = x THEN Needs[x] \ here ELSE db.missing[e]
        /\ \A d \in Deployments :
             /\ db'.rows[d] = db.rows[d] \cup (db.lacks[d] \cap {x})
             /\ db'.lacks[d] = db.lacks[d] \ {x}
        /\ db'.dep = db.dep /\ db'.res = db.res
    BY <1>3, <2>1 DEF Creation, CreateContainer, Tables
  <2> HIDE DEF here
  <2>3. \A c \in Containers : IsStored(c)' <=> IsStored(c) \/ c = x
    BY <2>2 DEF IsStored
  <2>4. GainedObjects(x)
    BY <2>2, <2>3, ObjectKinds DEF HasRow, GainedObjects
  <2>5. \A d \in Deployments : \A c \in db'.rows[d] \ db.rows[d] :
          IsStored(c)' /\ c \in db.lacks[d]
    BY <1>3, <2>2, <2>3
  <2>6. \A d \in Deployments : db.rows[d] \subseteq db'.rows[d] /\ db'.lacks[d] \subseteq db.lacks[d]
    BY <2>2
  <2>7. GainedRows(x)  BY <2>1, <2>2, <2>5, <2>6 DEF GainedRows
  <2>8. GainedContainers(x)  BY <1>3, <2>2, <2>3 DEF GainedContainers
  <2> QED  BY <2>4, <2>7, <2>8
<1>4. CASE x \in Deployments
  <2> DEFINE here == {c \in Named(x) : IsStored(c)}
  <2>1. x \notin Resources /\ x \notin Containers  BY <1>4, ObjectKinds
  <2>2. /\ db'.cont = db.cont /\ db'.missing = db.missing /\ db'.res = db.res
        /\ \A e \in Deployments :
             /\ db'.rows[e] = IF e = x THEN db.rows[x] \cup here ELSE db.rows[e]
             /\ db'.lacks[e] = IF e = x THEN db.lacks[x] \cup (Named(x) \ here) ELSE db.lacks[e]
             /\ db'.dep[e] = IF e = x /\ db.dep[e] = "none" THEN "Received" ELSE db.dep[e]
    BY <1>4, <2>1 DEF Creation, CreateDeployment, Tables
  <2>3. \A c : IsStored(c)' <=> IsStored(c)  BY <2>2 DEF IsStored
  <2>4. \A c \in here : IsStored(c)  OBVIOUS
  <2> HIDE DEF here
  <2>5. GainedObjects(x)
    BY <2>2, <2>3, ObjectKinds DEF HasRow, GainedObjects
  <2>6. ASSUME NEW d \in Deployments, NEW c \in db'.rows[d] \ db.rows[d]
        PROVE  IsStored(c)' /\ d = x
    BY <2>2, <2>3, <2>4
  <2>7. GainedRows(x)  BY <2>2, <2>6 DEF GainedRows
  <2>8. GainedContainers(x)  BY <2>2, <2>3 DEF GainedContainers
  <2> QED  BY <2>5, <2>7, <2>8
<1> QED  BY <1>1, <1>2, <1>3, <1>4, ObjectKinds

(* Something is deleted: with it go the containers of S, and their rows.   *)
Lost(x, S) ==
    /\ \A d \in Deployments :
         IF d = x THEN db'.rows[d] = {} /\ db'.lacks[d] = {} /\ db'.dep[d] = "none"
         ELSE /\ db'.rows[d] = db.rows[d] \ S
              /\ db'.lacks[d] = db.lacks[d] /\ db'.dep[d] = db.dep[d]
    /\ \A c \in Containers :
         IF c \in S THEN ~ IsStored(c)' /\ db'.missing[c] = {}
         ELSE (IsStored(c)' <=> IsStored(c)) /\ db'.missing[c] = db.missing[c]
    /\ \A y \in Objects : HasRow(y)' => HasRow(y) /\ y # x

LEMMA WithoutAll ==
  ASSUME db \in Tables, NEW S
  PROVE  LET t == WithoutContainers(S) IN
         /\ t.lacks = db.lacks /\ t.dep = db.dep /\ t.res = db.res
         /\ \A d \in Deployments : t.rows[d] = db.rows[d] \ S
         /\ \A c \in Containers :
              /\ t.cont[c] = IF c \in S THEN "none" ELSE db.cont[c]
              /\ t.missing[c] = IF c \in S THEN {} ELSE db.missing[c]
BY DEF WithoutContainers, Tables

LEMMA DeletionFacts ==
  ASSUME db \in Tables, NEW x \in Objects, db' = Deletion(x)
  PROVE  \E S : Lost(x, S)
<1>1. CASE x \in Deployments
  <2>1. /\ db'.cont = db.cont /\ db'.missing = db.missing /\ db'.res = db.res
        /\ \A e \in Deployments :
             /\ db'.rows[e] = IF e = x THEN {} ELSE db.rows[e]
             /\ db'.lacks[e] = IF e = x THEN {} ELSE db.lacks[e]
             /\ db'.dep[e] = IF e = x THEN "none" ELSE db.dep[e]
    BY <1>1 DEF Deletion, DeleteDeployment, Tables
  <2>2. \A c : IsStored(c)' <=> IsStored(c)  BY <2>1 DEF IsStored
  <2>3. \A y \in Objects : HasRow(y)' => HasRow(y) /\ y # x
    BY <1>1, <2>1, <2>2, ObjectKinds DEF HasRow
  <2>4. Lost(x, {})  BY <2>1, <2>2, <2>3 DEF Lost
  <2> QED  BY <2>4
<1>2. CASE x \in Containers
  <2>1. x \notin Deployments  BY <1>2, ObjectKinds
  <2>2. db' = WithoutContainers({x})  BY <1>2, <2>1 DEF Deletion, DeleteContainer
  <2>3. /\ db'.lacks = db.lacks /\ db'.dep = db.dep /\ db'.res = db.res
        /\ \A d \in Deployments : db'.rows[d] = db.rows[d] \ {x}
        /\ \A c \in Containers :
             /\ db'.cont[c] = IF c \in {x} THEN "none" ELSE db.cont[c]
             /\ db'.missing[c] = IF c \in {x} THEN {} ELSE db.missing[c]
    BY <2>2, WithoutAll
  <2>4. \A c \in Containers : IsStored(c)' <=> IsStored(c) /\ c # x
    BY <2>3 DEF IsStored
  <2>5. \A y \in Objects : HasRow(y)' => HasRow(y) /\ y # x
    BY <1>2, <2>3, <2>4, ObjectKinds DEF HasRow
  <2>6. Lost(x, {x})  BY <2>1, <2>3, <2>4, <2>5 DEF Lost
  <2> QED  BY <2>6
<1>3. CASE x \in Resources /\ x \in Images
  <2> DEFINE S == {c \in Containers : x \in db.links[c]}
             new == WithoutContainers(S)
  <2>1. x \notin Deployments /\ x \notin Containers  BY <1>3, ObjectKinds
  <2>2. db' = [new EXCEPT !.res[x] = "none"]
    BY <1>3, <2>1 DEF Deletion, DeleteResource
  <2>3. /\ new \in Tables /\ new.lacks = db.lacks /\ new.dep = db.dep /\ new.res = db.res
        /\ \A d \in Deployments : new.rows[d] = db.rows[d] \ S
        /\ \A c \in Containers :
             /\ new.cont[c] = IF c \in S THEN "none" ELSE db.cont[c]
             /\ new.missing[c] = IF c \in S THEN {} ELSE db.missing[c]
    BY WithoutAll, WithoutType
  <2> HIDE DEF new, S
  <2>4. /\ db'.lacks = db.lacks /\ db'.dep = db.dep
        /\ db'.rows = new.rows /\ db'.cont = new.cont /\ db'.missing = new.missing
        /\ \A r \in Resources : db'.res[r] = IF r = x THEN "none" ELSE db.res[r]
    BY <2>2, <2>3 DEF Tables
  <2>5. \A c \in Containers : IsStored(c)' <=> IsStored(c) /\ c \notin S
    BY <2>3, <2>4 DEF IsStored
  <2>6. \A y \in Objects : HasRow(y)' => HasRow(y) /\ y # x
    BY <1>3, <2>4, <2>5, ObjectKinds DEF HasRow
  <2>7. Lost(x, S)  BY <2>1, <2>3, <2>4, <2>5, <2>6 DEF Lost
  <2> QED  BY <2>7
<1>4. CASE x \in Resources /\ x \notin Images
  <2>1. x \notin Deployments /\ x \notin Containers  BY <1>4, ObjectKinds
  <2>2. /\ db'.rows = db.rows /\ db'.lacks = db.lacks /\ db'.cont = db.cont
        /\ db'.missing = db.missing /\ db'.dep = db.dep
        /\ \A r \in Resources : db'.res[r] = IF r = x THEN "none" ELSE db.res[r]
    BY <1>4, <2>1 DEF Deletion, DeleteResource, Tables
  <2>3. \A c : IsStored(c)' <=> IsStored(c)  BY <2>2 DEF IsStored
  <2>4. \A y \in Objects : HasRow(y)' => HasRow(y) /\ y # x
    BY <1>4, <2>2, <2>3, ObjectKinds DEF HasRow
  <2>5. Lost(x, {})  BY <2>1, <2>2, <2>3, <2>4 DEF Lost
  <2> QED  BY <2>5
<1> QED  BY <1>1, <1>2, <1>3, <1>4, ObjectKinds

(* Rows are rows of what is stored, and nothing is stored before the       *)
(* server has asked for it.                                                *)
RowsStored ==
    \A d \in Deployments :
      /\ \A c \in db.rows[d] : IsStored(c)
      /\ db.dep[d] = "none" => db.rows[d] = {} /\ db.lacks[d] = {}
Born == unborn \subseteq Objects /\ \A x \in unborn : ~ HasRow(x)
Filed == RowsStored /\ Born

LEMMA FiledNext ==
  ASSUME Typed, Worked, Filed, StoreStep
  PROVE  Filed'
<1>1. db \in Tables /\ \A d \in Deployments : db.rows[d] \subseteq Containers
  BY DEF Typed, TypeOK, Tables
<1>2. CASE UNCHANGED db /\ unborn' \subseteq unborn
  BY <1>2 DEF Filed, RowsStored, Born, IsStored, HasRow
<1>3. CASE Creating
  <2>1. PICK x \in unborn \cap Objects : unborn' = unborn \ {x} /\ db' = Creation(x)
    BY <1>3 DEF Creating
  <2>4. GainedRows(x) /\ GainedContainers(x) /\ GainedObjects(x)
    BY <1>1, <2>1, CreationFacts DEF Gained
  <2>2. Born'  BY <2>1, <2>4 DEF Filed, Born, GainedObjects
  <2>3. ASSUME NEW d \in Deployments
        PROVE  /\ \A c \in db'.rows[d] : IsStored(c)'
               /\ db'.dep[d] = "none" => db'.rows[d] = {} /\ db'.lacks[d] = {}
    <3>1. \A c \in db'.rows[d] : IsStored(c)'
      BY <1>1, <2>4 DEF Filed, RowsStored, GainedRows, GainedContainers
    <3>2. ASSUME db'.dep[d] = "none"  PROVE db'.rows[d] = {} /\ db'.lacks[d] = {}
      <4>1. d # x /\ db.dep[d] = "none" /\ db'.lacks[d] \subseteq db.lacks[d]
        BY <2>4, <3>2 DEF GainedRows
      <4>2. db.rows[d] = {} /\ db.lacks[d] = {}  BY <4>1 DEF Filed, RowsStored
      <4>3. \A c \in db'.rows[d] \ db.rows[d] : c \in db.lacks[d]
        BY <2>4, <4>1 DEF GainedRows
      <4> QED  BY <4>1, <4>2, <4>3
    <3> QED  BY <3>1, <3>2
  <2> QED  BY <2>2, <2>3 DEF Filed, RowsStored
<1>4. CASE UNCHANGED unborn /\ Setting
  <2>1. Born'  BY <1>1, <1>4, SettingFacts DEF Filed, Born
  <2>2. RowsStored'  BY <1>1, <1>4, SettingFacts DEF Filed, RowsStored
  <2> QED  BY <2>1, <2>2 DEF Filed
<1>5. CASE UNCHANGED unborn /\ Dropping
  <2>1. Subject \in Objects  BY <1>5, DoingFacts DEF Dropping, Drop, Typed
  <2>2. PICK S : Lost(Subject, S)
    BY <1>1, <1>5, <2>1, DeletionFacts DEF Dropping
  <2>3. Born'  BY <1>5, <2>2 DEF Filed, Born, Lost
  <2>4. RowsStored'
    <3> SUFFICES ASSUME NEW d \in Deployments
                 PROVE  /\ \A c \in db'.rows[d] : IsStored(c)'
                        /\ db'.dep[d] = "none" => db'.rows[d] = {} /\ db'.lacks[d] = {}
      BY DEF RowsStored
    <3>1. CASE d = Subject  BY <2>2, <3>1 DEF Lost
    <3>2. CASE d # Subject
      BY <1>1, <2>2, <3>2 DEF Lost, Filed, RowsStored
    <3> QED  BY <3>1, <3>2
  <2> QED  BY <2>3, <2>4 DEF Filed
<1> QED  BY <1>2, <1>3, <1>4, <1>5 DEF StoreStep

-----------------------------------------------------------------------------
(* An update leaves alone what both deployments have.                      *)

(* The rows of the new deployment were complete when the update began, and *)
(* a deployment gets rows only while it lacks some.                        *)
UpdateOK ==
    op.kind = "update" =>
      /\ op.to \in Deployments /\ op.to \notin unborn /\ db.lacks[op.to] = {}
      /\ \A s \in Members(todo) : s.do \in {"stop", "halt"} => s.x \notin db.rows[op.to]

(* No container comes to a deployment that lacks none.                     *)
LEMMA RowsStay ==
  ASSUME Typed, StoreStep, NEW d \in Deployments, d \notin unborn, db.lacks[d] = {}
  PROVE  /\ d \notin unborn' /\ db'.lacks[d] = {} /\ db'.rows[d] \subseteq db.rows[d]
<1>1. db \in Tables  BY DEF Typed, TypeOK
<1>2. CASE UNCHANGED db /\ unborn' \subseteq unborn  BY <1>2
<1>3. CASE Creating
  <2>1. PICK x \in unborn \cap Objects : unborn' = unborn \ {x} /\ db' = Creation(x)
    BY <1>3 DEF Creating
  <2>2. d # x /\ d \notin unborn'  BY <2>1
  <2>3. GainedRows(x)  BY <1>1, <2>1, CreationFacts DEF Gained
  <2> QED  BY <2>2, <2>3 DEF GainedRows
<1>4. CASE UNCHANGED unborn /\ Setting  BY <1>1, <1>4, SettingFacts
<1>5. CASE UNCHANGED unborn /\ Dropping
  <2>1. Subject \in Objects  BY <1>5, DoingFacts DEF Dropping, Drop, Typed
  <2>2. PICK S : Lost(Subject, S)
    BY <1>1, <1>5, <2>1, DeletionFacts DEF Dropping
  <2> QED  BY <1>5, <2>2 DEF Lost
<1> QED  BY <1>2, <1>3, <1>4, <1>5 DEF StoreStep

LEMMA UpdateOKNext ==
  ASSUME Typed, Worked, Filed, UpdateOK, StoreStep, [Next]_vars
  PROVE  UpdateOK'
<1>1. OpOK /\ Fits /\ Subjects(todo) /\ db \in Tables  BY DEF Typed, TypeOK, Worked
(* As long as the update goes on, and its steps are those it had.          *)
<1>2. ASSUME op.kind = "update" => op'.to = op.to /\
               \A s \in Members(todo') \ Members(todo) :
                 s.do \in {"stop", "halt"} => s.x \notin db.rows[op.to],
             op'.kind = "update" => op.kind = "update"
      PROVE  UpdateOK'
  <2> SUFFICES ASSUME op'.kind = "update"
               PROVE  /\ op'.to \in Deployments /\ op'.to \notin unborn'
                      /\ db'.lacks[op'.to] = {}
                      /\ \A s \in Members(todo') :
                           s.do \in {"stop", "halt"} => s.x \notin db'.rows[op'.to]
    BY DEF UpdateOK, Members
  <2>1. /\ op'.to = op.to /\ op.to \in Deployments /\ op.to \notin unborn
        /\ db.lacks[op.to] = {}
    BY <1>2 DEF UpdateOK
  <2>2. /\ op.to \notin unborn' /\ db'.lacks[op.to] = {}
        /\ db'.rows[op.to] \subseteq db.rows[op.to]
    BY <2>1, RowsStay
  <2> QED  BY <1>2, <2>1, <2>2 DEF UpdateOK
<1>3. ASSUME UNCHANGED <<op, todo>>  PROVE UpdateOK'
  <2>1. Members(todo') = Members(todo)  BY <1>3 DEF Members
  <2> QED  BY <1>2, <1>3, <2>1
<1>4. ASSUME op'.kind # "update"  PROVE UpdateOK'
  BY <1>4 DEF UpdateOK
<1>5. ASSUME NEW D, NotFound(D), op = Idle  PROVE UpdateOK'
  BY <1>4, <1>5, IdleFacts DEF NotFound
<1>6. CASE TakeEvent
  <2> DEFINE e == Head(queue)
  <2>1. e \in Events /\ BeginEvent(e) /\ op = Idle /\ UNCHANGED <<db, unborn>>
    BY <1>6, HeadTailProperties DEF TakeEvent, Typed, TypeOK, storeVars
  <2> HIDE DEF e
  <2>2. CASE e.x \in Deployments /\ e.to \in Deployments /\ BeginUpdate(e.x, e.to)
    <3>1. CASE /\ op'.kind = "update" /\ op'.x = e.x /\ op'.to = e.to
               /\ IsComplete(e.to)
               /\ \A s \in Members(todo') :
                    \/ s.do = "stop" /\ s.x \in db.rows[e.x] \ db.rows[e.to]
                    \/ s.do = "reportStopped"
                    \/ s.do = "up" /\ s.x \in Resources \cup Joined(e.to)
                    \/ s.do = "reportStarted"
      <4>1. db.dep[e.to] # "none" /\ db.lacks[e.to] = {}  BY <3>1 DEF IsComplete
      <4>2. e.to \notin unborn
        <5>1. HasRow(e.to)  BY <2>2, <4>1 DEF HasRow
        <5> QED  BY <5>1 DEF Filed, Born
      <4>3. \A s \in Members(todo') :
              s.do \in {"stop", "halt"} => s.x \notin db.rows[e.to]
        BY <3>1
      <4>4. /\ op'.to \in Deployments /\ op'.to \notin unborn'
            /\ db'.lacks[op'.to] = {}
            /\ \A s \in Members(todo') :
                 s.do \in {"stop", "halt"} => s.x \notin db'.rows[op'.to]
        BY <2>1, <2>2, <3>1, <4>1, <4>2, <4>3
      <4> QED  BY <4>4 DEF UpdateOK, Members
    <3> QED  BY <1>1, <1>5, <2>1, <2>2, <3>1, UpdateBegins
  <2>3. CASE e.x \in Objects /\ BeginPublish(e.x)
    BY <1>4, <2>3, PublishBegins
  <2>4. CASE e.x \in Containers /\ BeginRefresh(e.x)
    BY <1>4, <2>4, RefreshBegins
  <2>5. CASE e.x \in Deployments /\ BeginStart(e.x)
    BY <1>1, <1>4, <1>5, <2>1, <2>5, StartBegins
  <2>6. CASE e.x \in Deployments /\ BeginStop(e.x)
    BY <1>1, <1>4, <1>5, <2>1, <2>6, StopBegins
  <2>7. CASE e.x \in Deployments /\ BeginDelete(e.x)
    BY <1>1, <1>4, <1>5, <2>1, <2>7, DeleteBegins
  <2> QED  BY <2>1, <2>2, <2>3, <2>4, <2>5, <2>6, <2>7, EventBegins
<1>7. ASSUME NEW x \in batch, TakeLoaded(x)  PROVE UpdateOK'
  <2>1. x \in Objects /\ op = Idle  BY <1>7, LoadedBegins
  <2>2. CASE BeginPublish(x)  BY <1>4, <2>1, <2>2, PublishBegins
  <2>3. CASE x \in Deployments /\ BeginStart(x)
    BY <1>1, <1>4, <1>5, <2>1, <2>3, StartBegins
  <2>4. CASE x \in Deployments /\ BeginStop(x)
    BY <1>1, <1>4, <1>5, <2>1, <2>4, StopBegins
  <2>5. CASE x \in Deployments /\ BeginDelete(x)
    BY <1>1, <1>4, <1>5, <2>1, <2>5, DeleteBegins
  <2> QED  BY <1>7, <2>2, <2>3, <2>4, <2>5, LoadedBegins
<1>8. ASSUME Fail  PROVE UpdateOK'
  BY <1>1, <1>4, <1>8, Fails, IdleFacts
<1>9. ASSUME NEW s \in Seq(Steps), Continue(s), todo # <<>>,
             op.kind = "update" => \A m \in Members(s) :
               m.do \in {"stop", "halt"} => m.x \notin db.rows[op.to]
      PROVE  UpdateOK'
  <2>1. op' = op /\ Members(todo') \subseteq Members(s) \cup Members(todo)
    BY <1>1, <1>9, GoesOn
  <2> QED  BY <1>2, <1>9, <2>1
<1>10. CASE StopLook
  <2>1. Look("stop", StopSteps)  BY <1>10 DEF StopLook, StopSteps
  <2>2. todo # <<>> /\ Subject \in Objects /\ Head(todo) \in Members(todo)
        /\ Head(todo).do = "stop"
    BY <1>1, <2>1, DoingFacts DEF Look
  <2>3. op.kind = "update" => Subject \notin db.rows[op.to]
    BY <2>2 DEF UpdateOK, Subject
  <2>4. StopSteps \in Seq(Steps) /\ \A m \in Members(StopSteps) : m.x = Subject
    BY <2>2, LookDos
  <2> QED  BY <1>8, <1>9, <2>1, <2>2, <2>3, <2>4 DEF Look
<1>11. CASE Down
  <2>1. Look("down", DownSteps)  BY <1>11 DEF Down, DownSteps
  <2>2. Doing("down") /\ todo # <<>> /\ Subject \in Objects
    BY <1>1, <2>1, DoingFacts DEF Look
  <2>3. "down" \in Does[op.kind]  BY <1>1, <2>2, DoesFacts
  <2>4. op.kind # "update"  BY <2>3 DEF Does, StopDos, StartDos
  <2>5. DownSteps \in Seq(Steps)  BY <2>2, LookDos
  <2> QED  BY <1>8, <1>9, <2>1, <2>2, <2>4, <2>5 DEF Look
<1>12. CASE Up
  <2>1. Look("up", UpSteps)  BY <1>12 DEF Up, UpSteps
  <2>2. todo # <<>> /\ Subject \in Objects
    BY <1>1, <2>1, DoingFacts DEF Look
  <2>3. /\ UpSteps \in Seq(Steps)
        /\ \A m \in Members(UpSteps) : m.do \in {"create", "created", "start", "started"}
    BY <2>2, LookDos
  <2>4. \A m \in Members(UpSteps) : m.do \notin {"stop", "halt"}  BY <2>3
  <2> QED  BY <1>8, <1>9, <2>1, <2>2, <2>3, <2>4 DEF Look
<1>13. CASE RestartLook
  <2>1. Look("restart", RestartSteps)  BY <1>13 DEF RestartLook, RestartSteps
  <2>2. todo # <<>> /\ Subject \in Objects
    BY <1>1, <2>1, DoingFacts DEF Look
  <2>3. /\ RestartSteps \in Seq(Steps)
        /\ \A m \in Members(RestartSteps) : m.do \in {"start", "started"}
    BY <2>2, LookDos
  <2>4. \A m \in Members(RestartSteps) : m.do \notin {"stop", "halt"}  BY <2>3
  <2> QED  BY <1>8, <1>9, <2>1, <2>2, <2>3, <2>4 DEF Look
<1>14. ASSUME todo # <<>>, Fail \/ Continue(<<>>)  PROVE UpdateOK'
  BY <1>8, <1>9, <1>14, NoSteps
<1>15. ASSUME NEW do, Doing(do)  PROVE todo # <<>>
  BY <1>1, <1>15, DoingFacts
<1>16. CASE \/ Publish \/ Fetch \/ Create \/ Created \/ Start \/ Started \/ Halt
            \/ Stopped \/ RemoveObject \/ Unset \/ Drop \/ Report
  BY <1>14, <1>15, <1>16 DEF Publish, Fetch, Create, Created, Start, Started, Halt,
     Stopped, RemoveObject, Unset, Drop, Report, Record, MarkMissing
<1>17. CASE Finish
  BY <1>4, <1>17, IdleFacts DEF Finish
<1>18. CASE CallFails  BY <1>8, <1>18 DEF CallFails
<1>19. CASE Crash \/ Disconnected
  BY <1>4, <1>19, IdleFacts DEF Crash, Disconnected, Restart
<1>20. CASE ServiceStep
  <2>1. CASE NextPhase  BY <1>3, <2>1 DEF NextPhase
  <2> QED
    BY <1>6, <1>7, <1>10, <1>11, <1>12, <1>13, <1>16, <1>17, <1>20, <2>1 DEF ServiceStep
<1> QED
  BY <1>3, <1>18, <1>19, <1>20
     DEF Next, ReceiveCreation, ReceiveCommand, ReceiveUpdate, Persist, SendEvent,
         ChangeOutside, Listen, Rest, vars, serviceVars

(* What a step does to a container that runs.                              *)
LEMMA StopsRunning ==
  ASSUME Typed, Worked, [Next]_vars, NEW c \in Containers,
         docker[c] = "running", docker'[c] # "running"
  PROVE  \/ Halt /\ Doing("halt") /\ Subject = c
         \/ outside' = outside + 1 /\ c \in noticed'
<1>1. OpOK /\ docker \in [Containers -> DockerStates]  BY DEF Typed, TypeOK
<1>2. CASE Start
  BY <1>1, <1>2, DoingFacts DEF Start
<1>3. CASE Create
  BY <1>1, <1>3, DoingFacts DEF Create, dockerVars
<1>4. CASE Halt
  BY <1>1, <1>4, DoingFacts DEF Halt
<1>5. CASE RemoveObject
  BY <1>1, <1>5, DoingFacts DEF RemoveObject, dockerVars
<1>6. ASSUME NEW e \in Containers, ChangeOutside(e)  PROVE outside' = outside + 1 /\ c \in noticed'
  BY <1>1, <1>6 DEF ChangeOutside
<1>7. ~ UNCHANGED docker  OBVIOUS
<1> QED
  BY <1>2, <1>3, <1>4, <1>5, <1>6, <1>7
     DEF Next, ServiceStep, TakeEvent, NextPhase, TakeLoaded, Publish, Fetch, Up,
         StopLook, RestartLook, Down, Look, Created, Started, Stopped, Record, Unset,
         Drop, Report, Finish, CallFails, Listen, Crash, Disconnected, Restart, Rest,
         ReceiveCreation, ReceiveCommand, ReceiveUpdate, Persist, SendEvent, vars,
         dockerVars

(* The invariant of the service: what its steps are about, what is stored, *)
(* and what an update leaves alone.                                        *)
Serviced == Worked /\ Filed /\ UpdateOK

LEMMA ServicedInit ==
  ASSUME Init
  PROVE  Serviced
<1>1. op = Idle /\ todo = <<>> /\ phase = "boot" /\ batch = {} /\ unborn = Objects \ Known
  BY DEF Init
<1>2. Worked
  BY <1>1, IdleFacts, NoSteps DEF Worked, Fits, InPhase, PhaseDoes, Subjects
<1>3. /\ \A d \in Deployments : db.dep[d] = "none" /\ db.rows[d] = {} /\ db.lacks[d] = {}
      /\ \A c \in Containers : db.cont[c] = IF c \in Known THEN "Published" ELSE "none"
      /\ \A r \in Resources : db.res[r] = IF r \in Known THEN "Published" ELSE "none"
  BY DEF Init, NoRows
<1>4. RowsStored  BY <1>3 DEF RowsStored
<1>5. Born  BY <1>1, <1>3, ObjectKinds DEF Born, HasRow, IsStored
<1>6. UpdateOK  BY <1>1, IdleFacts DEF UpdateOK
<1> QED  BY <1>2, <1>4, <1>5, <1>6 DEF Serviced, Filed

LEMMA ServicedNext ==
  ASSUME Typed, Serviced, [Next]_vars
  PROVE  Serviced'
<1>1. StoreStep  BY StoreSteps DEF Serviced
<1> QED  BY <1>1, WorkedNext, FiledNext, UpdateOKNext DEF Serviced

(* The operation that is under way does only what belongs to it, and an    *)
(* update never has a step that stops what the new deployment has          *)
(* (load_deployment_containers_update_from).                               *)
THEOREM ServicedAlways == Spec => []Serviced
<1>1. Init => Serviced  BY ServicedInit
<1>2. Typed /\ Serviced /\ [Next]_vars => Serviced'  BY ServicedNext
<1> QED  BY <1>1, <1>2, Wellformed, PTL DEF Spec

(* UpdateKeepsShared: an update does not stop the containers that both     *)
(* deployments have (Service::update), for any deployments.                *)
THEOREM SharedKept == Spec => UpdateKeepsShared
<1>1. Typed /\ Serviced /\ [Next]_vars =>
        [op.kind = "update" /\ outside' = outside =>
           \A c \in db.rows[op.x] \cap db.rows[op.to] :
             docker[c] = "running" => docker'[c] = "running"]_vars
  <2> SUFFICES ASSUME Typed, Serviced, [Next]_vars, op.kind = "update",
                      outside' = outside, NEW c \in db.rows[op.x] \cap db.rows[op.to],
                      docker[c] = "running", docker'[c] # "running"
               PROVE  FALSE
    OBVIOUS
  <2>1. op.to \in Deployments /\ outside \in Nat /\ db \in Tables
    BY DEF Serviced, UpdateOK, Typed, TypeOK
  <2>2. c \in Containers  BY <2>1 DEF Tables
  <2>3. Doing("halt") /\ Subject = c  BY <2>1, <2>2, StopsRunning DEF Serviced
  <2>4. Head(todo) \in Members(todo) /\ Head(todo).do = "halt"
    BY <2>3, DoingFacts DEF Typed
  <2>5. c \notin db.rows[op.to]  BY <2>3, <2>4 DEF Serviced, UpdateOK, Subject
  <2> QED  BY <2>5
<1> QED  BY <1>1, Wellformed, ServicedAlways, PTL DEF Spec, UpdateKeepsShared

-----------------------------------------------------------------------------
(* What happens in a step, apart from what it does to the data.            *)

Failing == todo # <<>> /\ Fail /\ (Work \/ CallFails)
Working == /\ todo # <<>> /\ Subject \in Objects /\ Work
           /\ \E s \in Seq(Steps) : Continue(s) /\ Adds(s, Subject) /\ Small(s)
Ending  == phase' = "boot" /\ Restart
Apart   == UNCHANGED serviceVars /\ errors \subseteq errors'

LEMMA Happens ==
  ASSUME Typed, Worked, [Next]_vars
  PROVE  \/ TakeEvent \/ NextPhase \/ (\E x \in batch : TakeLoaded(x)) \/ Finish
         \/ Failing \/ Working \/ Ending \/ Apart
<1>1. CASE Work
  BY <1>1, WorkGoes DEF Worked, Typed, Failing, Working
<1>2. CASE CallFails
  BY <1>2 DEF CallFails, Failing
<1>3. CASE Crash \/ Disconnected
  BY <1>3 DEF Crash, Disconnected, Restart, Ending
<1>4. ASSUME UNCHANGED serviceVars, errors \subseteq errors'  PROVE Apart
  BY <1>4 DEF Apart
<1>5. ASSUME NEW e, NEW possible, NEW tables, Persist(e, possible, tables)  PROVE Apart
  BY <1>4, <1>5 DEF Persist
<1>6. CASE \/ \E x \in Objects : ReceiveCreation(x)
           \/ \E kind \in DOMAIN CommandStatus, d \in Deployments : ReceiveCommand(kind, d)
           \/ \E from, to \in Deployments : ReceiveUpdate(from, to)
  BY <1>5, <1>6 DEF ReceiveCreation, ReceiveCommand, ReceiveUpdate
<1>7. CASE SendEvent \/ (\E c \in Containers : ChangeOutside(c) \/ Listen(c))
           \/ Rest \/ UNCHANGED vars
  BY <1>4, <1>7 DEF SendEvent, ChangeOutside, Listen, Rest, vars
<1> QED
  BY <1>1, <1>2, <1>3, <1>6, <1>7 DEF Next, ServiceStep, Work

(* A step that is not the first stays.                                     *)
LEMMA MembersStay ==
  ASSUME OpOK, todo # <<>>, NEW s \in Seq(Steps), Continue(s)
  PROVE  /\ Members(s) \subseteq Members(todo')
         /\ \A m \in Members(todo) : m = Head(todo) \/ m \in Members(todo')
<1>1. todo \in Seq(Steps) /\ todo' = s \o Tail(todo)  BY GoesOn DEF OpOK
<1>2. Tail(todo) \in Seq(Steps)  BY <1>1, TailMembers
<1>3. Members(todo') = Members(s) \cup Members(Tail(todo))
  BY <1>1, <1>2, ConcatBoth
<1>4. ASSUME NEW m \in Members(todo), m # Head(todo)  PROVE m \in Members(Tail(todo))
  <2>1. PICK n \in DOMAIN todo : todo[n] = m  BY DEF Members
  <2>2. /\ DOMAIN todo = 1..Len(todo) /\ Len(todo) \in Nat
        /\ Head(todo) = todo[1]
        /\ Len(Tail(todo)) = Len(todo) - 1
        /\ \A k \in 1..Len(todo) - 1 : Tail(todo)[k] = todo[k + 1]
        /\ DOMAIN Tail(todo) = 1..Len(Tail(todo))
    BY <1>1, <1>2, HeadTailProperties, LenProperties
  <2>3. n # 1  BY <1>4, <2>1, <2>2
  <2>4. n - 1 \in DOMAIN Tail(todo) /\ Tail(todo)[n - 1] = m  BY <2>1, <2>2, <2>3
  <2> QED  BY <2>4 DEF Members
<1> QED  BY <1>3, <1>4

(* The head of what is left, when a step is known to be the first.         *)
LEMMA HeadIs ==
  ASSUME OpOK, todo # <<>>
  PROVE  /\ Head(todo) \in Members(todo) /\ Head(todo) \in Steps
         /\ Head(todo) = Step(Head(todo).do, Subject)
<1>1. Head(todo) \in Members(todo) /\ Head(todo) \in Steps
  BY TailMembers DEF OpOK
<1>2. Head(todo) = Step(Head(todo).do, Head(todo).x)  BY <1>1 DEF Steps, Step
<1> QED  BY <1>1, <1>2 DEF Subject

-----------------------------------------------------------------------------
(* What becomes of the requests, the rows and the containers.              *)

(* The event of a request about d is on its way to the service.            *)
Pending(d) == sending \in About(d) \/ \E n \in DOMAIN queue : queue[n] \in About(d)

LEMMA AppendFacts ==
  ASSUME NEW S, NEW q \in Seq(S), NEW e \in S
  PROVE  /\ DOMAIN q \subseteq DOMAIN Append(q, e)
         /\ \A n \in DOMAIN q : Append(q, e)[n] = q[n]
         /\ Len(q) + 1 \in DOMAIN Append(q, e) /\ Append(q, e)[Len(q) + 1] = e
<1>1. /\ Append(q, e) \in Seq(S) /\ Len(Append(q, e)) = Len(q) + 1
      /\ \A n \in 1..Len(q) : Append(q, e)[n] = q[n]
      /\ Append(q, e)[Len(q) + 1] = e
  BY AppendProperties
<1>2. DOMAIN q = 1..Len(q) /\ Len(q) \in Nat
      /\ DOMAIN Append(q, e) = 1..Len(Append(q, e))
  BY <1>1, LenProperties
<1> QED  BY <1>1, <1>2

(* It stays so until the service takes an event, or the runtime restarts.  *)
LEMMA PendingStays ==
  ASSUME Typed, [Next]_vars, ~ TakeEvent, phase' # "boot",
         NEW d \in Deployments, Pending(d)
  PROVE  Pending(d)'
<1>1. queue \in Seq(Events) /\ sending \in Events \cup {None} /\ None \notin About(d)
  BY NoneAssumption DEF Typed, TypeOK, About
<1>2. About(d)' = About(d)
  BY DEF About
<1>3. ASSUME UNCHANGED <<sending, queue>>  PROVE Pending(d)'
  BY <1>2, <1>3 DEF Pending
<1>4. ASSUME NEW e, NEW possible, NEW tables, Persist(e, possible, tables)
      PROVE  Pending(d)'
  <2>1. sending = None /\ queue' = queue  BY <1>4 DEF Persist
  <2> QED  BY <1>1, <1>2, <2>1 DEF Pending
<1>5. ASSUME NEW e \in Events, queue' = Append(queue, e),
             sending' = sending \/ (sending' = None /\ e = sending)
      PROVE  Pending(d)'
  <2>1. \A n \in DOMAIN queue : n \in DOMAIN queue' /\ queue'[n] = queue[n]
    BY <1>1, <1>5, AppendFacts
  <2>2. Len(queue) + 1 \in DOMAIN queue' /\ queue'[Len(queue) + 1] = e
    BY <1>1, <1>5, AppendFacts
  <2>3. CASE \E n \in DOMAIN queue : queue[n] \in About(d)
    BY <1>2, <2>1, <2>3 DEF Pending
  <2>4. CASE sending \in About(d)
    BY <1>2, <1>5, <2>2, <2>4 DEF Pending
  <2> QED  BY <2>3, <2>4 DEF Pending
<1>6. CASE \/ \E x \in Objects : ReceiveCreation(x)
           \/ \E kind \in DOMAIN CommandStatus, e \in Deployments : ReceiveCommand(kind, e)
           \/ \E from, to \in Deployments : ReceiveUpdate(from, to)
  BY <1>4, <1>6 DEF ReceiveCreation, ReceiveCommand, ReceiveUpdate
<1>7. CASE SendEvent
  <2>1. sending \in Events /\ queue' = Append(queue, sending) /\ sending' = None
    BY <1>1, <1>7 DEF SendEvent
  <2> QED  BY <1>5, <2>1
<1>8. ASSUME NEW c \in Containers, Listen(c)  PROVE Pending(d)'
  <2>1. Event("refresh", c) \in Events  BY DEF Events, Refreshes
  <2> QED  BY <1>3, <1>5, <1>8, <2>1 DEF Listen
<1>9. CASE Crash \/ Disconnected
  BY <1>9 DEF Crash, Disconnected, Restart
<1>10. CASE ServiceStep
  BY <1>3, <1>10
     DEF ServiceStep, NextPhase, TakeLoaded, Publish, Fetch, Up, StopLook, RestartLook,
         Down, Look, Create, Created, Started, Stopped, Record, Start, Halt, RemoveObject,
         Unset, Drop, Report, Finish, StepOnly
<1>11. CASE CallFails \/ Rest \/ UNCHANGED vars \/ (\E c \in Containers : ChangeOutside(c))
  BY <1>3, <1>11 DEF CallFails, Rest, ChangeOutside, vars
<1> QED
  BY <1>6, <1>7, <1>8, <1>9, <1>10, <1>11 DEF Next

(* The status of a deployment is what a request sets, whose event is on    *)
(* its way, or what the service sets when it publishes or deletes it.      *)
LEMMA StatusChanges ==
  ASSUME Typed, Worked, [Next]_vars, NEW d \in Deployments, db'.dep[d] # db.dep[d]
  PROVE  \/ Pending(d)'
         \/ Publish /\ Subject = d /\ db'.dep[d] = "Stopped"
         \/ Drop /\ Subject = d /\ db'.dep[d] = "none"
<1>1. OpOK /\ db \in Tables  BY DEF Typed, TypeOK
<1>2. db' # db  OBVIOUS
<1>3. ASSUME NEW e, e \in About(d), sending' = e  PROVE Pending(d)'
  <2>1. About(d)' = About(d)  BY DEF About
  <2> QED  BY <1>3, <2>1 DEF Pending
<1>4. ASSUME NEW x \in Objects, ReceiveCreation(x)  PROVE Pending(d)'
  <2>1. Persist(Event("publish", x), TRUE, Creation(x))
    BY <1>4 DEF ReceiveCreation, Creation
  <2>2. db' = Creation(x) /\ sending' = Event("publish", x)
    BY <1>2, <2>1 DEF Persist
  <2>3. x = d  BY <1>1, <2>2, CreationFacts DEF Gained, GainedRows
  <2>4. Event("publish", x) \in About(d)
    BY <2>3 DEF About, Event, Events, Creations
  <2> QED  BY <1>3, <2>2, <2>4
<1>5. ASSUME NEW kind \in DOMAIN CommandStatus, NEW e \in Deployments,
             ReceiveCommand(kind, e)
      PROVE  Pending(d)'
  <2>1. db' = SetDeployment(e, CommandStatus[kind]) /\ sending' = Event(kind, e)
    BY <1>2, <1>5 DEF ReceiveCommand, Persist
  <2>2. e = d  BY <1>1, <2>1 DEF SetDeployment, Tables
  <2>3. kind \in {"start", "stop", "delete"}  BY DEF CommandStatus
  <2>4. Event(kind, e) \in About(d)
    BY <2>2, <2>3 DEF About, Event, Events, Commands
  <2> QED  BY <1>3, <2>1, <2>4
<1>6. ASSUME NEW from \in Deployments, NEW to \in Deployments, ReceiveUpdate(from, to)
      PROVE  Pending(d)'
  <2>1. db' = UpdateDeployments(from, to) /\ sending' = Update(from, to)
    BY <1>2, <1>6 DEF ReceiveUpdate, Persist
  <2>2. d \in {from, to}  BY <1>1, <2>1 DEF UpdateDeployments, Tables
  <2>3. Update(from, to) \in Commands  BY DEF Commands
  <2>4. Update(from, to) \in About(d)
    BY <2>2, <2>3 DEF About, Update, Events
  <2> QED  BY <1>3, <2>1, <2>4
<1>7. ASSUME NEW do, Doing(do)  PROVE Subject \in Objects
  BY <1>1, <1>7, DoingFacts
<1>8. ASSUME NEW c, NEW status, db' = SetContainer(c, status)  PROVE FALSE
  BY <1>1, <1>8 DEF SetContainer, Tables
<1>9. ASSUME NEW r, NEW status, db' = SetResource(r, status)  PROVE FALSE
  BY <1>1, <1>9 DEF SetResource, Tables
<1>10. CASE Publish
  <2>1. Subject \in Deployments /\ db' = SetDeployment(Subject, "Stopped")
    BY <1>2, <1>8, <1>9, <1>10 DEF Publish
  <2> QED  BY <1>1, <1>10, <2>1 DEF SetDeployment, Tables
<1>11. CASE Drop
  <2>1. Subject \in Objects /\ db' = Deletion(Subject)
    BY <1>2, <1>7, <1>11 DEF Drop, Deletion
  <2>2. PICK S : Lost(Subject, S)  BY <1>1, <2>1, DeletionFacts
  <2> QED  BY <1>11, <2>2 DEF Lost
<1>12. CASE Created \/ Started \/ Stopped \/ Start \/ Halt
  BY <1>2, <1>8, <1>9, <1>12
     DEF Created, Started, Stopped, Record, Start, Halt, MarkMissing, storeVars
<1>13. CASE ServiceStep
  BY <1>2, <1>10, <1>11, <1>12, <1>13
     DEF ServiceStep, TakeEvent, NextPhase, TakeLoaded, Fetch, Up, StopLook,
         RestartLook, Down, Look, Create, RemoveObject, Unset, Report, Finish, storeVars
<1> QED
  BY <1>2, <1>4, <1>5, <1>6, <1>13
     DEF Next, SendEvent, CallFails, ChangeOutside, Listen, Crash, Disconnected,
         Restart, Rest, vars, storeVars

(* A deployment loses rows only when something is deleted.                 *)
LEMMA RowsGrow ==
  ASSUME Typed, Worked, StoreStep, op.kind # "delete", NEW d \in Deployments
  PROVE  db.rows[d] \subseteq db'.rows[d]
<1>1. OpOK /\ db \in Tables  BY DEF Typed, TypeOK
<1>2. CASE UNCHANGED db  BY <1>2
<1>3. CASE Creating
  BY <1>1, <1>3, CreationFacts DEF Creating, Gained, GainedRows
<1>4. CASE Setting  BY <1>1, <1>4, SettingFacts
<1>5. ~ Dropping
  <2>1. \A kind \in Kinds \ {"delete"} : "drop" \notin Does[kind]
    BY DEF Kinds, Does, StopDos, StartDos
  <2>2. Doing("drop") => "drop" \in Does[op.kind] /\ op.kind \in Kinds
    BY <1>1, DoesFacts DEF Worked
  <2> QED  BY <2>1, <2>2 DEF Dropping, Drop
<1> QED  BY <1>2, <1>3, <1>4, <1>5 DEF StoreStep

(* Only the service starts a container.                                    *)
LEMMA StartsRunning ==
  ASSUME Typed, [Next]_vars, NEW c \in Containers,
         docker[c] # "running", docker'[c] = "running"
  PROVE  Start /\ Doing("start") /\ Subject = c
<1>1. OpOK /\ docker \in [Containers -> DockerStates]  BY DEF Typed, TypeOK
<1>2. CASE Start
  BY <1>1, <1>2, DoingFacts DEF Start
<1>3. CASE Create
  BY <1>1, <1>3, DoingFacts DEF Create, dockerVars
<1>4. CASE Halt
  BY <1>1, <1>4, DoingFacts DEF Halt
<1>5. CASE RemoveObject
  BY <1>1, <1>5, DoingFacts DEF RemoveObject, dockerVars
<1>6. ASSUME NEW e \in Containers, ChangeOutside(e)  PROVE FALSE
  BY <1>1, <1>6 DEF ChangeOutside
<1>7. ~ UNCHANGED docker  OBVIOUS
<1> QED
  BY <1>2, <1>3, <1>4, <1>5, <1>6, <1>7
     DEF Next, ServiceStep, TakeEvent, NextPhase, TakeLoaded, Publish, Fetch, Up,
         StopLook, RestartLook, Down, Look, Created, Started, Stopped, Record, Unset,
         Drop, Report, Finish, CallFails, Listen, Crash, Disconnected, Restart, Rest,
         ReceiveCreation, ReceiveCommand, ReceiveUpdate, Persist, SendEvent, vars,
         dockerVars

-----------------------------------------------------------------------------
(* What runs when initialize starts the deployments.                       *)

LEMMA PhaseOrder ==
  /\ PhaseAfter("boot") = "resources" /\ PhaseAfter("resources") = "containers"
  /\ PhaseAfter("containers") = "deployments" /\ PhaseAfter("deployments") = "delete"
  /\ PhaseAfter("delete") = "stop" /\ PhaseAfter("stop") = "start"
  /\ PhaseAfter("start") = "loop"
<1>1. DOMAIN InitPhases = 1..7 /\ Len(InitPhases) = 7  BY DEF InitPhases
<1>2. /\ InitPhases[1] = "boot" /\ InitPhases[2] = "resources"
      /\ InitPhases[3] = "containers" /\ InitPhases[4] = "deployments"
      /\ InitPhases[5] = "delete" /\ InitPhases[6] = "stop"
      /\ InitPhases[7] = "start"
  BY DEF InitPhases
<1>3. 1..7 = {1, 2, 3, 4, 5, 6, 7}  OBVIOUS
<1>4. ASSUME NEW k \in 1..7
      PROVE  PhaseAfter(InitPhases[k]) = IF k = 7 THEN "loop" ELSE InitPhases[k + 1]
  <2> DEFINE n == CHOOSE n \in DOMAIN InitPhases : InitPhases[n] = InitPhases[k]
  <2>1. n \in 1..7 /\ InitPhases[n] = InitPhases[k]  BY <1>1
  <2> HIDE DEF n
  <2>2. n = k  BY <1>2, <1>3, <2>1
  <2> QED  BY <1>1, <2>2 DEF PhaseAfter, n
<1> QED  BY <1>2, <1>3, <1>4

(* The phase of initialize only goes on, fails or is begun again.          *)
LEMMA PhaseGoes ==
  ASSUME Typed, Worked, [Next]_vars, phase' \in DOMAIN PhaseDoes \ {"boot"}
  PROVE  /\ ~ TakeEvent
         /\ \/ NextPhase
            \/ phase' = phase
<1>1. phase' # "loop" /\ phase' # "down" /\ phase' # "boot"  BY DEF PhaseDoes
<1>2. ~ TakeEvent  BY <1>1 DEF TakeEvent
<1>3. CASE \E x \in batch : TakeLoaded(x)  BY <1>2, <1>3 DEF TakeLoaded
<1>4. CASE Finish  BY <1>2, <1>4 DEF Finish
<1>5. CASE Failing  BY <1>1, <1>2, <1>5, Fails DEF Failing, Typed
<1>6. CASE Working  BY <1>2, <1>6, GoesOn DEF Working, Typed
<1>7. CASE Ending  BY <1>1, <1>7 DEF Ending
<1>8. CASE Apart  BY <1>2, <1>8 DEF Apart, serviceVars
<1> QED  BY <1>2, <1>3, <1>4, <1>5, <1>6, <1>7, <1>8, Happens

(* What NextPhase loads.                                                   *)
LEMMA NextPhaseFacts ==
  ASSUME Typed, NextPhase
  PROVE  /\ op = Idle /\ todo = <<>> /\ batch = {} /\ Members(todo) = {}
         /\ UNCHANGED <<db, sending, queue, op, todo, docker, errors>>
         /\ phase' = "deployments" => batch' = InState(db.dep, "Received")
         /\ phase' = "delete" =>
              phase = "deployments" /\ batch' = InState(db.dep, "Deleted")
         /\ phase' = "stop" => phase = "delete" /\ batch' = InState(db.dep, "Stopped")
         /\ phase' = "start" => phase = "stop" /\ batch' = InState(db.dep, "Started")
<1>1. /\ op = Idle /\ batch = {} /\ phase' = PhaseAfter(phase)
      /\ batch' = Load(phase')
      /\ UNCHANGED <<db, sending, queue, op, todo, docker, errors>>
  BY DEF NextPhase, storeVars, dockerVars
<1>2. todo = <<>>  BY <1>1 DEF Typed, OpOK
<1>3. phase \in Phases \ {"loop", "down"}
  BY PhaseFacts DEF NextPhase, Typed, TypeOK
<1>4. /\ phase' = "delete" => phase = "deployments"
      /\ phase' = "stop" => phase = "delete"
      /\ phase' = "start" => phase = "stop"
  BY <1>1, <1>3, PhaseOrder DEF Phases
<1>5. /\ phase' = "deployments" => batch' = InState(db.dep, "Received")
      /\ phase' = "delete" => batch' = InState(db.dep, "Deleted")
      /\ phase' = "stop" => batch' = InState(db.dep, "Stopped")
      /\ phase' = "start" => batch' = InState(db.dep, "Started")
  BY <1>1 DEF Load
<1> QED  BY <1>1, <1>2, <1>4, <1>5, NoSteps

(* What was loaded and is not worked on stays loaded.                      *)
LEMMA BatchStays ==
  ASSUME Typed, Worked, [Next]_vars, phase' = phase, phase \in DOMAIN PhaseDoes \ {"boot"}
  PROVE  /\ batch' \subseteq batch
         /\ \A x \in batch : x \in batch' \/ TakeLoaded(x)
<1>1. phase # "loop" /\ phase # "down" /\ phase # "boot"  BY DEF PhaseDoes
<1>2. ~ TakeEvent /\ ~ NextPhase
  <2>1. phase \in Phases \ {"loop", "down"}  BY <1>1, PhaseFacts DEF Typed, TypeOK
  <2>2. PhaseAfter(phase) # phase  BY <2>1, PhaseOrder DEF Phases
  <2> QED  BY <1>1, <2>2 DEF TakeEvent, NextPhase
<1>3. ASSUME NEW x \in batch, TakeLoaded(x)
      PROVE  batch' \subseteq batch /\ \A y \in batch : y \in batch' \/ TakeLoaded(y)
  <2>1. batch' = batch \ {x}  BY <1>3 DEF TakeLoaded
  <2> QED  BY <1>3, <2>1
<1>4. CASE Finish  BY <1>4 DEF Finish
<1>5. CASE Failing  BY <1>1, <1>5, Fails DEF Failing, Typed
<1>6. CASE Working  BY <1>6, GoesOn DEF Working, Typed
<1>7. CASE Ending  BY <1>1, <1>7 DEF Ending
<1>8. CASE Apart  BY <1>8 DEF Apart, serviceVars
<1> QED  BY <1>2, <1>3, <1>4, <1>5, <1>6, <1>7, <1>8, Happens

(* A deployment that was commanded to be started, or will be looked at.    *)
Wanted(d) == db.dep[d] = "Started" \/ Pending(d)
Live(d)   == Wanted(d) \/ d \in errors

(* publish_received leaves no deployment Received, but those whose request *)
(* came meanwhile.                                                         *)
ReceivedOK ==
    phase \in {"deployments", "delete", "stop", "start"} =>
      \A d \in Deployments :
        db.dep[d] = "Received" =>
          \/ Pending(d)
          \/ phase = "deployments" /\ (d \in batch \/ Step("publish", d) \in Members(todo))

(* Then none is Deleted but those.                                         *)
DeletedOK ==
    phase \in {"delete", "stop", "start"} =>
      \A d \in Deployments :
        db.dep[d] = "Deleted" =>
          \/ Pending(d) \/ d \in errors
          \/ /\ phase = "delete"
             /\ d \in batch \/ (op.x = d /\ Step("drop", d) \in Members(todo))

(* Then what runs belongs to one that is to be started, or is stopped.     *)
Stopping(d, c) ==
    \/ d \in batch
    \/ op.x = d /\ (Step("stop", c) \in Members(todo) \/ Step("halt", c) \in Members(todo))
StoppedOK ==
    phase = "stop" =>
      \A c \in Containers : docker[c] = "running" =>
        \E d \in Deployments : c \in db.rows[d] /\ (Live(d) \/ Stopping(d, c))

(* And so it stays while those are started.                                *)
Starting ==
    /\ op.x \in Deployments /\ Wanted(op.x)
    /\ \A s \in Members(todo) : s.x \in Containers => s.x \in db.rows[op.x]
StartOK ==
    phase = "start" =>
      /\ \A c \in Containers : docker[c] = "running" =>
           \E d \in Deployments : c \in db.rows[d] /\ Live(d)
      /\ \A d \in batch : Wanted(d)
      /\ op.kind = "start" => Starting

Freed == ReceivedOK /\ DeletedOK /\ StoppedOK /\ StartOK

(* In these phases the service works only on what it has loaded.           *)
LEMMA KindInPhase ==
  ASSUME Typed, Worked
  PROVE  /\ phase = "deployments" => op.kind \in {"idle", "publish"}
         /\ phase = "delete" => op.kind \in {"idle", "delete"}
         /\ phase = "stop" => op.kind \in {"idle", "stop"}
         /\ phase = "start" => op.kind \in {"idle", "start"}
         /\ \A do : Doing(do) => do \in Does[op.kind] /\ op.kind # "idle"
<1>1. OpOK /\ Fits /\ InPhase  BY DEF Typed, Worked
<1>2. ASSUME NEW do, Doing(do)  PROVE do \in Does[op.kind] /\ op.kind # "idle"
  <2>1. do \in Does[op.kind]  BY <1>1, <1>2, DoesFacts
  <2> QED  BY <2>1 DEF Does
<1>3. /\ phase = "deployments" => op.kind \in {"idle", "publish"}
      /\ phase = "delete" => op.kind \in {"idle", "delete"}
      /\ phase = "stop" => op.kind \in {"idle", "stop"}
      /\ phase = "start" => op.kind \in {"idle", "start"}
  BY <1>1 DEF InPhase, PhaseDoes
<1> QED  BY <1>2, <1>3

(* The errors are only forgotten when a deployment is started.             *)
LEMMA ErrorsStay ==
  ASSUME Typed, Worked, [Next]_vars, ~ TakeEvent, phase' # "boot"
  PROVE  \/ errors \subseteq errors'
         \/ op.kind = "start" /\ errors \subseteq errors' \cup {op.x}
         \/ op.kind = "update"
<1>1. ASSUME NEW D, NotFound(D)  PROVE errors \subseteq errors'
  BY <1>1 DEF NotFound
<1>2. ASSUME NEW x \in batch, TakeLoaded(x)  PROVE errors \subseteq errors'
  <2>1. db \in Tables  BY DEF Typed, TypeOK
  <2> QED
    BY <1>1, <1>2, <2>1, LoadedBegins, PublishBegins, StartBegins, StopBegins, DeleteBegins
<1>3. CASE Finish  BY <1>3 DEF Finish
<1>4. CASE Failing  BY <1>4, Fails DEF Failing, Typed
<1>5. CASE Working  BY <1>5, GoesOn DEF Working, Typed
<1>6. CASE Apart  BY <1>6 DEF Apart
<1>7. CASE NextPhase  BY <1>7 DEF NextPhase
<1> QED  BY <1>2, <1>3, <1>4, <1>5, <1>6, <1>7, Happens DEF Ending

(* The status of a deployment, and what is wanted, in these phases.        *)
LEMMA WantedStays ==
  ASSUME Typed, Worked, [Next]_vars, phase' = phase, phase \in {"delete", "stop", "start"},
         NEW d \in Deployments
  PROVE  /\ Pending(d) => Pending(d)'
         /\ db.dep[d] = "Started" => Wanted(d)' \/ op.kind = "delete"
         /\ Wanted(d) => Wanted(d)' \/ op.kind = "delete"
<1>1. ~ TakeEvent /\ phase' # "boot"  BY DEF TakeEvent
<1>2. Pending(d) => Pending(d)'  BY <1>1, PendingStays
<1>3. ASSUME db.dep[d] = "Started"  PROVE Wanted(d)' \/ op.kind = "delete"
  <2>1. CASE db'.dep[d] = db.dep[d]  BY <1>3, <2>1 DEF Wanted
  <2>2. ~ Doing("publish")
    <3>1. op.kind \in {"idle", "delete", "stop", "start"}  BY KindInPhase
    <3>2. Doing("publish") => "publish" \in Does[op.kind]  BY KindInPhase
    <3> QED  BY <3>1, <3>2 DEF Does, StopDos, StartDos
  <2>3. Doing("drop") => op.kind = "delete"
    <3>1. op.kind \in {"idle", "delete", "stop", "start"}  BY KindInPhase
    <3>2. Doing("drop") => "drop" \in Does[op.kind]  BY KindInPhase
    <3> QED  BY <3>1, <3>2 DEF Does, StopDos, StartDos
  <2>4. CASE db'.dep[d] # db.dep[d]
    BY <2>2, <2>3, <2>4, StatusChanges DEF Publish, Drop, Wanted
  <2> QED  BY <2>1, <2>4
<1> QED  BY <1>2, <1>3 DEF Wanted

LEMMA ReceivedNext ==
  ASSUME Typed, Typed', Worked, ReceivedOK, [Next]_vars
  PROVE  ReceivedOK'
<1> SUFFICES ASSUME phase' \in {"deployments", "delete", "stop", "start"},
                    NEW d \in Deployments, db'.dep[d] = "Received", ~ Pending(d)'
             PROVE  /\ phase' = "deployments"
                    /\ d \in batch' \/ Step("publish", d) \in Members(todo')
  BY DEF ReceivedOK, Pending, About, Members
<1>1. OpOK /\ Fits /\ phase' # "boot" /\ phase' # "down" /\ phase' # "loop"
  BY DEF Typed, Worked
<1>2. ~ TakeEvent /\ (NextPhase \/ phase' = phase)
  BY PhaseGoes DEF PhaseDoes
<1>3. ~ Pending(d)  BY <1>1, <1>2, PendingStays
<1>4. db.dep[d] = "Received"
  <2>1. "Stopped" # "Received" /\ "none" # "Received"  OBVIOUS
  <2> QED  BY <2>1, StatusChanges
<1>5. CASE NextPhase
  <2>1. phase' = "deployments" => d \in batch'
    <3>1. db.dep \in [Deployments -> DeploymentStatus]  BY DEF Typed, TypeOK, Tables
    <3> QED  BY <1>4, <1>5, <3>1, NextPhaseFacts DEF InState
  <2>2. phase' # "deployments" => phase \in {"deployments", "delete", "stop"}
    BY <1>5, NextPhaseFacts
  <2>3. phase \notin {"deployments", "delete", "stop"}
    <3> SUFFICES ASSUME phase \in {"deployments", "delete", "stop"}  PROVE FALSE
      OBVIOUS
    <3> QED  BY <1>3, <1>4, <1>5, NextPhaseFacts DEF ReceivedOK
  <2> QED  BY <2>1, <2>2, <2>3
<1>6. CASE phase' = phase /\ ~ NextPhase
  <2>1. phase = "deployments" /\ (d \in batch \/ Step("publish", d) \in Members(todo))
    BY <1>3, <1>4, <1>6 DEF ReceivedOK
  <2>2. CASE d \in batch
    <3>1. CASE TakeLoaded(d)
      <4>1. d \in Objects /\ BeginPublish(d)  BY <2>1, <2>2, <3>1, LoadedBegins
      <4> QED  BY <1>6, <2>1, <4>1, PublishBegins
    <3> QED  BY <1>6, <2>1, <2>2, <3>1, BatchStays DEF PhaseDoes
  <2>3. CASE Step("publish", d) \in Members(todo)
    <3>1. todo # <<>> /\ op # Idle  BY <1>1, <2>3, NoSteps DEF OpOK
    <3>2. ~ (\E x \in batch : TakeLoaded(x)) /\ ~ Finish
      BY <3>1 DEF TakeLoaded, Finish
    <3>3. ~ Failing
      <4>1. op.kind = "publish"
        <5>1. op.kind \in {"idle", "publish"}  BY <2>1, KindInPhase
        <5>2. Step("publish", d).do \in Does[op.kind]  BY <1>1, <2>3 DEF Fits
        <5> QED  BY <5>1, <5>2 DEF Does
      <4> QED  BY <1>1, <2>1, <4>1 DEF Failing, Fail
    <3>4. CASE Working
      <4>1. \A m \in Members(todo) : m = Head(todo) \/ m \in Members(todo')
        BY <1>1, <3>4, MembersStay DEF Working
      <4>2. CASE Head(todo) = Step("publish", d)
        <5>1. Publish /\ Subject = d
          <6>1. Head(todo).do = "publish" /\ Subject = d  BY <4>2 DEF Step, Subject
          <6> QED
            BY <3>4, <6>1
               DEF Working, Work, Fetch, Up, StopLook, RestartLook, Down, Look, Create,
                   Created, Started, Stopped, Record, Start, Halt, RemoveObject, Unset,
                   Drop, Report, Doing
        <5>2. db'.dep[d] = "Stopped" \/ Fail
          <6>1. db \in Tables  BY DEF Typed, TypeOK
          <6> QED  BY <5>1, <6>1 DEF Publish, SetDeployment, Tables
        <5>3. ~ Fail  BY <3>3, <3>4 DEF Failing, Working
        <5> QED  BY <5>2, <5>3
      <4> QED  BY <1>6, <2>1, <2>3, <4>1, <4>2
    <3>5. CASE Apart
      BY <1>6, <2>1, <2>3, <3>5 DEF Apart, serviceVars, Members
    <3> QED  BY <1>1, <1>2, <1>6, <3>2, <3>3, <3>4, <3>5, Happens DEF Ending
  <2> QED  BY <2>1, <2>2, <2>3
<1> QED  BY <1>2, <1>5, <1>6

(* Doing a step is the action that does it.                                *)
LEMMA DoneBy ==
  ASSUME Work
  PROVE  /\ Doing("drop") => Drop
         /\ Doing("stop") => StopLook
         /\ Doing("halt") => Halt
         /\ Doing("start") => Start
BY DEF Work, Publish, Fetch, Up, StopLook, RestartLook, Down, Look, Create, Created,
       Started, Stopped, Record, Start, Halt, RemoveObject, Unset, Drop, Report, Doing

(* A failure in these phases is answered with an error.                    *)
LEMMA FailsInPhase ==
  ASSUME Typed, Worked, Failing, phase' = phase, phase \in {"delete", "stop", "start"}
  PROVE  /\ op' = Idle /\ todo' = <<>>
         /\ op.x \in Deployments => op.x \in errors'
<1>1. op.kind # "update"  BY KindInPhase
<1> QED  BY <1>1, Fails DEF Failing, Typed

LEMMA DeletedNext ==
  ASSUME Typed, Typed', Worked, DeletedOK, StartOK, [Next]_vars
  PROVE  DeletedOK'
<1> SUFFICES ASSUME phase' \in {"delete", "stop", "start"}, NEW d \in Deployments,
                    db'.dep[d] = "Deleted", ~ Pending(d)', d \notin errors'
             PROVE  /\ phase' = "delete"
                    /\ \/ d \in batch'
                       \/ op'.x = d /\ Step("drop", d) \in Members(todo')
  BY DEF DeletedOK, Pending, About, Members
<1>1. OpOK /\ Fits /\ phase' # "boot" /\ phase' # "down" /\ phase' # "loop"
  BY DEF Typed, Worked
<1>2. ~ TakeEvent /\ (NextPhase \/ phase' = phase)
  BY PhaseGoes DEF PhaseDoes
<1>3. ~ Pending(d)  BY <1>1, <1>2, PendingStays
<1>4. db.dep[d] = "Deleted"
  <2>1. "Stopped" # "Deleted" /\ "none" # "Deleted"  OBVIOUS
  <2> QED  BY <2>1, StatusChanges
<1>5. CASE NextPhase
  <2>1. phase' = "delete" => d \in batch'
    <3>1. db.dep \in [Deployments -> DeploymentStatus]  BY DEF Typed, TypeOK, Tables
    <3> QED  BY <1>4, <1>5, <3>1, NextPhaseFacts DEF InState
  <2>2. phase' # "delete" => phase \in {"delete", "stop"}
    BY <1>5, NextPhaseFacts
  <2>3. phase \notin {"delete", "stop"}
    <3> SUFFICES ASSUME phase \in {"delete", "stop"}  PROVE FALSE
      OBVIOUS
    <3> QED  BY <1>3, <1>4, <1>5, NextPhaseFacts DEF DeletedOK
  <2> QED  BY <2>1, <2>2, <2>3
<1>6. CASE phase' = phase /\ ~ NextPhase
  <2>1. d \notin errors
    <3> SUFFICES ASSUME d \in errors  PROVE FALSE
      OBVIOUS
    <3>1. op.kind = "start" /\ d = op.x
      <4>1. op.kind # "update"  BY <1>6, KindInPhase
      <4> QED  BY <1>1, <1>2, <4>1, ErrorsStay
    <3>2. phase = "start"  BY <1>6, <3>1, KindInPhase
    <3>3. Wanted(d)  BY <3>1, <3>2 DEF StartOK, Starting
    <3> QED  BY <1>3, <1>4, <3>3 DEF Wanted
  <2>2. /\ phase = "delete"
        /\ d \in batch \/ (op.x = d /\ Step("drop", d) \in Members(todo))
    BY <1>3, <1>4, <1>6, <2>1 DEF DeletedOK
  <2>3. CASE d \in batch
    <3>1. CASE TakeLoaded(d)
      <4>1. db \in Tables /\ BeginDelete(d)
        BY <2>2, <2>3, <3>1, LoadedBegins DEF Typed, TypeOK
      <4>2. ~ NotFound({d})  BY DEF NotFound
      <4> QED  BY <1>6, <2>2, <4>1, <4>2, DeleteBegins
    <3> QED  BY <1>6, <2>2, <2>3, <3>1, BatchStays DEF PhaseDoes
  <2>4. CASE op.x = d /\ Step("drop", d) \in Members(todo)
    <3>1. todo # <<>> /\ op # Idle  BY <1>1, <2>4, NoSteps DEF OpOK
    <3>2. ~ (\E x \in batch : TakeLoaded(x)) /\ ~ Finish
      BY <3>1 DEF TakeLoaded, Finish
    <3>3. ~ Failing  BY <1>6, <2>2, <2>4, FailsInPhase
    <3>4. CASE Working
      <4>1. \A m \in Members(todo) : m = Head(todo) \/ m \in Members(todo')
        BY <1>1, <3>4, MembersStay DEF Working
      <4>2. op' = op  BY <1>1, <3>4, GoesOn DEF Working
      <4>3. CASE Head(todo) = Step("drop", d)
        <5>1. Drop /\ Subject = d
          BY <3>1, <3>4, <4>3, DoneBy DEF Working, Step, Subject, Doing
        <5>2. ~ Fail  BY <3>3, <3>4 DEF Failing, Working
        <5>3. db \in Tables  BY DEF Typed, TypeOK
        <5>4. db' = DeleteDeployment(d)
          BY <5>1, <5>2 DEF Drop
        <5>5. db'.dep[d] = "none"
          BY <5>3, <5>4 DEF DeleteDeployment, Tables
        <5> QED  BY <5>5
      <4> QED  BY <1>6, <2>2, <2>4, <4>1, <4>2, <4>3
    <3>5. CASE Apart
      BY <1>6, <2>2, <2>4, <3>5 DEF Apart, serviceVars, Members
    <3> QED  BY <1>1, <1>2, <1>6, <3>2, <3>3, <3>4, <3>5, Happens DEF Ending
  <2> QED  BY <2>2, <2>3, <2>4
<1> QED  BY <1>2, <1>5, <1>6

(* What runs when nothing is left of the deletions is of a deployment with *)
(* a status, and that is one of those the service looks at now.            *)
LEMMA StoppedBegins ==
  ASSUME Typed, Worked, Filed, Kept, ReceivedOK, DeletedOK, NextPhase, phase' = "stop",
         NEW c \in Containers, docker[c] = "running"
  PROVE  \E d \in Deployments : c \in db.rows[d] /\ (Live(d) \/ d \in batch')
<1>1. Present(c)  BY DEF Present
<1>2. PICK d \in Deployments : c \in Joined(d)
  BY <1>1 DEF Kept, Reachable, Owned
<1>3. c \in db.rows[d]  BY <1>2 DEF Joined
<1>4. db.dep[d] # "none"  BY <1>3 DEF Filed, RowsStored
<1>5. db.dep \in [Deployments -> DeploymentStatus]  BY DEF Typed, TypeOK, Tables
<1>6. /\ phase = "delete" /\ batch = {} /\ Members(todo) = {}
      /\ batch' = InState(db.dep, "Stopped")
  BY NextPhaseFacts
<1>7. db.dep[d] = "Received" => Pending(d)  BY <1>6 DEF ReceivedOK
<1>8. db.dep[d] = "Deleted" => Pending(d) \/ d \in errors  BY <1>6 DEF DeletedOK
<1>9. db.dep[d] = "Stopped" => d \in batch'  BY <1>5, <1>6 DEF InState
<1> QED
  BY <1>3, <1>4, <1>5, <1>7, <1>8, <1>9 DEF Live, Wanted, DeploymentStatus

LEMMA StoppedNext ==
  ASSUME Typed, Typed', Worked, Filed, Kept, StoreStep, ReceivedOK, DeletedOK, StoppedOK,
         [Next]_vars
  PROVE  StoppedOK'
<1> SUFFICES ASSUME phase' = "stop", NEW c \in Containers, docker'[c] = "running"
             PROVE  \E d \in Deployments :
                      c \in db'.rows[d] /\ (Live(d)' \/ Stopping(d, c)')
  BY DEF StoppedOK
<1>1. OpOK /\ Fits /\ db \in Tables  BY DEF Typed, TypeOK, Worked
<1>2. ~ TakeEvent /\ (NextPhase \/ phase' = phase)
  BY PhaseGoes DEF PhaseDoes
<1>3. CASE NextPhase
  <2>1. UNCHANGED <<db, sending, queue, op, todo, docker, errors>>
    BY <1>3, NextPhaseFacts
  <2>2. PICK d \in Deployments : c \in db.rows[d] /\ (Live(d) \/ d \in batch')
    BY <1>3, <2>1, StoppedBegins
  <2>3. Live(d) => Live(d)'
    BY <1>2, <2>1, PendingStays DEF Live, Wanted
  <2> QED  BY <2>1, <2>2, <2>3 DEF Stopping
<1>4. CASE phase' = phase
  <2>1. op.kind \in {"idle", "stop"}  BY <1>4, KindInPhase
  <2>2. docker[c] = "running"
    <3>1. Doing("start") => "start" \in Does[op.kind]  BY KindInPhase
    <3> QED  BY <2>1, <3>1, StartsRunning DEF Does, StopDos
  <2>3. PICK d \in Deployments : c \in db.rows[d] /\ (Live(d) \/ Stopping(d, c))
    BY <1>4, <2>2 DEF StoppedOK
  <2>4. c \in db'.rows[d]  BY <2>1, <2>3, RowsGrow
  <2>5. errors \subseteq errors'  BY <1>2, <1>4, <2>1, ErrorsStay
  <2>6. CASE Live(d)
    BY <1>4, <2>1, <2>4, <2>5, <2>6, WantedStays DEF Live
  <2>7. ASSUME d \in errors'  PROVE Live(d)'
    BY <2>7 DEF Live
  <2>8. CASE d \in batch
    <3>1. CASE TakeLoaded(d)
      <4>1. BeginStop(d)  BY <1>4, <2>8, <3>1, LoadedBegins
      <4>2. c \in Named(d)  BY <2>3 DEF Kept, StoreInv, RowsOK
      <4>3. CASE op'.x = d /\ Step("stop", c) \in Members(todo')
        BY <2>4, <4>3 DEF Stopping, Members
      <4>4. CASE NotFound({d})  BY <2>4, <2>7, <4>4 DEF NotFound
      <4> QED  BY <1>1, <2>3, <4>1, <4>2, <4>3, <4>4, StopBegins
    <3>2. CASE d \in batch'  BY <2>4, <3>2 DEF Stopping
    <3> QED  BY <1>4, <2>8, <3>1, <3>2, BatchStays DEF PhaseDoes
  <2>9. ASSUME NEW do \in {"stop", "halt"}, op.x = d, Step(do, c) \in Members(todo)
        PROVE  Live(d)' \/ Stopping(d, c)'
    <3>1. todo # <<>> /\ op # Idle  BY <1>1, <2>9, NoSteps DEF OpOK
    <3>2. ~ (\E x \in batch : TakeLoaded(x)) /\ ~ Finish
      BY <3>1 DEF TakeLoaded, Finish
    <3>3. CASE Failing  BY <1>4, <2>7, <2>9, <3>3, FailsInPhase
    <3>4. CASE Working /\ ~ Failing
      <4>1. \A m \in Members(todo) : m = Head(todo) \/ m \in Members(todo')
        BY <1>1, <3>4, MembersStay DEF Working
      <4>2. op' = op /\ ~ Fail  BY <1>1, <3>4, GoesOn DEF Working, Failing
      <4>3. CASE Head(todo) = Step(do, c)
        <5>1. Subject = c /\ Doing(do)
          BY <3>1, <4>3 DEF Step, Subject, Doing
        <5>2. do # "halt"
          <6> SUFFICES ASSUME do = "halt"  PROVE FALSE
            OBVIOUS
          <6>1. Halt  BY <3>4, <5>1, DoneBy DEF Working
          <6>2. docker \in [Containers -> DockerStates]  BY DEF Typed, TypeOK
          <6> QED  BY <5>1, <6>1, <6>2 DEF Halt
        <5>3. Look("stop", StopSteps)
          BY <3>4, <5>1, <5>2, DoneBy DEF Working, StopLook, StopSteps
        <5>4. StopSteps = <<Step("halt", c), Step("stopped", c)>>
          BY <2>2, <5>1 DEF StopSteps, Exists, Steps2
        <5>5. Continue(StopSteps) /\ StopSteps \in Seq(Steps)
          BY <3>4, <4>2, <5>3, LookDos DEF Look, Working
        <5>6. Step("halt", c) \in Members(StopSteps)
          <6>1. c \in Objects  BY DEF Objects
          <6>2. Step("halt", c) \in Steps /\ Step("stopped", c) \in Steps
            BY <6>1, StepType DEF Dos
          <6> QED  BY <5>4, <6>2, TwoSteps
        <5>7. Step("halt", c) \in Members(todo')
          BY <1>1, <3>1, <5>5, <5>6, MembersStay
        <5> QED  BY <2>9, <4>2, <5>7 DEF Stopping, Members
      <4> QED  BY <2>9, <4>1, <4>2, <4>3 DEF Stopping, Members
    <3>5. CASE Apart
      BY <2>9, <3>5 DEF Apart, serviceVars, Members, Stopping
    <3> QED  BY <1>2, <1>4, <3>2, <3>3, <3>4, <3>5, Happens, NextPhaseFacts DEF Ending
  <2> QED  BY <2>3, <2>4, <2>6, <2>8, <2>9 DEF Stopping
<1> QED  BY <1>2, <1>3, <1>4

(* The containers that are brought up are those of the deployment.         *)
LEMMA StartedOfDeployment ==
  ASSUME db \in Tables, NEW d \in Deployments, NEW q, StartingSteps(q, d)
  PROVE  \A s \in Members(q) : s.x \in Containers => s.x \in db.rows[d]
<1>1. Joined(d) \subseteq db.rows[d]  BY DEF Joined
<1>2. Containers \cap (Deployments \cup Resources) = {}
  BY ContainerStoreAssumption
<1> QED  BY <1>1, <1>2 DEF StartingSteps

LEMMA StartNext ==
  ASSUME Typed, Typed', Worked, StoreStep, StoppedOK, StartOK, [Next]_vars
  PROVE  StartOK'
<1> DEFINE Runs == \A c \in Containers : docker'[c] = "running" =>
                     \E d \in Deployments : c \in db'.rows[d] /\ Live(d)'
           Loaded == \A d \in batch' : Wanted(d)'
           Begun == op'.kind = "start" => Starting'
<1> SUFFICES ASSUME phase' = "start"  PROVE Runs /\ Loaded /\ Begun
  BY DEF StartOK
<1>1. OpOK /\ Fits /\ db \in Tables  BY DEF Typed, TypeOK, Worked
<1>2. ~ TakeEvent /\ (NextPhase \/ phase' = phase)
  BY PhaseGoes DEF PhaseDoes
<1>3. CASE NextPhase
  <2>1. /\ UNCHANGED <<db, sending, queue, op, todo, docker, errors>>
        /\ op = Idle /\ Members(todo) = {} /\ batch = {} /\ phase = "stop"
        /\ batch' = InState(db.dep, "Started")
    BY <1>3, NextPhaseFacts
  <2>2. \A d \in Deployments : Live(d) => Live(d)'
    BY <1>2, <2>1, PendingStays DEF Live, Wanted
  <2>3. Runs
    <3> SUFFICES ASSUME NEW c \in Containers, docker'[c] = "running"
                 PROVE  \E d \in Deployments : c \in db'.rows[d] /\ Live(d)'
      OBVIOUS
    <3>1. PICK d \in Deployments : c \in db.rows[d] /\ (Live(d) \/ Stopping(d, c))
      BY <2>1 DEF StoppedOK
    <3>2. Live(d)  BY <2>1, <3>1 DEF Stopping
    <3> QED  BY <2>1, <2>2, <3>1, <3>2
  <2>4. Loaded  BY <2>1 DEF InState, Wanted
  <2>5. Begun  BY <2>1, IdleFacts
  <2> HIDE DEF Runs, Loaded, Begun
  <2> QED  BY <2>3, <2>4, <2>5
<1>4. CASE phase' = phase
  <2>1. op.kind \in {"idle", "start"}  BY <1>4, KindInPhase
  <2>2. \A d \in Deployments : Wanted(d) => Wanted(d)'
    BY <1>4, <2>1, WantedStays
  <2>3. \A d \in Deployments : db.rows[d] \subseteq db'.rows[d]
    BY <2>1, RowsGrow
  <2>4. op.kind = "start" => Starting  BY <1>4 DEF StartOK
  <2>5. \A d \in Deployments : Live(d) => Live(d)'
    <3> SUFFICES ASSUME NEW d \in Deployments, Live(d)  PROVE Live(d)'
      OBVIOUS
    <3>1. CASE Wanted(d)  BY <2>2, <3>1 DEF Live
    <3>2. CASE d \in errors /\ ~ Wanted(d)
      <4>1. op.kind = "start" => d # op.x  BY <2>4, <3>2 DEF Starting
      <4>2. d \in errors'  BY <1>2, <1>4, <2>1, <3>2, <4>1, ErrorsStay
      <4> QED  BY <4>2 DEF Live
    <3> QED  BY <3>1, <3>2 DEF Live
  <2>6. Runs
    <3> SUFFICES ASSUME NEW c \in Containers, docker'[c] = "running"
                 PROVE  \E d \in Deployments : c \in db'.rows[d] /\ Live(d)'
      OBVIOUS
    <3>1. CASE docker[c] = "running"
      BY <1>4, <2>3, <2>5, <3>1 DEF StartOK
    <3>2. CASE docker[c] # "running"
      <4>1. Doing("start") /\ Subject = c  BY <3>2, StartsRunning
      <4>2. op.kind = "start"  BY <2>1, <4>1, KindInPhase
      <4>3. Head(todo) \in Members(todo) /\ Head(todo).x = c
        BY <1>1, <4>1, DoingFacts DEF Subject
      <4>4. c \in db.rows[op.x] /\ op.x \in Deployments /\ Wanted(op.x)
        BY <2>4, <4>2, <4>3 DEF Starting
      <4> QED  BY <2>2, <2>3, <4>4 DEF Live
    <3> QED  BY <3>1, <3>2
  <2>7. Loaded
    <3>1. batch' \subseteq batch  BY <1>4, BatchStays DEF PhaseDoes
    <3>2. batch \subseteq Deployments  BY <1>4 DEF Typed, BatchOK
    <3> QED  BY <1>4, <2>2, <3>1, <3>2 DEF StartOK
  <2>8. Begun
    <3> SUFFICES ASSUME op'.kind = "start"  PROVE Starting'
      OBVIOUS
    <3>1. ASSUME op.kind = "start", op' = op,
                 \A s \in Members(todo') \ Members(todo) : s.x \in Containers => s.x \in db.rows[op.x]
          PROVE  Starting'
      <4>1. PICK d \in Deployments : op.x = d /\ Wanted(d)
        BY <2>4, <3>1 DEF Starting
      <4>2. \A s \in Members(todo') : s.x \in Containers => s.x \in db'.rows[op'.x]
        BY <2>3, <2>4, <3>1 DEF Starting
      <4>3. op'.x = d /\ Wanted(d)'  BY <2>2, <3>1, <4>1
      <4>4. Wanted(op.x)'  BY <4>3 DEF Wanted, Pending, About
      <4> QED  BY <4>2, <4>3, <4>4 DEF Starting, Members
    <3>2. CASE \E x \in batch : TakeLoaded(x)
      <4>1. PICK x \in batch : TakeLoaded(x)  BY <3>2
      <4>2. x \in Deployments /\ BeginStart(x) /\ op = Idle
        BY <1>4, <4>1, LoadedBegins
      <4>3. ~ NotFound({x})  BY <4>2, IdleFacts DEF NotFound
      <4>4. op'.x = x /\ StartingSteps(todo', x)
        BY <1>1, <4>2, <4>3, StartBegins
      <4>5. Wanted(x)'  BY <1>4, <2>2, <4>1, <4>2 DEF StartOK
      <4>6. \A s \in Members(todo') : s.x \in Containers => s.x \in db'.rows[x]
        <5>1. \A s \in Members(todo') : s.x \in Containers => s.x \in db.rows[x]
          BY <1>1, <4>2, <4>4, StartedOfDeployment, ZenonT(30)
        <5> QED  BY <2>3, <4>2, <5>1
      <4>7. Wanted(op.x)'  BY <4>4, <4>5 DEF Wanted, Pending, About
      <4> QED  BY <4>2, <4>4, <4>6, <4>7 DEF Starting, Members
    <3>3. CASE Finish  BY <3>3, IdleFacts DEF Finish
    <3>4. CASE Failing  BY <1>4, <3>4, FailsInPhase, IdleFacts
    <3>5. CASE Working
      <4>1. PICK s \in Seq(Steps) : Continue(s) /\ Adds(s, Subject)
        BY <3>5 DEF Working
      <4>2. todo # <<>>  BY <3>5 DEF Working
      <4>3. op' = op /\ Members(todo') \subseteq Members(s) \cup Members(todo)
        BY <1>1, <4>1, <4>2, GoesOn
      <4>4. Head(todo) \in Members(todo) /\ Head(todo).x = Subject
        BY <1>1, <4>2, HeadIs DEF Subject
      <4>5. \A m \in Members(s) : m.x = Subject  BY <4>1 DEF Adds
      <4>6. op.kind = "start"  BY <4>3
      <4>7. Subject \in Containers => Subject \in db.rows[op.x]
        BY <2>4, <4>4, <4>6 DEF Starting
      <4> QED  BY <3>1, <4>3, <4>5, <4>6, <4>7
    <3>6. CASE Apart
      <4>1. op' = op /\ Members(todo') = Members(todo)
        BY <3>6 DEF Apart, serviceVars, Members
      <4> QED  BY <3>1, <4>1
    <3>7. CASE NextPhase
      BY <3>7, IdleFacts, NextPhaseFacts
    <3> QED
      BY <1>2, <1>4, <3>2, <3>3, <3>4, <3>5, <3>6, <3>7, Happens DEF Ending
  <2> HIDE DEF Runs, Loaded, Begun
  <2> QED  BY <2>6, <2>7, <2>8
<1> QED  BY <1>2, <1>3, <1>4

LEMMA FreedInit ==
  ASSUME Init
  PROVE  Freed
<1>1. phase = "boot"  BY DEF Init
<1> QED  BY <1>1 DEF Freed, ReceivedOK, DeletedOK, StoppedOK, StartOK

LEMMA FreedNext ==
  ASSUME Typed, Typed', Kept, Serviced, Freed, [Next]_vars
  PROVE  Freed'
<1>1. /\ Worked /\ Filed /\ ReceivedOK /\ DeletedOK /\ StoppedOK /\ StartOK
  BY DEF Serviced, Freed
<1>2. StoreStep  BY <1>1, StoreSteps
<1> QED
  BY <1>1, <1>2, ReceivedNext, DeletedNext, StoppedNext, StartNext DEF Freed

(* What initialize has done when it comes to a phase: no deployment is     *)
(* Received any more, then none Deleted, then nothing runs but what is to  *)
(* be started, unless a request came or something failed.                  *)
THEOREM FreedAlways == Spec => []Freed
<1>1. Init => Freed  BY FreedInit
<1>2. Typed /\ Typed' /\ Kept /\ Serviced /\ Freed /\ [Next]_vars => Freed'
  BY FreedNext
<1> QED  BY <1>1, <1>2, Wellformed, OwnershipKept, ServicedAlways, PTL DEF Spec

(* FreedBeforeStart: "to ensure the ports and other resources are freed    *)
(* before starting the containers" (initialize), for any deployments, and  *)
(* whatever fails.                                                         *)
THEOREM FreedFirst == Spec => []FreedBeforeStart
<1>1. Freed => FreedBeforeStart
  <2> SUFFICES ASSUME Freed, phase = "start", NEW c \in Containers, docker[c] = "running"
               PROVE  \E d \in Deployments :
                        /\ c \in db.rows[d]
                        /\ \/ db.dep[d] = "Started"
                           \/ d \in errors
                           \/ sending \in About(d)
                           \/ \E n \in DOMAIN queue : queue[n] \in About(d)
    BY DEF FreedBeforeStart
  <2>1. PICK d \in Deployments : c \in db.rows[d] /\ Live(d)
    BY DEF Freed, StartOK
  <2> QED  BY <2>1 DEF Live, Wanted, Pending
<1> QED  BY <1>1, FreedAlways, PTL

=============================================================================
