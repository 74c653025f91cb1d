------------------------- MODULE DeploymentsProofs -------------------------
(***************************************************************************)
(* Proofs about Deployments, for every value of its constants: any number  *)
(* of deployments, containers and resources, shared in any way, and of     *)
(* commands, failures and restarts.                                        *)
(***************************************************************************)
EXTENDS Deployments, FiniteSetTheorems, SequenceTheorems, TLAPS

-----------------------------------------------------------------------------
(* Sequences.                                                              *)

(* SetToSeq lists a finite set.                                            *)
LEMMA SetToSeqFacts ==
  ASSUME NEW S, IsFiniteSet(S)
  PROVE  /\ SetToSeq(S) \in Seq(S)
         /\ \A x \in S : \E n \in DOMAIN SetToSeq(S) : SetToSeq(S)[n] = x
<1> DEFINE k == Cardinality(S)
           q == SetToSeq(S)
<1>1. k \in Nat /\ ExistsBijection(1..k, S)  BY FS_CardinalityType
<1>2. PICK f : f \in Bijection(1..k, S)  BY <1>1 DEF ExistsBijection
<1>3. f \in [1..k -> S] /\ IsInjective(f)
  BY <1>2 DEF Bijection, Injection
<1>4. q \in [1..k -> S] /\ IsInjective(q)  BY <1>3 DEF SetToSeq
<1>5. q \in Injection(1..k, S)  BY <1>4 DEF Injection
<1>6. Cardinality(1..k) = k /\ IsFiniteSet(1..k)  BY <1>1, FS_Interval
<1>7. q \in Surjection(1..k, S)  BY <1>5, <1>6, FS_Injection
<1>8. \A x \in S : \E n \in 1..k : q[n] = x  BY <1>7 DEF Surjection
<1>9. q \in Seq(S)  BY <1>1, <1>4
<1> QED  BY <1>4, <1>8, <1>9

(* Nth numbers a finite set of positions.                                  *)
LEMMA NthFacts ==
  ASSUME NEW P, IsFiniteSet(P), P \subseteq Nat
  PROVE  /\ \A k \in 1..Cardinality(P) : Nth(P, k) \in P
         /\ \A n \in P : \E k \in 1..Cardinality(P) : Nth(P, k) = n
<1> DEFINE UpTo(n) == {m \in P : m <= n}
           Rank(n) == Cardinality(UpTo(n))
           r == [n \in P |-> Rank(n)]
<1>1. Cardinality(P) \in Nat  BY FS_CardinalityType
<1>2. ASSUME NEW n \in P
      PROVE  IsFiniteSet(UpTo(n)) /\ Rank(n) \in 1..Cardinality(P)
  <2>1. IsFiniteSet(UpTo(n)) /\ Rank(n) <= Cardinality(P)  BY FS_Subset
  <2>2. Rank(n) \in Nat  BY <2>1, FS_CardinalityType
  <2>3. n \in UpTo(n)  OBVIOUS
  <2>4. Rank(n) # 0  BY <2>1, <2>3, FS_EmptySet
  <2> QED  BY <1>1, <2>1, <2>2, <2>4
<1>3. ASSUME NEW a \in P, NEW b \in P, a < b
      PROVE  Rank(a) # Rank(b)
  <2>1. \A m \in P : m <= a => m <= b  BY <1>3
  <2>2. b \notin UpTo(a) /\ b \in UpTo(b)  BY <1>3
  <2>3. UpTo(a) \subseteq UpTo(b) /\ UpTo(a) # UpTo(b)  BY <2>1, <2>2
  <2> QED  BY <1>2, <2>3, FS_Subset
<1>4. \A a, b \in P : Rank(a) = Rank(b) => a = b
  <2> SUFFICES ASSUME NEW a \in P, NEW b \in P, a # b  PROVE Rank(a) # Rank(b)
    OBVIOUS
  <2>1. a < b \/ b < a  OBVIOUS
  <2> QED  BY <1>3, <2>1
<1> HIDE DEF Rank
<1>5. r \in Injection(P, 1..Cardinality(P))
  BY <1>2, <1>4 DEF Injection, IsInjective
<1>6. Cardinality(1..Cardinality(P)) = Cardinality(P) /\ IsFiniteSet(1..Cardinality(P))
  BY <1>1, FS_Interval
<1>7. r \in Surjection(P, 1..Cardinality(P))  BY <1>5, <1>6, FS_Injection
<1>8. \A k \in 1..Cardinality(P) : \E n \in P : Rank(n) = k
  BY <1>7 DEF Surjection
<1>9. \A k : Nth(P, k) = CHOOSE n \in P : Rank(n) = k  BY DEF Nth, Rank
<1>10. \A k \in 1..Cardinality(P) : Nth(P, k) \in P /\ Rank(Nth(P, k)) = k
  BY <1>8, <1>9
<1>11. ASSUME NEW n \in P
       PROVE  \E k \in 1..Cardinality(P) : Nth(P, k) = n
  BY <1>2, <1>4, <1>10
<1> QED  BY <1>10, <1>11

(* load_deployment_containers lists the containers that are asked for.     *)
LEMMA InOrderFacts ==
  ASSUME NEW d \in Deployments, NEW S
  PROVE  /\ InOrder(d, S) \in Seq(S \cap Containers)
         /\ \A c \in S \cap Named(d) :
               \E n \in DOMAIN InOrder(d, S) : InOrder(d, S)[n] = c
<1> DEFINE P == {n \in DOMAIN Order[d] : Order[d][n] \in S}
           k == Cardinality(P)
<1>1. Order[d] \in Seq(Containers)  BY ContainerStoreAssumption
<1>2. IsFiniteSet(DOMAIN Order[d]) /\ DOMAIN Order[d] \subseteq Nat
  BY <1>1, FS_Interval
<1>3. IsFiniteSet(P) /\ P \subseteq Nat  BY <1>2, FS_Subset
<1>4. k \in Nat  BY <1>3, FS_CardinalityType
<1>5. InOrder(d, S) = [n \in 1..k |-> Order[d][Nth(P, n)]]  BY DEF InOrder
<1>6. \A n \in 1..k : Nth(P, n) \in P  BY <1>3, NthFacts
<1>7. \A n \in P : \E m \in 1..k : Nth(P, m) = n  BY <1>3, NthFacts
<1> HIDE DEF k
<1>8. \A n \in P : Order[d][n] \in S \cap Containers  BY <1>1
<1>9. InOrder(d, S) \in Seq(S \cap Containers)
  <2>1. InOrder(d, S) \in [1..k -> S \cap Containers]  BY <1>5, <1>6, <1>8
  <2> QED  BY <1>4, <2>1, SeqDef
<1>10. ASSUME NEW c \in S \cap Named(d)
       PROVE  \E n \in DOMAIN InOrder(d, S) : InOrder(d, S)[n] = c
  <2>1. PICK n \in P : Order[d][n] = c  BY DEF Named
  <2>2. PICK m \in 1..k : Nth(P, m) = n  BY <1>7
  <2> QED  BY <1>5, <2>1, <2>2
<1> QED  BY <1>9, <1>10

-----------------------------------------------------------------------------
(* The transactions of the store keep its types.                           *)

LEMMA CreateResourceType ==
  ASSUME db \in Tables, NEW r \in Resources
  PROVE  CreateResource(r) \in Tables
BY DEF CreateResource, Tables, ResourceStatus

LEMMA CreateContainerType ==
  ASSUME db \in Tables, NEW c \in Containers
  PROVE  CreateContainer(c) \in Tables
<1> DEFINE here == {r \in Needs[c] : db.res[r] # "none"}
           new == [db EXCEPT !.cont[c] = "Received", !.links[c] = here,
                             !.missing[c] = Needs[c] \ here]
           rows  == [d \in Deployments |-> db.rows[d] \cup (db.lacks[d] \cap {c})]
           lacks == [d \in Deployments |-> db.lacks[d] \ {c}]
<1>1. here \subseteq Resources /\ Needs[c] \subseteq Resources
  BY ContainerStoreAssumption
<1>2. /\ rows \in [Deployments -> SUBSET Containers]
      /\ lacks \in [Deployments -> SUBSET Containers]
  BY DEF Tables
<1>3. CreateContainer(c) =
        IF IsStored(c) THEN db ELSE [new EXCEPT !.rows = rows, !.lacks = lacks]
  BY DEF CreateContainer, Tables
<1> HIDE DEF here, rows, lacks
<1>4. new \in Tables  BY <1>1 DEF Tables, ContainerStatus
<1> HIDE DEF new
<1>5. [new EXCEPT !.rows = rows, !.lacks = lacks] \in Tables
  BY <1>2, <1>4 DEF Tables
<1> QED  BY <1>3, <1>5

LEMMA CreateDeploymentType ==
  ASSUME db \in Tables, NEW d \in Deployments
  PROVE  CreateDeployment(d) \in Tables
<1>1. Order[d] \in Seq(Containers)  BY ContainerStoreAssumption
<1>2. Named(d) \subseteq Containers  BY <1>1 DEF Named
<1> QED  BY <1>2 DEF CreateDeployment, Tables, DeploymentStatus

LEMMA SetDeploymentType ==
  ASSUME db \in Tables, NEW d \in Deployments, NEW status \in DeploymentStatus
  PROVE  SetDeployment(d, status) \in Tables
BY DEF SetDeployment, Tables

LEMMA UpdateDeploymentsType ==
  ASSUME db \in Tables, NEW d, NEW e
  PROVE  UpdateDeployments(d, e) \in Tables
BY DEF UpdateDeployments, Tables, DeploymentStatus

LEMMA SetContainerType ==
  ASSUME db \in Tables, NEW c, NEW status \in ContainerStatus
  PROVE  SetContainer(c, status) \in Tables
BY DEF SetContainer, Tables

LEMMA SetResourceType ==
  ASSUME db \in Tables, NEW r, NEW status \in ResourceStatus
  PROVE  SetResource(r, status) \in Tables
BY DEF SetResource, Tables

LEMMA WithoutType ==
  ASSUME db \in Tables, NEW S
  PROVE  WithoutContainers(S) \in Tables
BY DEF WithoutContainers, Tables, ContainerStatus

LEMMA NoResourceType ==
  ASSUME NEW t \in Tables, NEW r
  PROVE  [t EXCEPT !.res[r] = "none"] \in Tables
BY DEF Tables, ResourceStatus

LEMMA DeleteResourceType ==
  ASSUME db \in Tables, NEW r
  PROVE  DeleteResource(r) \in Tables
<1>1. CASE r \in Images
  <2> DEFINE new == WithoutContainers({c \in Containers : r \in db.links[c]})
  <2>1. new \in Tables  BY WithoutType
  <2>2. DeleteResource(r) = [new EXCEPT !.res[r] = "none"]
    BY <1>1 DEF DeleteResource
  <2> HIDE DEF new
  <2> QED  BY <2>1, <2>2, NoResourceType
<1>2. CASE r \notin Images
  BY <1>2 DEF DeleteResource, Tables, ResourceStatus
<1> QED  BY <1>1, <1>2

LEMMA DeleteDeploymentType ==
  ASSUME db \in Tables, NEW d
  PROVE  DeleteDeployment(d) \in Tables
BY DEF DeleteDeployment, Tables, DeploymentStatus

-----------------------------------------------------------------------------
(* The steps of an operation.                                              *)

Dos == {"publish", "fetch", "up", "create", "created", "start", "started",
        "stop", "halt", "stopped", "restart", "down", "remove", "unset",
        "drop", "reportStarted", "reportStopped"}

(* The members of a list of steps.                                         *)
Members(q) == {q[n] : n \in DOMAIN q}

LEMMA StepType ==
  ASSUME NEW do \in Dos, NEW x \in Objects
  PROVE  Step(do, x) \in Steps
BY DEF Step, Steps, Dos

LEMMA OneStep ==
  ASSUME NEW s \in Steps
  PROVE  <<s>> \in Seq(Steps) /\ Members(<<s>>) = {s} /\ Len(<<s>>) = 1
BY DEF Members

LEMMA TwoSteps ==
  ASSUME NEW s \in Steps, NEW t \in Steps
  PROVE  <<s, t>> \in Seq(Steps) /\ Members(<<s, t>>) = {s, t} /\ Len(<<s, t>>) = 2
BY DEF Members

LEMMA NoSteps == <<>> \in Seq(Steps) /\ Members(<<>>) = {}
BY DEF Members

LEMMA EachFacts ==
  ASSUME NEW do \in Dos, NEW S \in SUBSET Objects, NEW q \in Seq(S)
  PROVE  /\ Each(do, q) \in Seq(Steps)
         /\ DOMAIN Each(do, q) = DOMAIN q
         /\ \A n \in DOMAIN q : q[n] \in S /\ Each(do, q)[n] = Step(do, q[n])
         /\ \A s \in Members(Each(do, q)) : s.do = do /\ s.x \in S
<1>1. q \in [1..Len(q) -> S] /\ Len(q) \in Nat /\ DOMAIN q = 1..Len(q)
  BY LenProperties
<1>2. \A n \in 1..Len(q) : Step(do, q[n]) \in Steps  BY <1>1, StepType
<1>3. Each(do, q) = [n \in 1..Len(q) |-> Step(do, q[n])]  BY <1>1 DEF Each
<1>4. Each(do, q) \in [1..Len(q) -> Steps]  BY <1>2, <1>3
<1>5. Each(do, q) \in Seq(Steps)  BY <1>1, <1>4, SeqDef
<1>6. \A s \in Members(Each(do, q)) : s.do = do /\ s.x \in S
  BY <1>1, <1>3 DEF Members, Step
<1> QED  BY <1>1, <1>3, <1>5, <1>6

LEMMA ConcatMembers ==
  ASSUME NEW p \in Seq(Steps), NEW q \in Seq(Steps)
  PROVE  p \o q \in Seq(Steps) /\ Members(p \o q) \subseteq Members(p) \cup Members(q)
<1>1. /\ p \o q \in Seq(Steps)
      /\ Len(p \o q) = Len(p) + Len(q)
      /\ \A n \in 1..Len(p) + Len(q) :
            (p \o q)[n] = IF n <= Len(p) THEN p[n] ELSE q[n - Len(p)]
  BY ConcatProperties
<1>2. /\ DOMAIN p = 1..Len(p) /\ DOMAIN q = 1..Len(q) /\ DOMAIN (p \o q) = 1..Len(p \o q)
      /\ Len(p) \in Nat /\ Len(q) \in Nat
  BY <1>1, LenProperties
<1>3. ASSUME NEW n \in 1..Len(p) + Len(q)
      PROVE  (p \o q)[n] \in Members(p) \cup Members(q)
  <2>1. CASE n <= Len(p)
    <3>1. n \in DOMAIN p  BY <1>2, <2>1
    <3> QED  BY <1>1, <2>1, <3>1 DEF Members
  <2>2. CASE ~ n <= Len(p)
    <3>1. n - Len(p) \in DOMAIN q  BY <1>2, <2>2
    <3> QED  BY <1>1, <2>2, <3>1 DEF Members
  <2> QED  BY <2>1, <2>2
<1>4. Members(p \o q) \subseteq Members(p) \cup Members(q)
  BY <1>1, <1>2, <1>3 DEF Members
<1> QED  BY <1>1, <1>4

LEMMA TailMembers ==
  ASSUME NEW q \in Seq(Steps), q # <<>>
  PROVE  /\ Tail(q) \in Seq(Steps) /\ Members(Tail(q)) \subseteq Members(q)
         /\ Head(q) \in Steps /\ Head(q) \in Members(q)
<1>1. /\ Tail(q) \in Seq(Steps) /\ Head(q) \in Steps
      /\ Len(Tail(q)) = Len(q) - 1
      /\ \A n \in 1..Len(Tail(q)) : Tail(q)[n] = q[n + 1]
  BY HeadTailProperties
<1>2. /\ DOMAIN q = 1..Len(q) /\ DOMAIN Tail(q) = 1..Len(Tail(q))
      /\ Len(q) \in Nat \ {0}
  BY <1>1, LenProperties, EmptySeq
<1>3. Head(q) = q[1]  OBVIOUS
<1> QED  BY <1>1, <1>2, <1>3 DEF Members

(* What start_deployment does: it brings up what the joined containers     *)
(* need, then them.                                                        *)
LEMMA StartStepsFacts ==
  ASSUME db \in Tables, NEW d \in Deployments
  PROVE  /\ StartSteps(d) \in Seq(Steps)
         /\ \A s \in Members(StartSteps(d)) :
               \/ s.do = "up" /\ s.x \in Resources \cup Joined(d)
               \/ s.do = "reportStarted" /\ s.x = d
<1> DEFINE I == JoinedLinks(d) \cap Images
           V == JoinedLinks(d) \ Images
<1>1. JoinedLinks(d) \subseteq Resources /\ Joined(d) \subseteq Containers
  BY DEF JoinedLinks, Joined, Tables
<1>2. IsFiniteSet(I) /\ IsFiniteSet(V)
  BY <1>1, ContainerStoreAssumption, FS_Subset
<1>3. SetToSeq(I) \in Seq(I) /\ SetToSeq(V) \in Seq(V)
  BY <1>2, SetToSeqFacts
<1>4. InOrder(d, Joined(d)) \in Seq(Joined(d))
  <2>1. Joined(d) \cap Containers = Joined(d)  BY <1>1
  <2> QED  BY <2>1, InOrderFacts
<1>5. I \in SUBSET Objects /\ V \in SUBSET Objects /\ Joined(d) \in SUBSET Objects
  BY <1>1 DEF Objects
<1> HIDE DEF I, V
<1> DEFINE i == Each("up", SetToSeq(I))
           v == Each("up", SetToSeq(V))
           c == Each("up", InOrder(d, Joined(d)))
           e == <<Step("reportStarted", d)>>
<1>6. i \in Seq(Steps) /\ \A s \in Members(i) : s.do = "up" /\ s.x \in I
  BY <1>3, <1>5, EachFacts DEF Dos
<1>7. v \in Seq(Steps) /\ \A s \in Members(v) : s.do = "up" /\ s.x \in V
  BY <1>3, <1>5, EachFacts DEF Dos
<1>8. c \in Seq(Steps) /\ \A s \in Members(c) : s.do = "up" /\ s.x \in Joined(d)
  BY <1>4, <1>5, EachFacts DEF Dos
<1>9. e \in Seq(Steps) /\ \A s \in Members(e) : s.do = "reportStarted" /\ s.x = d
  <2>1. Step("reportStarted", d) \in Steps  BY StepType DEF Dos, Objects
  <2>2. e \in Seq(Steps) /\ Members(e) = {Step("reportStarted", d)}  BY <2>1, OneStep
  <2> QED  BY <2>2 DEF Step
<1>10. StartSteps(d) = i \o v \o c \o e  BY DEF StartSteps, I, V
<1> HIDE DEF i, v, c, e
<1>11. i \o v \in Seq(Steps) /\ Members(i \o v) \subseteq Members(i) \cup Members(v)
  BY <1>6, <1>7, ConcatMembers
<1>12. /\ i \o v \o c \in Seq(Steps)
       /\ Members(i \o v \o c) \subseteq Members(i) \cup Members(v) \cup Members(c)
  BY <1>8, <1>11, ConcatMembers
<1>13. /\ StartSteps(d) \in Seq(Steps)
       /\ Members(StartSteps(d))
             \subseteq Members(i) \cup Members(v) \cup Members(c) \cup Members(e)
  BY <1>9, <1>10, <1>12, ConcatMembers
<1>14. I \subseteq Resources /\ V \subseteq Resources  BY <1>1 DEF I, V
<1> QED  BY <1>6, <1>7, <1>8, <1>9, <1>13, <1>14

LEMMA StopStepsFacts ==
  ASSUME NEW d \in Deployments, NEW S
  PROVE  LET q == Each("stop", InOrder(d, S)) IN
         /\ q \in Seq(Steps)
         /\ \A s \in Members(q) : s.do = "stop" /\ s.x \in S
         /\ \A c \in S \cap Named(d) : Step("stop", c) \in Members(q)
<1> DEFINE o == InOrder(d, S)
           q == Each("stop", o)
<1>1. /\ o \in Seq(S \cap Containers)
      /\ \A c \in S \cap Named(d) : \E n \in DOMAIN o : o[n] = c
  <2>1. o \in Seq(S \cap Containers)  BY InOrderFacts
  <2>2. \A c \in S \cap Named(d) : \E n \in DOMAIN InOrder(d, S) : InOrder(d, S)[n] = c
    BY InOrderFacts, ZenonT(60)
  <2> QED  BY <2>1, <2>2
<1> HIDE DEF o
<1>2. S \cap Containers \in SUBSET Objects /\ "stop" \in Dos  BY DEF Objects, Dos
<1>3. /\ q \in Seq(Steps) /\ DOMAIN q = DOMAIN o
      /\ \A n \in DOMAIN o : q[n] = Step("stop", o[n])
      /\ \A s \in Members(q) : s.do = "stop" /\ s.x \in S \cap Containers
  BY <1>1, <1>2, EachFacts
<1> HIDE DEF q
<1>4. \A c \in S \cap Named(d) : Step("stop", c) \in Members(q)
  BY <1>1, <1>3 DEF Members
<1> QED  BY <1>3, <1>4 DEF q, o

(* Reverse lists the same.                                                 *)
LEMMA ReverseFacts ==
  ASSUME NEW S, NEW q \in Seq(S)
  PROVE  /\ Reverse(q) \in Seq(S)
         /\ \A x : (\E n \in DOMAIN q : q[n] = x)
                  => \E n \in DOMAIN Reverse(q) : Reverse(q)[n] = x
<1>1. q \in [1..Len(q) -> S] /\ Len(q) \in Nat /\ DOMAIN q = 1..Len(q)
  BY LenProperties
<1>2. Reverse(q) = [n \in 1..Len(q) |-> q[Len(q) - n + 1]]  BY DEF Reverse
<1>3. \A n \in 1..Len(q) : Len(q) - n + 1 \in 1..Len(q)  BY <1>1
<1>4. Reverse(q) \in [1..Len(q) -> S]  BY <1>1, <1>2, <1>3
<1>5. Reverse(q) \in Seq(S)  BY <1>1, <1>4, SeqDef
<1>6. ASSUME NEW n \in 1..Len(q)
      PROVE  \E m \in DOMAIN Reverse(q) : Reverse(q)[m] = q[n]
  <2>1. Len(q) - n + 1 \in 1..Len(q) /\ Len(q) - (Len(q) - n + 1) + 1 = n
    BY <1>1
  <2> QED  BY <1>2, <2>1
<1> QED  BY <1>1, <1>5, <1>6

(* The four parts of delete_deployment.                                    *)
DownContainers(d) == Each("down", Reverse(InOrder(d, ContainersToDelete(d))))
DownVolumes(d)    == Each("down", SetToSeq(ResourcesToDelete(d) \ Images))
DownImages(d)     == Each("down", SetToSeq(ResourcesToDelete(d) \cap Images))
DropSelf(d)       == <<Step("unset", d), Step("drop", d)>>

LEMMA DownContainersFacts ==
  ASSUME db \in Tables, NEW d \in Deployments
  PROVE  /\ DownContainers(d) \in Seq(Steps)
         /\ \A s \in Members(DownContainers(d)) :
               s.do = "down" /\ s.x \in ContainersToDelete(d)
         /\ \A c \in ContainersToDelete(d) \cap Named(d) :
               \E n \in DOMAIN DownContainers(d) :
                 DownContainers(d)[n] = Step("down", c)
<1> DEFINE S == ContainersToDelete(d)
           o == InOrder(d, S)
           r == Reverse(o)
<1>1. S \subseteq Containers  BY DEF ContainersToDelete, Joined, Tables
<1> HIDE DEF S
<1>2. /\ o \in Seq(S)
      /\ \A c \in S \cap Named(d) : \E n \in DOMAIN o : o[n] = c
  <2>1. S \cap Containers = S  BY <1>1
  <2>2. /\ o \in Seq(S \cap Containers)
        /\ \A c \in S \cap Named(d) : \E n \in DOMAIN o : o[n] = c
    BY InOrderFacts, SMTT(30)
  <2> QED  BY <2>1, <2>2
<1> HIDE DEF o
<1>3. /\ r \in Seq(S)
      /\ \A c \in S \cap Named(d) : \E n \in DOMAIN r : r[n] = c
  BY <1>2, ReverseFacts
<1> HIDE DEF r
<1>4. S \in SUBSET Objects  BY <1>1 DEF Objects
<1>5. /\ Each("down", r) \in Seq(Steps)
      /\ DOMAIN Each("down", r) = DOMAIN r
      /\ \A n \in DOMAIN r : Each("down", r)[n] = Step("down", r[n])
      /\ \A s \in Members(Each("down", r)) : s.do = "down" /\ s.x \in S
  BY <1>3, <1>4, EachFacts DEF Dos
<1>6. DownContainers(d) = Each("down", r)  BY DEF DownContainers, r, o, S
<1> QED  BY <1>3, <1>5, <1>6 DEF S

LEMMA DownResourcesFacts ==
  ASSUME db \in Tables, NEW d \in Deployments
  PROVE  /\ DownVolumes(d) \in Seq(Steps) /\ DownImages(d) \in Seq(Steps)
         /\ \A s \in Members(DownVolumes(d)) :
               s.do = "down" /\ s.x \in Resources \ Images
         /\ \A s \in Members(DownImages(d)) :
               s.do = "down" /\ s.x \in ResourcesToDelete(d) \cap Images
<1> DEFINE I == ResourcesToDelete(d) \cap Images
           V == ResourcesToDelete(d) \ Images
<1>1. JoinedLinks(d) \subseteq Resources  BY DEF JoinedLinks, Joined, Tables
<1>2. I \subseteq Resources /\ V \subseteq Resources \ Images
  BY <1>1 DEF ResourcesToDelete
<1>3. IsFiniteSet(I) /\ IsFiniteSet(V)
  BY <1>2, ContainerStoreAssumption, FS_Subset
<1> HIDE DEF I, V
<1>4. SetToSeq(I) \in Seq(I) /\ SetToSeq(V) \in Seq(V)
  BY <1>3, SetToSeqFacts
<1>5. I \in SUBSET Objects /\ V \in SUBSET Objects /\ "down" \in Dos
  BY <1>2 DEF Objects, Dos
<1>6. /\ Each("down", SetToSeq(I)) \in Seq(Steps)
      /\ \A s \in Members(Each("down", SetToSeq(I))) : s.do = "down" /\ s.x \in I
  BY <1>4, <1>5, EachFacts
<1>7. /\ Each("down", SetToSeq(V)) \in Seq(Steps)
      /\ \A s \in Members(Each("down", SetToSeq(V))) : s.do = "down" /\ s.x \in V
  BY <1>4, <1>5, EachFacts
<1>8. /\ DownImages(d) = Each("down", SetToSeq(I))
      /\ DownVolumes(d) = Each("down", SetToSeq(V))
  BY DEF DownImages, DownVolumes, I, V
<1>9. \A s \in Members(DownImages(d)) : s.do = "down" /\ s.x \in ResourcesToDelete(d) \cap Images
  BY <1>6, <1>8 DEF I
<1> QED  BY <1>2, <1>6, <1>7, <1>8, <1>9

LEMMA DropSelfFacts ==
  ASSUME NEW d \in Deployments
  PROVE  /\ DropSelf(d) \in Seq(Steps) /\ Len(DropSelf(d)) = 2
         /\ DropSelf(d)[1] = Step("unset", d) /\ DropSelf(d)[2] = Step("drop", d)
         /\ Members(DropSelf(d)) = {Step("unset", d), Step("drop", d)}
<1>1. Step("unset", d) \in Steps /\ Step("drop", d) \in Steps
  BY StepType DEF Dos, Objects
<1> QED  BY <1>1, TwoSteps DEF DropSelf

LEMMA DeleteStepsType ==
  ASSUME db \in Tables, NEW d \in Deployments
  PROVE  DeleteSteps(d) \in Seq(Steps)
<1> DEFINE c == DownContainers(d)
           v == DownVolumes(d)
           i == DownImages(d)
           e == DropSelf(d)
<1>1. DeleteSteps(d) = c \o v \o i \o e
  BY DEF DeleteSteps, DownContainers, DownVolumes, DownImages, DropSelf
<1>2. /\ c \in Seq(Steps) /\ v \in Seq(Steps)
      /\ i \in Seq(Steps) /\ e \in Seq(Steps)
  BY DownContainersFacts, DownResourcesFacts, DropSelfFacts
<1> HIDE DEF c, v, i, e
<1>3. c \o v \in Seq(Steps)  BY <1>2, ConcatMembers
<1>4. c \o v \o i \in Seq(Steps)  BY <1>2, <1>3, ConcatMembers
<1>5. c \o v \o i \o e \in Seq(Steps)  BY <1>2, <1>4, ConcatMembers
<1> QED  BY <1>1, <1>5

-----------------------------------------------------------------------------
(* The operations.                                                         *)

OpOK ==
    /\ op \in Operations
    /\ todo \in Seq(Steps)
    /\ errors \subseteq Deployments
    /\ op = Idle => todo = <<>>
    /\ op.kind = "update" => op.x \in Deployments

(* A container that the store lets the server reach.                       *)
Owned(c) == \E d \in Deployments : c \in Joined(d)

(* Steps that delete nothing, and create only what belongs to a deployment.*)
Benign(q) ==
    \A s \in Members(q) :
      /\ s.do \notin {"down", "drop"}
      /\ s.do \in {"up", "create"} /\ s.x \in Containers => Owned(s.x)

LEMMA OperationFacts ==
  ASSUME NEW kind \in {"publish", "refresh", "start", "stop", "delete"},
         NEW x \in Objects
  PROVE  /\ Operation(kind, x) \in Operations /\ Operation(kind, x) # Idle
         /\ Operation(kind, x).kind # "update"
<1>1. <<>> \in Seq(Containers)  BY EmptySeq
<1> QED  BY <1>1 DEF Operation, Idle, Operations

LEMMA StartBenign ==
  ASSUME db \in Tables, NEW d \in Deployments
  PROVE  Benign(StartSteps(d))
<1> SUFFICES ASSUME NEW s \in Members(StartSteps(d))
             PROVE  /\ s.do \notin {"down", "drop"}
                    /\ s.do \in {"up", "create"} /\ s.x \in Containers => Owned(s.x)
  BY DEF Benign
<1>1. CASE s.do = "up" /\ s.x \in Resources \cup Joined(d)
  <2>1. s.x \in Containers => s.x \in Joined(d)
    BY <1>1, ContainerStoreAssumption
  <2> QED  BY <1>1, <2>1 DEF Owned
<1>2. CASE s.do = "reportStarted"  BY <1>2
<1> QED  BY <1>1, <1>2, StartStepsFacts

LEMMA NotFoundFacts ==
  ASSUME OpOK, op = Idle, NEW D \in SUBSET Deployments, NotFound(D)
  PROVE  OpOK' /\ Benign(todo')
BY NoSteps DEF OpOK, NotFound, Benign

LEMMA BeginPublishFacts ==
  ASSUME OpOK, NEW x \in Objects, BeginPublish(x)
  PROVE  OpOK' /\ Benign(todo')
<1> DEFINE p == <<Step("publish", x)>>
           f == IF x \in Deployments THEN <<>> ELSE <<Step("fetch", x)>>
<1>1. Step("publish", x) \in Steps /\ Step("fetch", x) \in Steps
  BY StepType DEF Dos
<1>2. p \in Seq(Steps) /\ Members(p) = {Step("publish", x)}
  BY <1>1, OneStep
<1>3. f \in Seq(Steps) /\ Members(f) \subseteq {Step("fetch", x)}
  <2>1. CASE x \in Deployments  BY <2>1, NoSteps
  <2>2. CASE x \notin Deployments  BY <1>1, <2>2, OneStep
  <2> QED  BY <2>1, <2>2
<1>4. todo' = p \o f /\ op' = Operation("publish", x) /\ errors' = errors
  BY DEF BeginPublish, Begin
<1> HIDE DEF p, f
<1>5. /\ todo' \in Seq(Steps)
      /\ Members(todo') \subseteq {Step("publish", x), Step("fetch", x)}
  BY <1>2, <1>3, <1>4, ConcatMembers
<1>6. Benign(todo')  BY <1>5 DEF Benign, Step
<1> QED  BY <1>4, <1>5, <1>6, OperationFacts DEF OpOK

LEMMA BeginRefreshFacts ==
  ASSUME OpOK, NEW c \in Containers, BeginRefresh(c)
  PROVE  OpOK' /\ Benign(todo')
<1>1. c \in Objects  BY DEF Objects
<1>2. Step("fetch", c) \in Steps  BY <1>1, StepType DEF Dos
<1>3. /\ todo' = <<Step("fetch", c)>> /\ op' = Operation("refresh", c)
      /\ errors' = errors
  BY DEF BeginRefresh, Begin
<1>4. todo' \in Seq(Steps) /\ Members(todo') = {Step("fetch", c)}
  BY <1>2, <1>3, OneStep
<1>5. Benign(todo')  BY <1>4 DEF Benign, Step
<1> QED  BY <1>1, <1>3, <1>4, <1>5, OperationFacts DEF OpOK

LEMMA BeginStartFacts ==
  ASSUME OpOK, op = Idle, db \in Tables, NEW d \in Deployments, BeginStart(d)
  PROVE  OpOK' /\ Benign(todo')
<1>1. CASE IsComplete(d)
  <2>1. /\ todo' = StartSteps(d) /\ op' = Operation("start", d)
        /\ errors' = errors
    BY <1>1 DEF BeginStart, Begin
  <2>2. d \in Objects  BY DEF Objects
  <2>3. todo' \in Seq(Steps)  BY <2>1, StartStepsFacts
  <2>4. Benign(todo')  BY <2>1, StartBenign
  <2> QED  BY <2>1, <2>2, <2>3, <2>4, OperationFacts DEF OpOK
<1>2. CASE ~ IsComplete(d)
  BY <1>2, NotFoundFacts DEF BeginStart
<1> QED  BY <1>1, <1>2

LEMMA BeginStopFacts ==
  ASSUME OpOK, op = Idle, db \in Tables, NEW d \in Deployments, BeginStop(d)
  PROVE  OpOK' /\ Benign(todo')
<1>1. CASE db.dep[d] # "none"
  <2> DEFINE q == Each("stop", InOrder(d, db.rows[d]))
             e == <<Step("reportStopped", d)>>
  <2>1. d \in Objects  BY DEF Objects
  <2>2. Step("reportStopped", d) \in Steps  BY <2>1, StepType DEF Dos
  <2>3. e \in Seq(Steps) /\ Members(e) = {Step("reportStopped", d)}
    BY <2>2, OneStep
  <2>4. q \in Seq(Steps) /\ \A s \in Members(q) : s.do = "stop"
    BY StopStepsFacts
  <2>5. todo' = q \o e /\ op' = Operation("stop", d) /\ errors' = errors
    BY <1>1 DEF BeginStop, Begin
  <2> HIDE DEF q, e
  <2>6. todo' \in Seq(Steps) /\ Members(todo') \subseteq Members(q) \cup Members(e)
    BY <2>3, <2>4, <2>5, ConcatMembers
  <2>7. Step("reportStopped", d).do = "reportStopped"  BY DEF Step
  <2>8. Benign(todo')  BY <2>3, <2>4, <2>6, <2>7 DEF Benign
  <2> QED  BY <2>1, <2>5, <2>6, <2>8, OperationFacts DEF OpOK
<1>2. CASE db.dep[d] = "none"
  BY <1>2, NotFoundFacts DEF BeginStop
<1> QED  BY <1>1, <1>2

LEMMA BeginUpdateFacts ==
  ASSUME OpOK, op = Idle, db \in Tables,
         NEW from \in Deployments, NEW to \in Deployments, BeginUpdate(from, to)
  PROVE  OpOK' /\ Benign(todo')
<1>1. CASE db.dep[from] # "none" /\ IsComplete(to)
  <2> DEFINE back == InOrder(from, ContainersToStop(from, to))
             q == Each("stop", back)
             e == <<Step("reportStopped", from)>>
             new == [kind |-> "update", x |-> from, to |-> to, back |-> back]
  <2>1. from \in Objects /\ to \in Objects  BY DEF Objects
  <2>2. Step("reportStopped", from) \in Steps  BY <2>1, StepType DEF Dos
  <2>3. e \in Seq(Steps) /\ Members(e) = {Step("reportStopped", from)}
    BY <2>2, OneStep
  <2>4. q \in Seq(Steps) /\ \A s \in Members(q) : s.do = "stop"
    BY StopStepsFacts
  <2>5. todo' = q \o e \o StartSteps(to) /\ op' = new /\ errors' = errors
    BY <1>1 DEF BeginUpdate, Begin
  <2>6. back \in Seq(Containers)
    <3>1. back \in Seq(ContainersToStop(from, to) \cap Containers)
      BY InOrderFacts
    <3> HIDE DEF back
    <3> QED  BY <3>1, SeqMonotonic
  <2> HIDE DEF back
  <2>7. new \in Operations /\ new # Idle /\ new.x = from
    BY <2>1, <2>6 DEF Operations, Idle
  <2> HIDE DEF q, e, new
  <2>8. q \o e \in Seq(Steps) /\ Members(q \o e) \subseteq Members(q) \cup Members(e)
    BY <2>3, <2>4, ConcatMembers
  <2>9. /\ todo' \in Seq(Steps)
        /\ Members(todo') \subseteq Members(q) \cup Members(e) \cup Members(StartSteps(to))
    BY <2>5, <2>8, StartStepsFacts, ConcatMembers
  <2>10. Step("reportStopped", from).do = "reportStopped"  BY DEF Step
  <2>11. Benign(todo')
    BY <2>3, <2>4, <2>9, <2>10, StartBenign DEF Benign
  <2> QED  BY <2>5, <2>7, <2>9, <2>11 DEF OpOK
<1>2. CASE ~ (db.dep[from] # "none" /\ IsComplete(to))
  <2>1. NotFound({from, to})  BY <1>2 DEF BeginUpdate
  <2> QED  BY <2>1, NotFoundFacts
<1> QED  BY <1>1, <1>2

LEMMA BeginDeleteFacts ==
  ASSUME OpOK, op = Idle, db \in Tables, NEW d \in Deployments, BeginDelete(d)
  PROVE  OpOK' /\ (Benign(todo') \/ todo' = DeleteSteps(d))
<1>1. CASE db.dep[d] # "none"
  <2>1. /\ todo' = DeleteSteps(d) /\ op' = Operation("delete", d)
        /\ errors' = errors
    BY <1>1 DEF BeginDelete, Begin
  <2>2. d \in Objects  BY DEF Objects
  <2> QED  BY <2>1, <2>2, DeleteStepsType, OperationFacts DEF OpOK
<1>2. CASE db.dep[d] = "none"
  BY <1>2, NotFoundFacts DEF BeginDelete
<1> QED  BY <1>1, <1>2

(* Whatever the service begins with.                                       *)
LEMMA BeginEventFacts ==
  ASSUME OpOK, op = Idle, db \in Tables, NEW e \in Events, BeginEvent(e)
  PROVE  /\ OpOK'
         /\ Benign(todo') \/ \E d \in Deployments : todo' = DeleteSteps(d)
<1>1. \/ e.kind = "publish" /\ e.x \in Objects
      \/ e.kind = "refresh" /\ e.x \in Containers
      \/ e.kind \in {"start", "stop", "delete"} /\ e.x \in Deployments
      \/ e.kind = "update" /\ e.x \in Deployments /\ e.to \in Deployments
  BY DEF Events, Creations, Commands, Refreshes, Event, Update
<1>2. CASE e.kind = "publish" /\ e.x \in Objects
  BY <1>2, BeginPublishFacts DEF BeginEvent
<1>3. CASE e.kind = "refresh" /\ e.x \in Containers
  BY <1>3, BeginRefreshFacts DEF BeginEvent
<1>4. CASE e.kind = "start" /\ e.x \in Deployments
  BY <1>4, BeginStartFacts DEF BeginEvent
<1>5. CASE e.kind = "stop" /\ e.x \in Deployments
  BY <1>5, BeginStopFacts DEF BeginEvent
<1>6. CASE e.kind = "delete" /\ e.x \in Deployments
  BY <1>6, BeginDeleteFacts DEF BeginEvent
<1>7. CASE e.kind = "update" /\ e.x \in Deployments /\ e.to \in Deployments
  BY <1>7, BeginUpdateFacts DEF BeginEvent
<1> QED  BY <1>1, <1>2, <1>3, <1>4, <1>5, <1>6, <1>7

-----------------------------------------------------------------------------
(* Type correctness.                                                       *)

Phases == {"boot", "resources", "containers", "deployments", "delete", "stop",
           "start", "loop", "down"}

BatchOK == phase \in {"delete", "stop", "start"} => batch \subseteq Deployments

Typed == TypeOK /\ OpOK /\ BatchOK

DataOK ==
    /\ db \in Tables
    /\ docker \in [Containers -> DockerStates] /\ present \subseteq Resources
    /\ prop \in [Objects -> PropValues]

LEMMA PhaseFacts ==
  /\ {InitPhases[n] : n \in DOMAIN InitPhases} \cup {"loop", "down"} = Phases
  /\ \A ph \in Phases \ {"loop", "down"} : PhaseAfter(ph) \in Phases \ {"boot", "down"}
<1>1. DOMAIN InitPhases = 1..7 /\ Len(InitPhases) = 7  BY DEF InitPhases
<1>2. /\ InitPhases[1] = "boot" /\ InitPhases[2] = "resources"
      /\ InitPhases[3] = "containers" /\ InitPhases[4] = "deployments"
      /\ InitPhases[5] = "delete" /\ InitPhases[6] = "stop"
      /\ InitPhases[7] = "start"
  BY DEF InitPhases
<1>3. 1..7 = {1, 2, 3, 4, 5, 6, 7}  OBVIOUS
<1>4. \A n \in 1..7 : InitPhases[n] \in Phases \ {"loop", "down"}
  BY <1>2, <1>3 DEF Phases
<1>5. \A ph \in Phases \ {"loop", "down"} : \E n \in 1..7 : InitPhases[n] = ph
  <2> SUFFICES ASSUME NEW ph \in Phases \ {"loop", "down"}
               PROVE  \E n \in 1..7 : InitPhases[n] = ph
    OBVIOUS
  <2>1. ph \in {"boot", "resources", "containers", "deployments", "delete", "stop", "start"}
    BY DEF Phases
  <2> QED  BY <1>2, <1>3, <2>1
<1>6. ASSUME NEW ph \in Phases \ {"loop", "down"}
      PROVE  PhaseAfter(ph) \in Phases \ {"boot", "down"}
  <2> DEFINE n == CHOOSE n \in DOMAIN InitPhases : InitPhases[n] = ph
  <2>1. n \in 1..7  BY <1>1, <1>5
  <2>2. PhaseAfter(ph) = IF n = 7 THEN "loop" ELSE InitPhases[n + 1]
    BY <1>1 DEF PhaseAfter
  <2> HIDE DEF n
  <2>3. CASE n = 7  BY <2>2, <2>3 DEF Phases
  <2>4. CASE n # 7
    <3>1. n + 1 \in {2, 3, 4, 5, 6, 7}  BY <2>1, <2>4
    <3> QED  BY <1>2, <2>2, <2>4, <3>1 DEF Phases
  <2> QED  BY <2>3, <2>4
<1>7. {InitPhases[n] : n \in 1..7} \cup {"loop", "down"} = Phases
  BY <1>4, <1>5 DEF Phases
<1> QED  BY <1>1, <1>6, <1>7

LEMMA DoingFacts ==
  ASSUME OpOK, NEW do, Doing(do)
  PROVE  /\ todo # <<>> /\ Head(todo) \in Steps /\ Head(todo) \in Members(todo)
         /\ Head(todo).do = do /\ Subject \in Objects
         /\ Tail(todo) \in Seq(Steps) /\ Members(Tail(todo)) \subseteq Members(todo)
<1>1. todo # <<>> /\ Head(todo).do = do  BY DEF Doing
<1>2. /\ Head(todo) \in Steps /\ Head(todo) \in Members(todo)
      /\ Tail(todo) \in Seq(Steps) /\ Members(Tail(todo)) \subseteq Members(todo)
  BY <1>1, TailMembers DEF OpOK
<1> QED  BY <1>1, <1>2 DEF Subject, Steps

LEMMA ContinueFacts ==
  ASSUME OpOK, todo # <<>>, NEW s \in Seq(Steps), Continue(s)
  PROVE  OpOK' /\ UNCHANGED <<phase, batch>>
<1>1. todo' = s \o Tail(todo) /\ UNCHANGED <<op, errors, phase, batch>>
  BY DEF Continue
<1>2. todo' \in Seq(Steps)  BY <1>1, TailMembers, ConcatMembers DEF OpOK
<1> QED  BY <1>1, <1>2 DEF OpOK

LEMMA FailFacts ==
  ASSUME OpOK, BatchOK, Fail
  PROVE  /\ OpOK' /\ Benign(todo')
         /\ \/ UNCHANGED <<phase, batch>>
            \/ phase' = "down" /\ batch' = {}
<1>1. errors' \subseteq Deployments  BY DEF Fail, OpOK
<1>2. CASE op.kind = "update"
  <2> DEFINE q == Each("restart", op.back)
             e == <<Step("reportStarted", op.x)>>
             new == [op EXCEPT !.kind = "restart"]
  <2>1. op.x \in Objects /\ Containers \in SUBSET Objects
    BY <1>2 DEF OpOK, Objects
  <2>2. Step("reportStarted", op.x) \in Steps  BY <2>1, StepType DEF Dos
  <2>3. e \in Seq(Steps) /\ Members(e) = {Step("reportStarted", op.x)}
    BY <2>2, OneStep
  <2>4. op.back \in Seq(Containers)  BY DEF OpOK, Operations
  <2> HIDE DEF e, new
  <2>12. "restart" \in Dos  BY DEF Dos
  <2>5. q \in Seq(Steps) /\ \A s \in Members(q) : s.do = "restart"
    BY <2>1, <2>4, <2>12, EachFacts
  <2>6. todo' = q \o e /\ op' = new  BY <1>2 DEF Fail, e, new
  <2>7. new \in Operations /\ new # Idle /\ new.kind # "update"
    BY DEF OpOK, Operations, Idle, new
  <2> HIDE DEF q
  <2>8. todo' \in Seq(Steps) /\ Members(todo') \subseteq Members(q) \cup Members(e)
    BY <2>3, <2>5, <2>6, ConcatMembers
  <2>9. Step("reportStarted", op.x).do = "reportStarted"  BY DEF Step
  <2>10. Benign(todo')  BY <2>3, <2>5, <2>8, <2>9 DEF Benign
  <2>11. OpOK'  BY <1>1, <2>6, <2>7, <2>8 DEF OpOK
  <2> QED  BY <2>10, <2>11 DEF Fail
<1>3. CASE op.kind # "update"
  <2>1. op' = Idle /\ todo' = <<>>  BY <1>3 DEF Fail
  <2>2. Idle \in Operations /\ Idle.kind # "update"
    BY EmptySeq DEF Idle, Operations
  <2>3. Benign(todo')  BY <2>1, NoSteps DEF Benign
  <2>4. OpOK'  BY <1>1, <2>1, <2>2, NoSteps DEF OpOK
  <2> QED  BY <2>3, <2>4 DEF Fail
<1> QED  BY <1>2, <1>3

(* A step of the service that goes on or fails.                            *)
LEMMA WorkType ==
  ASSUME Typed, todo # <<>>, DataOK',
         Fail \/ \E s \in Seq(Steps) : Continue(s),
         UNCHANGED <<sending, queue, noticed, unborn, commands, outside, crashes>>,
         faults' \in 0..MaxMishaps
  PROVE  Typed'
<1>1. /\ OpOK'
      /\ \/ UNCHANGED <<phase, batch>>
         \/ phase' = "down" /\ batch' = {}
  BY FailFacts, ContinueFacts DEF Typed
<1>2. BatchOK' /\ batch' \subseteq Objects  BY <1>1 DEF Typed, BatchOK, TypeOK
<1>3. phase' \in Phases  BY <1>1, PhaseFacts DEF Typed, TypeOK, Phases
<1> QED  BY <1>1, <1>2, <1>3, PhaseFacts DEF Typed, TypeOK, OpOK, DataOK

(* What the steps go on with.                                              *)
LEMMA NextSteps ==
  ASSUME NEW x \in Objects
  PROVE  /\ \A do \in Dos : <<Step(do, x)>> \in Seq(Steps)
         /\ \A do, then \in Dos : <<Step(do, x), Step(then, x)>> \in Seq(Steps)
<1>1. \A do \in Dos : Step(do, x) \in Steps  BY StepType
<1> QED  BY <1>1, OneStep, TwoSteps

UpSteps ==
    (IF Exists(Subject) /\ Subject \notin AlwaysPull THEN <<>> ELSE Steps2("create", "created"))
      \o (IF Subject \in Containers THEN Steps2("start", "started") ELSE <<>>)

DownSteps ==
    (IF Exists(Subject)
     THEN (IF Subject \in Containers THEN <<Step("halt", Subject)>> ELSE <<>>)
            \o <<Step("remove", Subject)>>
     ELSE <<>>) \o Steps2("unset", "drop")

StopSteps == IF Exists(Subject) THEN Steps2("halt", "stopped") ELSE <<>>
RestartSteps == IF Exists(Subject) THEN Steps2("start", "started") ELSE <<>>

LEMMA LookSteps ==
  ASSUME Subject \in Objects
  PROVE  /\ UpSteps \in Seq(Steps) /\ DownSteps \in Seq(Steps)
         /\ StopSteps \in Seq(Steps) /\ RestartSteps \in Seq(Steps)
<1>1. /\ Steps2("create", "created") \in Seq(Steps)
      /\ Steps2("start", "started") \in Seq(Steps)
      /\ Steps2("halt", "stopped") \in Seq(Steps)
      /\ Steps2("unset", "drop") \in Seq(Steps)
      /\ <<Step("halt", Subject)>> \in Seq(Steps)
      /\ <<Step("remove", Subject)>> \in Seq(Steps)
      /\ <<>> \in Seq(Steps)
  BY NextSteps, NoSteps DEF Steps2, Dos
<1>2. UpSteps \in Seq(Steps)
  <2> DEFINE p == IF Exists(Subject) /\ Subject \notin AlwaysPull
                  THEN <<>> ELSE Steps2("create", "created")
             q == IF Subject \in Containers THEN Steps2("start", "started") ELSE <<>>
  <2>1. p \in Seq(Steps) /\ q \in Seq(Steps)  BY <1>1
  <2>2. UpSteps = p \o q  BY DEF UpSteps
  <2> HIDE DEF p, q
  <2> QED  BY <2>1, <2>2, ConcatMembers
<1>3. DownSteps \in Seq(Steps)
  <2> DEFINE h == IF Subject \in Containers THEN <<Step("halt", Subject)>> ELSE <<>>
             r == <<Step("remove", Subject)>>
             p == IF Exists(Subject) THEN h \o r ELSE <<>>
  <2>1. h \in Seq(Steps) /\ r \in Seq(Steps)  BY <1>1
  <2>2. DownSteps = p \o Steps2("unset", "drop")  BY DEF DownSteps
  <2> HIDE DEF h, r
  <2>3. h \o r \in Seq(Steps)  BY <2>1, ConcatMembers
  <2>4. p \in Seq(Steps)  BY <1>1, <2>3
  <2> HIDE DEF p
  <2> QED  BY <1>1, <2>2, <2>4, ConcatMembers
<1>4. StopSteps \in Seq(Steps) /\ RestartSteps \in Seq(Steps)
  BY <1>1 DEF StopSteps, RestartSteps
<1> QED  BY <1>2, <1>3, <1>4

LEMMA SeenType ==
  ASSUME DataOK, NEW x \in Objects
  PROVE  Seen(x) \in PropValues
<1>1. CASE x \in Containers
  <2>1. docker[x] \in DockerStates  BY <1>1 DEF DataOK
  <2>2. ContainerValue[docker[x]] \in PropValues
    BY <2>1 DEF ContainerValue, DockerStates, PropValues
  <2> QED  BY <1>1, <2>2 DEF Seen
<1>2. CASE x \notin Containers  BY <1>2 DEF Seen, PropValues
<1> QED  BY <1>1, <1>2

LEMMA SendType ==
  ASSUME DataOK, NEW value \in PropValues, Send(value)
  PROVE  prop' \in [Objects -> PropValues]
BY DEF DataOK, Send

(* A step that begins with fetch.                                          *)
LEMMA LookType ==
  ASSUME Typed, NEW do, NEW steps \in Seq(Steps), Look(do, steps)
  PROVE  Typed'
<1>1. Subject \in Objects /\ todo # <<>>  BY DoingFacts DEF Typed, Look
<1>2. DataOK  BY DEF Typed, TypeOK, DataOK
<1>3. prop' \in [Objects -> PropValues]
  BY <1>1, <1>2, SeenType, SendType DEF Look, DataOK
<1>4. DataOK'  BY <1>2, <1>3 DEF Look, storeVars, dockerVars, DataOK
<1>5. faults' \in 0..MaxMishaps
  BY DEF Look, StepOnly, boundVars, Typed, TypeOK
<1> QED
  BY <1>1, <1>4, <1>5, WorkType DEF Look, StepOnly, boundVars

LEMMA RecordType ==
  ASSUME Typed, NEW do, NEW value \in PropValues, NEW tables \in Tables,
         Record(do, value, tables)
  PROVE  Typed'
<1>1. Subject \in Objects /\ todo # <<>>  BY DoingFacts DEF Typed, Record
<1>2. DataOK  BY DEF Typed, TypeOK, DataOK
<1>3. prop' \in [Objects -> PropValues]  BY <1>2, SendType DEF Record
<1>4. db' \in Tables  BY <1>2 DEF Record, DataOK
<1>5. DataOK'  BY <1>2, <1>3, <1>4 DEF Record, dockerVars, DataOK
<1>6. faults' \in 0..MaxMishaps
  BY DEF Record, StepOnly, boundVars, Typed, TypeOK
<1> QED
  BY <1>1, <1>5, <1>6, NoSteps, WorkType DEF Record, StepOnly, boundVars

LEMMA MarkMissingType ==
  ASSUME DataOK, MarkMissing
  PROVE  db' \in Tables /\ prop' \in [Objects -> PropValues]
<1>1. "Received" \in PropValues /\ "Published" \in ContainerStatus
  BY DEF PropValues, ContainerStatus
<1>2. prop' \in [Objects -> PropValues]  BY <1>1, SendType DEF MarkMissing
<1>3. SetContainer(Subject, "Published") \in Tables
  BY <1>1, SetContainerType DEF DataOK
<1> QED  BY <1>2, <1>3 DEF MarkMissing, DataOK

(* The steps of an operation, each by what it does to the data.            *)
LEMMA ServiceType ==
  ASSUME Typed,
         \/ Publish \/ Fetch \/ Up \/ StopLook \/ RestartLook \/ Down
         \/ Create \/ Created \/ Start \/ Started \/ Halt \/ Stopped
         \/ RemoveObject \/ Unset \/ Drop \/ Report
  PROVE  Typed'
<1>1. DataOK /\ OpOK  BY DEF Typed, TypeOK, DataOK
<1>2. ASSUME NEW do, Doing(do)  PROVE Subject \in Objects /\ todo # <<>>
  BY <1>1, <1>2, DoingFacts
<1>3. ASSUME StepOnly  PROVE faults' \in 0..MaxMishaps
  BY <1>3 DEF StepOnly, boundVars, Typed, TypeOK
<1>4. ASSUME DataOK', StepOnly, todo # <<>>, Fail \/ Continue(<<>>)  PROVE Typed'
  BY <1>3, <1>4, NoSteps, WorkType DEF StepOnly, boundVars
<1>5. CASE Publish
  <2> DEFINE value == IF Subject \in Deployments THEN "Stopped"
                      ELSE IF Subject \in Containers THEN "Received" ELSE "false"
  <2>1. value \in PropValues  BY DEF PropValues
  <2>2. Send(value)  BY <1>5 DEF Publish
  <2> HIDE DEF value
  <2>3. prop' \in [Objects -> PropValues]  BY <1>1, <2>1, <2>2, SendType
  <2>4. Subject \in Deployments => SetDeployment(Subject, "Stopped") \in Tables
    BY <1>1, SetDeploymentType DEF DataOK, DeploymentStatus
  <2>5. SetContainer(Subject, "Published") \in Tables
    BY <1>1, SetContainerType DEF DataOK, ContainerStatus
  <2>6. SetResource(Subject, "Published") \in Tables
    BY <1>1, SetResourceType DEF DataOK, ResourceStatus
  <2>7. db' \in Tables  BY <1>1, <1>5, <2>4, <2>5, <2>6 DEF Publish, DataOK
  <2>8. DataOK'  BY <1>1, <1>5, <2>3, <2>7 DEF Publish, dockerVars, DataOK
  <2> QED  BY <1>2, <1>4, <1>5, <2>8 DEF Publish
<1>6. CASE Fetch
  <2>1. Subject \in Objects /\ todo # <<>>  BY <1>2, <1>6 DEF Fetch
  <2>2. prop' \in [Objects -> PropValues]
    BY <1>1, <1>6, <2>1, SeenType, SendType DEF Fetch, DataOK
  <2>3. DataOK'  BY <1>1, <1>6, <2>2 DEF Fetch, storeVars, dockerVars, DataOK
  <2> QED  BY <1>4, <1>6, <2>1, <2>3 DEF Fetch
<1>7. CASE Up
  <2>1. Look("up", UpSteps)  BY <1>7 DEF Up, UpSteps
  <2>2. Subject \in Objects  BY <1>2, <2>1 DEF Look
  <2> QED  BY <2>1, <2>2, LookSteps, LookType
<1>8. CASE StopLook
  <2>1. Look("stop", StopSteps)  BY <1>8 DEF StopLook, StopSteps
  <2>2. Subject \in Objects  BY <1>2, <2>1 DEF Look
  <2> QED  BY <2>1, <2>2, LookSteps, LookType
<1>9. CASE RestartLook
  <2>1. Look("restart", RestartSteps)  BY <1>9 DEF RestartLook, RestartSteps
  <2>2. Subject \in Objects  BY <1>2, <2>1 DEF Look
  <2> QED  BY <2>1, <2>2, LookSteps, LookType
<1>10. CASE Down
  <2>1. Look("down", DownSteps)  BY <1>10 DEF Down, DownSteps
  <2>2. Subject \in Objects  BY <1>2, <2>1 DEF Look
  <2> QED  BY <2>1, <2>2, LookSteps, LookType
<1>11. CASE Create
  <2>1. docker' \in [Containers -> DockerStates] /\ present' \subseteq Resources
    BY <1>1, <1>11 DEF Create, DataOK, DockerStates, dockerVars
  <2>2. DataOK'  BY <1>1, <1>11, <2>1 DEF Create, storeVars, DataOK
  <2> QED  BY <1>2, <1>4, <1>11, <2>2 DEF Create
<1>12. CASE Created
  <2> DEFINE value == IF Subject \in Containers THEN "Created" ELSE "true"
             tables == IF Subject \in Containers THEN SetContainer(Subject, "Stopped")
                                                 ELSE SetResource(Subject, "Created")
  <2>1. value \in PropValues  BY DEF PropValues
  <2>2. tables \in Tables
    BY <1>1, SetContainerType, SetResourceType
       DEF DataOK, ContainerStatus, ResourceStatus
  <2>3. Record("created", value, tables)  BY <1>12 DEF Created
  <2> HIDE DEF value, tables
  <2> QED  BY <2>1, <2>2, <2>3, RecordType
<1>13. CASE Start
  <2>1. /\ docker' \in [Containers -> DockerStates]
        /\ present' = present
    BY <1>1, <1>13 DEF Start, DataOK, DockerStates
  <2>2. db' \in Tables /\ prop' \in [Objects -> PropValues]
    BY <1>1, <1>13, MarkMissingType DEF Start, storeVars, DataOK
  <2>3. DataOK'  BY <1>1, <2>1, <2>2 DEF DataOK
  <2> QED  BY <1>2, <1>4, <1>13, <2>3 DEF Start, MarkMissing
<1>14. CASE Started
  <2>1. "Running" \in PropValues /\ SetContainer(Subject, "Running") \in Tables
    BY <1>1, SetContainerType DEF DataOK, ContainerStatus, PropValues
  <2> QED  BY <1>14, <2>1, RecordType DEF Started
<1>15. CASE Halt
  <2>1. /\ docker' \in [Containers -> DockerStates]
        /\ present' = present
    BY <1>1, <1>15 DEF Halt, DataOK, DockerStates
  <2>2. db' \in Tables /\ prop' \in [Objects -> PropValues]
    BY <1>1, <1>15, MarkMissingType DEF Halt, storeVars, DataOK
  <2>3. DataOK'  BY <1>1, <2>1, <2>2 DEF DataOK
  <2> QED  BY <1>2, <1>4, <1>15, <2>3 DEF Halt, MarkMissing
<1>16. CASE Stopped
  <2>1. "Stopped" \in PropValues /\ SetContainer(Subject, "Stopped") \in Tables
    BY <1>1, SetContainerType DEF DataOK, ContainerStatus, PropValues
  <2> QED  BY <1>16, <2>1, RecordType DEF Stopped
<1>17. CASE RemoveObject
  <2>1. docker' \in [Containers -> DockerStates] /\ present' \subseteq Resources
    BY <1>1, <1>17 DEF RemoveObject, DataOK, DockerStates, dockerVars
  <2>2. DataOK'  BY <1>1, <1>17, <2>1 DEF RemoveObject, storeVars, DataOK
  <2> QED  BY <1>2, <1>4, <1>17, <2>2 DEF RemoveObject
<1>18. CASE Unset
  <2>1. prop' \in [Objects -> PropValues]
    BY <1>1, <1>18, SendType DEF Unset, PropValues
  <2>2. DataOK'  BY <1>1, <1>18, <2>1 DEF Unset, storeVars, dockerVars, DataOK
  <2> QED  BY <1>2, <1>4, <1>18, <2>2 DEF Unset
<1>19. CASE Drop
  <2>1. /\ DeleteDeployment(Subject) \in Tables /\ DeleteContainer(Subject) \in Tables
        /\ DeleteResource(Subject) \in Tables
    BY <1>1, DeleteDeploymentType, DeleteResourceType, WithoutType
       DEF DataOK, DeleteContainer
  <2>2. db' \in Tables  BY <1>1, <1>19, <2>1 DEF Drop, DataOK
  <2>3. DataOK'  BY <1>1, <1>19, <2>2 DEF Drop, dockerVars, DataOK
  <2> QED  BY <1>2, <1>4, <1>19, <2>3 DEF Drop
<1>20. CASE Report
  <2>1. prop' \in [Objects -> PropValues]
    BY <1>1, <1>20, SendType DEF Report, PropValues
  <2>2. DataOK'  BY <1>1, <1>20, <2>1 DEF Report, storeVars, dockerVars, DataOK
  <2> QED  BY <1>2, <1>4, <1>20, <2>2 DEF Report
<1> QED
  BY <1>5, <1>6, <1>7, <1>8, <1>9, <1>10, <1>11, <1>12, <1>13, <1>14, <1>15,
     <1>16, <1>17, <1>18, <1>19, <1>20

LEMMA PersistType ==
  ASSUME Typed, NEW e \in Events, NEW possible \in BOOLEAN, NEW tables,
         possible => tables \in Tables,
         Persist(e, possible, tables)
  PROVE  /\ db' \in Tables /\ sending' \in Events
         /\ errors' \subseteq Deployments /\ faults' \in 0..MaxMishaps
         /\ UNCHANGED <<queue, serviceVars, noticed, dockerVars, prop, outside, crashes>>
<1>1. db' \in Tables  BY DEF Persist, Typed, TypeOK
<1>2. errors' \subseteq Deployments  BY DEF Persist, Typed, TypeOK
<1>3. MaxMishaps \in Nat  BY DeploymentsAssumption
<1>4. faults \in 0..MaxMishaps /\ outside \in 0..MaxMishaps /\ crashes \in 0..MaxMishaps
  BY DEF Typed, TypeOK
<1>5. Mishap => faults + 1 \in 0..MaxMishaps  BY <1>3, <1>4 DEF Mishap
<1>6. faults' \in 0..MaxMishaps  BY <1>4, <1>5 DEF Persist
<1> QED  BY <1>1, <1>2, <1>6 DEF Persist

LEMMA RequestType ==
  ASSUME Typed, db' \in Tables, sending' \in Events, errors' \subseteq Deployments,
         faults' \in 0..MaxMishaps, commands' \in 0..MaxCommands, unborn' \subseteq Objects,
         UNCHANGED <<queue, serviceVars, noticed, dockerVars, prop, outside, crashes>>
  PROVE  Typed'
BY DEF Typed, TypeOK, OpOK, BatchOK, serviceVars, dockerVars

LEMMA BeginType ==
  ASSUME Typed, OpOK', queue' \in Seq(Events), Len(queue') <= Capacity,
         phase' = phase, batch' \subseteq batch,
         UNCHANGED <<storeVars, sending, noticed, dockerVars, prop, unborn, boundVars>>
  PROVE  Typed'
BY DEF Typed, TypeOK, OpOK, BatchOK, storeVars, dockerVars, boundVars

LEMMA RestartType ==
  ASSUME Typed, Restart, crashes' \in 0..MaxMishaps
  PROVE  Typed'
<1>1. OpOK'
  BY NoSteps, EmptySeq DEF Restart, OpOK, Idle, Operations
<1>2. BatchOK' /\ batch' = {} /\ phase' \in Phases
  BY DEF Restart, BatchOK, Phases
<1>3. queue' \in Seq(Events) /\ Len(queue') <= Capacity
  BY DeploymentsAssumption, EmptySeq DEF Restart
<1> QED
  BY <1>1, <1>2, <1>3, PhaseFacts
     DEF Restart, Typed, TypeOK, OpOK, storeVars, dockerVars

(* TypeOK: the tables, the channel and the list of what is left to do stay *)
(* well formed (Service, ServiceHandle).                                   *)
THEOREM Wellformed == Spec => []Typed
<1>1. Init => Typed
  <2> SUFFICES ASSUME Init  PROVE Typed
    OBVIOUS
  <2>1. db \in Tables
    <3>1. NoRows \in Tables
      BY DEF NoRows, Tables, DeploymentStatus, ContainerStatus, ResourceStatus
    <3>2. \A c \in Containers : Needs[c] \in SUBSET Resources
      BY ContainerStoreAssumption
    <3> QED
      BY <3>1, <3>2 DEF Init, Tables, ContainerStatus, ResourceStatus
  <2>2. docker \in [Containers -> DockerStates] /\ present \subseteq Resources
    BY DEF Init, DockerStates
  <2>3. prop \in [Objects -> PropValues]  BY DEF Init, PropValues
  <2>4. OpOK  BY NoSteps, EmptySeq DEF Init, OpOK, Idle, Operations
  <2>5. queue \in Seq(Events) /\ Len(queue) <= Capacity
    BY DeploymentsAssumption, EmptySeq DEF Init
  <2>6. BatchOK /\ phase \in Phases  BY DEF Init, BatchOK, Phases
  <2>7. /\ commands \in 0..MaxCommands /\ faults \in 0..MaxMishaps
        /\ outside \in 0..MaxMishaps /\ crashes \in 0..MaxMishaps
    BY DeploymentsAssumption DEF Init
  <2> QED
    BY <2>1, <2>2, <2>3, <2>4, <2>5, <2>6, <2>7, PhaseFacts
       DEF Init, Typed, TypeOK, OpOK
<1>2. Typed /\ [Next]_vars => Typed'
  <2> SUFFICES ASSUME Typed, [Next]_vars  PROVE Typed'
    OBVIOUS
  <2>1. OpOK /\ db \in Tables  BY DEF Typed, TypeOK
  <2>2. ASSUME NEW x \in Objects, ReceiveCreation(x)  PROVE Typed'
    <3> DEFINE tables == IF x \in Resources THEN CreateResource(x)
                         ELSE IF x \in Containers THEN CreateContainer(x)
                         ELSE CreateDeployment(x)
    <3>1. tables \in Tables
      BY <2>1, CreateResourceType, CreateContainerType, CreateDeploymentType
         DEF Objects
    <3>2. Event("publish", x) \in Events  BY DEF Events, Creations
    <3>3. Persist(Event("publish", x), TRUE, tables)  BY <2>2 DEF ReceiveCreation
    <3> HIDE DEF tables
    <3>4. unborn' \subseteq Objects /\ commands' \in 0..MaxCommands
      BY <2>2 DEF ReceiveCreation, Typed, TypeOK
    <3> QED  BY <3>1, <3>2, <3>3, <3>4, PersistType, RequestType
  <2>3. ASSUME NEW kind \in DOMAIN CommandStatus, NEW d \in Deployments,
               ReceiveCommand(kind, d)
        PROVE  Typed'
    <3>1. kind \in {"start", "stop", "delete"}  BY DEF CommandStatus
    <3>2. CommandStatus[kind] \in DeploymentStatus
      BY <3>1 DEF CommandStatus, DeploymentStatus
    <3>3. SetDeployment(d, CommandStatus[kind]) \in Tables
      BY <2>1, <3>2, SetDeploymentType
    <3>4. Event(kind, d) \in Events  BY <3>1 DEF Events, Commands
    <3>5. Persist(Event(kind, d), db.dep[d] # "none", SetDeployment(d, CommandStatus[kind]))
      BY <2>3 DEF ReceiveCommand
    <3>6. unborn' \subseteq Objects /\ commands' \in 0..MaxCommands
      BY <2>3, DeploymentsAssumption DEF ReceiveCommand, Typed, TypeOK
    <3> QED  BY <3>3, <3>4, <3>5, <3>6, PersistType, RequestType
  <2>4. ASSUME NEW from \in Deployments, NEW to \in Deployments,
               ReceiveUpdate(from, to)
        PROVE  Typed'
    <3>1. UpdateDeployments(from, to) \in Tables  BY <2>1, UpdateDeploymentsType
    <3>2. Update(from, to) \in Events  BY DEF Events, Commands
    <3>3. Persist(Update(from, to), db.dep[from] # "none" /\ db.dep[to] # "none",
                  UpdateDeployments(from, to))
      BY <2>4 DEF ReceiveUpdate
    <3>4. unborn' \subseteq Objects /\ commands' \in 0..MaxCommands
      BY <2>4, DeploymentsAssumption DEF ReceiveUpdate, Typed, TypeOK
    <3> QED  BY <3>1, <3>2, <3>3, <3>4, PersistType, RequestType
  <2>5. CASE SendEvent
    <3>1. sending \in Events  BY <2>5 DEF SendEvent, Typed, TypeOK
    <3>2. queue' \in Seq(Events) /\ Len(queue') = Len(queue) + 1
      BY <2>5, <3>1, AppendProperties DEF SendEvent, Typed, TypeOK
    <3>3. Len(queue) \in Nat /\ Len(queue) < Capacity
      BY <2>5 DEF SendEvent, Typed, TypeOK
    <3>4. Len(queue') <= Capacity  BY <3>2, <3>3, DeploymentsAssumption
    <3> QED
      BY <2>5, <3>2, <3>4
         DEF SendEvent, Typed, TypeOK, OpOK, BatchOK, storeVars, serviceVars,
             dockerVars, boundVars
  <2>6. CASE TakeEvent
    <3>1. Head(queue) \in Events /\ Tail(queue) \in Seq(Events)
          /\ Len(Tail(queue)) = Len(queue) - 1
      BY <2>6, HeadTailProperties DEF TakeEvent, Typed, TypeOK
    <3>2. OpOK'  BY <2>1, <2>6, <3>1, BeginEventFacts DEF TakeEvent
    <3>3. Len(queue') <= Capacity
      <4>1. Len(queue) \in Nat /\ Len(queue) <= Capacity  BY DEF Typed, TypeOK
      <4> QED  BY <2>6, <3>1, <4>1, DeploymentsAssumption DEF TakeEvent
    <3> QED  BY <2>6, <3>1, <3>2, <3>3, BeginType DEF TakeEvent
  <2>7. CASE NextPhase
    <3>1. phase \in Phases \ {"loop", "down"}
      BY <2>7, PhaseFacts DEF NextPhase, Typed, TypeOK
    <3>2. PhaseAfter(phase) \in Phases \ {"boot", "down"}  BY <3>1, PhaseFacts
    <3>3. \A ph \in Phases \ {"boot", "down"} :
            /\ Load(ph) \subseteq Objects
            /\ ph \in {"delete", "stop", "start"} => Load(ph) \subseteq Deployments
      BY <2>1 DEF Phases, Load, InState, Objects, Tables
    <3>4. BatchOK' /\ batch' \subseteq Objects /\ phase' \in Phases
      BY <2>7, <3>2, <3>3 DEF NextPhase, BatchOK
    <3> QED
      BY <2>7, <3>4, PhaseFacts
         DEF NextPhase, Typed, TypeOK, OpOK, storeVars, dockerVars, boundVars
  <2>8. ASSUME NEW x \in batch, TakeLoaded(x)  PROVE Typed'
    <3>1. op = Idle  BY <2>8 DEF TakeLoaded
    <3>2. x \in Objects  BY DEF Typed, TypeOK
    <3>3. OpOK'
      <4>1. CASE phase = "delete"
        <5>1. x \in Deployments /\ BeginDelete(x)
          BY <2>8, <4>1 DEF TakeLoaded, Typed, BatchOK
        <5> QED  BY <2>1, <3>1, <5>1, BeginDeleteFacts
      <4>2. CASE phase = "stop"
        <5>1. x \in Deployments /\ BeginStop(x)
          BY <2>8, <4>2 DEF TakeLoaded, Typed, BatchOK
        <5> QED  BY <2>1, <3>1, <5>1, BeginStopFacts
      <4>3. CASE phase = "start"
        <5>1. x \in Deployments /\ BeginStart(x)
          BY <2>8, <4>3 DEF TakeLoaded, Typed, BatchOK
        <5> QED  BY <2>1, <3>1, <5>1, BeginStartFacts
      <4>4. CASE phase \notin {"delete", "stop", "start"}
        <5>1. BeginPublish(x)  BY <2>8, <4>4 DEF TakeLoaded
        <5> QED  BY <2>1, <3>2, <5>1, BeginPublishFacts
      <4> QED  BY <4>1, <4>2, <4>3, <4>4
    <3>4. queue' = queue /\ phase' = phase /\ batch' \subseteq batch
      BY <2>8 DEF TakeLoaded
    <3>5. queue' \in Seq(Events) /\ Len(queue') <= Capacity
      BY <3>4 DEF Typed, TypeOK
    <3> QED  BY <2>8, <3>3, <3>4, <3>5, BeginType DEF TakeLoaded
  <2>9. CASE \/ Publish \/ Fetch \/ Up \/ StopLook \/ RestartLook \/ Down
             \/ Create \/ Created \/ Start \/ Started \/ Halt \/ Stopped
             \/ RemoveObject \/ Unset \/ Drop \/ Report
    BY <2>9, ServiceType
  <2>10. CASE Finish
    <3>1. OpOK'
      BY <2>1, <2>10, EmptySeq DEF Finish, OpOK, Idle, Operations
    <3>2. /\ queue' = queue /\ phase' = phase /\ batch' = batch
          /\ UNCHANGED <<storeVars, sending, noticed, dockerVars, prop, unborn, boundVars>>
      BY <2>10 DEF Finish, StepOnly
    <3>3. queue' \in Seq(Events) /\ Len(queue') <= Capacity
      BY <3>2 DEF Typed, TypeOK
    <3> QED  BY <3>1, <3>2, <3>3, BeginType
  <2>11. CASE CallFails
    <3>1. DataOK'
      BY <2>11 DEF CallFails, Typed, TypeOK, DataOK, storeVars, dockerVars
    <3>2. faults' \in 0..MaxMishaps
      BY <2>11, DeploymentsAssumption DEF CallFails, Mishap, Typed, TypeOK
    <3> QED  BY <2>11, <3>1, <3>2, WorkType DEF CallFails
  <2>12. ASSUME NEW c \in Containers, ChangeOutside(c)  PROVE Typed'
    <3>1. docker' \in [Containers -> DockerStates]
      BY <2>12 DEF ChangeOutside, Typed, TypeOK, DockerStates
    <3>2. outside' \in 0..MaxMishaps
      BY <2>12, DeploymentsAssumption DEF ChangeOutside, Mishap, Typed, TypeOK
    <3> QED
      BY <2>12, <3>1, <3>2
         DEF ChangeOutside, Typed, TypeOK, OpOK, BatchOK, storeVars, serviceVars
  <2>13. ASSUME NEW c \in Containers, Listen(c)  PROVE Typed'
    <3>1. Event("refresh", c) \in Events  BY DEF Events, Refreshes
    <3>2. /\ Append(queue, Event("refresh", c)) \in Seq(Events)
          /\ Len(Append(queue, Event("refresh", c))) = Len(queue) + 1
      BY <3>1, AppendProperties DEF Typed, TypeOK
    <3>3. Len(queue) \in Nat /\ Len(queue) <= Capacity  BY DEF Typed, TypeOK
    <3>4. queue' \in Seq(Events) /\ Len(queue') <= Capacity
      <4>1. \/ queue' = queue
            \/ Len(queue) < Capacity /\ queue' = Append(queue, Event("refresh", c))
        BY <2>13 DEF Listen
      <4>2. Capacity \in Nat /\ queue \in Seq(Events)
        BY DeploymentsAssumption DEF Typed, TypeOK
      <4> QED  BY <3>2, <3>3, <4>1, <4>2
    <3>5. noticed' \subseteq Containers  BY <2>13 DEF Listen, Typed, TypeOK
    <3> QED
      BY <2>13, <3>4, <3>5
         DEF Listen, Typed, TypeOK, OpOK, BatchOK, storeVars, serviceVars,
             dockerVars, boundVars
  <2>14. CASE Crash
    <3>1. crashes' \in 0..MaxMishaps
      BY <2>14, DeploymentsAssumption DEF Crash, Mishap, Typed, TypeOK
    <3> QED  BY <2>14, <3>1, RestartType DEF Crash
  <2>15. CASE Disconnected
    BY <2>15, RestartType DEF Disconnected, Typed, TypeOK
  <2>16. CASE UNCHANGED vars
    BY <2>16 DEF vars, Typed, TypeOK, OpOK, BatchOK, storeVars, serviceVars,
                 dockerVars, boundVars
  <2> QED
    BY <2>2, <2>3, <2>4, <2>5, <2>6, <2>7, <2>8, <2>9, <2>10, <2>11, <2>12,
       <2>13, <2>14, <2>15, <2>16 DEF Next, ServiceStep, Rest
<1> QED  BY <1>1, <1>2, PTL DEF Spec

THEOREM TypeCorrect == Spec => []TypeOK
<1>1. Typed => TypeOK  BY DEF Typed
<1> QED  BY <1>1, Wellformed, PTL

-----------------------------------------------------------------------------
(* The inductive invariant of the ownership.                               *)

(* The rows of a deployment name what it named, the links of a container   *)
(* what it needs, and without a row there are none.                        *)
RowsOK ==
    \A d \in Deployments :
      db.rows[d] \subseteq Named(d) /\ db.lacks[d] \subseteq Named(d)

LinksOK ==
    \A c \in Containers :
      /\ db.links[c] \subseteq Needs[c] /\ db.missing[c] \subseteq Needs[c]
      /\ ~ IsStored(c) => db.links[c] = {} /\ db.missing[c] = {}

(* The abstract invariant: what is in Docker has an owner.                 *)
Present(c) == docker[c] # "absent"
Reachable == \A c \in Containers : Present(c) => Owned(c)

(* What may not lose its row while c is in Docker: c, the image it needs,  *)
(* and a deployment that alone owns it.                                    *)
AtRisk(x, c) ==
    \/ x = c
    \/ x \in Images /\ x \in Needs[c]
    \/ x \in Deployments /\ \A e \in Deployments \ {x} : c \notin Joined(e)

Risks(c) == {x \in Objects : AtRisk(x, c)}

(* c is removed before anything of R goes.                                 *)
Removes(s, c) == s.do \in {"down", "remove"} /\ s.x = c

Guarded(q, c, R) ==
    \A n \in DOMAIN q :
      q[n].do \in {"down", "drop"} /\ q[n].x \in R => \E m \in 1..n : Removes(q[m], c)

Deletes == \A c \in Containers : Present(c) => Guarded(todo, c, Risks(c))

(* What the service brings up has an owner, and one operation does not     *)
(* bring up and delete.                                                    *)
Brings ==
    \A s \in Members(todo) :
      s.do \in {"up", "create"} /\ s.x \in Containers => Owned(s.x)

OneWay ==
    \A s, t \in Members(todo) : ~ (s.do \in {"up", "create"} /\ t.do \in {"down", "drop"})

(* A deployment goes last.                                                 *)
GoesLast(q) ==
    \A n \in DOMAIN q :
      q[n].x \in Deployments => q[n].do # "down" /\ (q[n].do = "drop" => n = Len(q))

StoreInv == RowsOK /\ LinksOK
Kept == StoreInv /\ Reachable /\ Deletes /\ Brings /\ OneWay /\ GoesLast(todo)

-----------------------------------------------------------------------------
(* Lists of steps that are guarded.                                        *)

LEMMA MemberAt ==
  ASSUME NEW q \in Seq(Steps)
  PROVE  /\ DOMAIN q = 1..Len(q) /\ Len(q) \in Nat
         /\ \A n \in DOMAIN q : q[n] \in Members(q)
BY LenProperties DEF Members

LEMMA GuardedConcat ==
  ASSUME NEW p \in Seq(Steps), NEW q \in Seq(Steps), NEW c, NEW R,
         Guarded(p, c, R),
         Guarded(q, c, R) \/ \E m \in DOMAIN p : Removes(p[m], c)
  PROVE  Guarded(p \o q, c, R)
<1>1. /\ p \o q \in Seq(Steps)
      /\ Len(p \o q) = Len(p) + Len(q)
      /\ \A n \in 1..Len(p) + Len(q) :
            (p \o q)[n] = IF n <= Len(p) THEN p[n] ELSE q[n - Len(p)]
  BY ConcatProperties
<1> DEFINE r == p \o q
<1> HIDE DEF r
<1>2. /\ DOMAIN p = 1..Len(p) /\ DOMAIN q = 1..Len(q)
      /\ DOMAIN r = 1..Len(p) + Len(q)
      /\ Len(p) \in Nat /\ Len(q) \in Nat
  BY <1>1, LenProperties DEF r
<1>3. \A n \in 1..Len(p) : r[n] = p[n]  BY <1>1, <1>2 DEF r
<1>4. \A n \in 1..Len(q) : r[Len(p) + n] = q[n]  BY <1>1, <1>2 DEF r
<1> SUFFICES ASSUME NEW n \in DOMAIN r, r[n].do \in {"down", "drop"}, r[n].x \in R
             PROVE  \E m \in 1..n : Removes(r[m], c)
  BY DEF Guarded, r
<1>5. CASE n <= Len(p)
  <2>1. n \in 1..Len(p)  BY <1>2, <1>5
  <2>2. PICK m \in 1..n : Removes(p[m], c)  BY <1>2, <1>3, <2>1 DEF Guarded
  <2>3. m \in 1..Len(p)  BY <1>2, <2>1
  <2> QED  BY <1>3, <2>2, <2>3
<1>6. CASE n > Len(p) /\ \E m \in DOMAIN p : Removes(p[m], c)
  <2>1. PICK m \in 1..Len(p) : Removes(p[m], c)  BY <1>2, <1>6
  <2>2. m \in 1..n  BY <1>2, <1>6
  <2> QED  BY <1>3, <2>1, <2>2
<1>7. CASE n > Len(p) /\ Guarded(q, c, R)
  <2> DEFINE k == n - Len(p)
  <2>1. k \in 1..Len(q) /\ n = Len(p) + k  BY <1>2, <1>7
  <2> HIDE DEF k
  <2>2. r[n] = q[k]  BY <1>4, <2>1
  <2>3. PICK m \in 1..k : Removes(q[m], c)  BY <1>2, <1>7, <2>1, <2>2 DEF Guarded
  <2>4. m \in 1..Len(q) /\ Len(p) + m \in 1..n  BY <1>2, <2>1
  <2>5. r[Len(p) + m] = q[m]  BY <1>4, <2>4
  <2> QED  BY <2>3, <2>4, <2>5
<1>8. n <= Len(p) \/ n > Len(p)  BY <1>2
<1> QED  BY <1>5, <1>6, <1>7, <1>8

LEMMA GuardedTail ==
  ASSUME NEW q \in Seq(Steps), q # <<>>, NEW c, NEW R,
         Guarded(q, c, R), ~ Removes(Head(q), c)
  PROVE  Guarded(Tail(q), c, R)
<1>1. /\ Tail(q) \in Seq(Steps) /\ Len(Tail(q)) = Len(q) - 1
      /\ \A n \in 1..Len(Tail(q)) : Tail(q)[n] = q[n + 1]
      /\ Head(q) = q[1]
  BY HeadTailProperties
<1> DEFINE t == Tail(q)
<1> HIDE DEF t
<1>2. /\ DOMAIN q = 1..Len(q) /\ DOMAIN t = 1..Len(q) - 1 /\ Len(q) \in Nat \ {0}
  BY <1>1, LenProperties, EmptySeq DEF t
<1>3. \A n \in 1..Len(q) - 1 : t[n] = q[n + 1]  BY <1>1 DEF t
<1> SUFFICES ASSUME NEW n \in DOMAIN t, t[n].do \in {"down", "drop"}, t[n].x \in R
             PROVE  \E m \in 1..n : Removes(t[m], c)
  BY DEF Guarded, t
<1>4. n + 1 \in DOMAIN q /\ t[n] = q[n + 1]  BY <1>2, <1>3
<1>5. PICK m \in 1..n + 1 : Removes(q[m], c)  BY <1>4 DEF Guarded
<1>6. m # 1  BY <1>1, <1>5
<1>7. m - 1 \in 1..n /\ m - 1 \in 1..Len(q) - 1 /\ (m - 1) + 1 = m  BY <1>2, <1>5, <1>6
<1>8. t[m - 1] = q[m]  BY <1>3, <1>7
<1> QED  BY <1>5, <1>7, <1>8

(* Nothing of the list is at risk.                                         *)
LEMMA GuardedNone ==
  ASSUME NEW q \in Seq(Steps), NEW c, NEW R,
         \A s \in Members(q) : s.do \in {"down", "drop"} => s.x \notin R
  PROVE  Guarded(q, c, R)
BY MemberAt DEF Guarded

(* The first step is not one that endangers what is there.                 *)
LEMMA GuardedHead ==
  ASSUME NEW q \in Seq(Steps), q # <<>>, NEW c, NEW R, Guarded(q, c, R),
         Head(q).do \in {"down", "drop"}, Head(q).x \in R
  PROVE  Removes(Head(q), c)
<1>1. Head(q) = q[1] /\ 1 \in DOMAIN q  BY MemberAt, EmptySeq
<1>2. PICK m \in 1..1 : Removes(q[m], c)  BY <1>1 DEF Guarded
<1> QED  BY <1>1, <1>2

LEMMA LastConcat ==
  ASSUME NEW p \in Seq(Steps), NEW q \in Seq(Steps), GoesLast(q),
         \A s \in Members(p) : s.x \in Deployments => s.do \notin {"down", "drop"}
  PROVE  GoesLast(p \o q)
<1>1. /\ Len(p \o q) = Len(p) + Len(q) /\ p \o q \in Seq(Steps)
      /\ \A n \in 1..Len(p) + Len(q) :
            (p \o q)[n] = IF n <= Len(p) THEN p[n] ELSE q[n - Len(p)]
  BY ConcatProperties
<1> DEFINE r == p \o q
<1>2. /\ DOMAIN p = 1..Len(p) /\ DOMAIN q = 1..Len(q)
      /\ DOMAIN r = 1..Len(p) + Len(q)
      /\ Len(p) \in Nat /\ Len(q) \in Nat
  BY <1>1, LenProperties
<1> SUFFICES ASSUME NEW n \in DOMAIN r, r[n].x \in Deployments
             PROVE  r[n].do # "down" /\ (r[n].do = "drop" => n = Len(r))
  BY DEF GoesLast
<1>3. CASE n <= Len(p)
  <2>1. n \in DOMAIN p /\ r[n] = p[n]  BY <1>1, <1>2, <1>3
  <2> HIDE DEF r
  <2> QED  BY <2>1, MemberAt
<1>4. CASE n > Len(p)
  <2>1. n - Len(p) \in DOMAIN q /\ r[n] = q[n - Len(p)]  BY <1>1, <1>2, <1>4
  <2>2. Len(r) = Len(p) + Len(q)  BY <1>1
  <2> HIDE DEF r
  <2>3. q[n - Len(p)].do = "drop" => n - Len(p) = Len(q)  BY <2>1 DEF GoesLast
  <2>4. q[n - Len(p)].do # "down"  BY <2>1 DEF GoesLast
  <2> QED  BY <1>2, <2>1, <2>2, <2>3, <2>4
<1> QED  BY <1>2, <1>3, <1>4

LEMMA LastTail ==
  ASSUME NEW q \in Seq(Steps), q # <<>>, GoesLast(q)
  PROVE  GoesLast(Tail(q))
<1>1. /\ Len(Tail(q)) = Len(q) - 1 /\ Tail(q) \in Seq(Steps)
      /\ \A n \in 1..Len(Tail(q)) : Tail(q)[n] = q[n + 1]
  BY HeadTailProperties
<1> DEFINE t == Tail(q)
<1> HIDE DEF t
<1>2. /\ DOMAIN q = 1..Len(q) /\ DOMAIN t = 1..Len(t) /\ Len(t) = Len(q) - 1
      /\ Len(q) \in Nat
  BY <1>1, LenProperties DEF t
<1>3. ASSUME NEW n \in DOMAIN t
      PROVE  n + 1 \in DOMAIN q /\ t[n] = q[n + 1]
  BY <1>1, <1>2 DEF t
<1>4. GoesLast(t)  BY <1>2, <1>3 DEF GoesLast
<1> QED  BY <1>4 DEF t

-----------------------------------------------------------------------------
(* What the transactions do to the rows and the links.                     *)

(* Nothing leaves a deployment, and nothing comes to one.                  *)
Grows   == \A d \in Deployments : Joined(d) \subseteq Joined(d)'
Shrinks == \A d \in Deployments : Joined(d)' \subseteq Joined(d)

LEMMA SameRows ==
  ASSUME StoreInv, db'.rows = db.rows, db'.lacks = db.lacks,
         db'.links = db.links, db'.missing = db.missing,
         \A c \in Containers : IsStored(c) => IsStored(c)'
  PROVE  StoreInv' /\ Grows /\ Shrinks
<1>1. RowsOK'  BY DEF StoreInv, RowsOK
<1>2. LinksOK'  BY DEF StoreInv, LinksOK
<1>3. \A d \in Deployments : Joined(d)' = Joined(d)  BY DEF Joined
<1> QED  BY <1>1, <1>2, <1>3 DEF StoreInv, Grows, Shrinks

(* A status is set: of what has a row, no row comes or goes.               *)
LEMMA SetDeploymentKeeps ==
  ASSUME db \in Tables, StoreInv, NEW d, NEW status, db' = SetDeployment(d, status)
  PROVE  StoreInv' /\ Grows /\ Shrinks
BY SameRows DEF SetDeployment, Tables, IsStored

LEMMA UpdateDeploymentsKeeps ==
  ASSUME db \in Tables, StoreInv, NEW from, NEW to, db' = UpdateDeployments(from, to)
  PROVE  StoreInv' /\ Grows /\ Shrinks
BY SameRows DEF UpdateDeployments, Tables, IsStored

LEMMA SetContainerKeeps ==
  ASSUME db \in Tables, StoreInv, NEW c, NEW status, status # "none",
         db' = SetContainer(c, status)
  PROVE  StoreInv' /\ Grows /\ Shrinks
<1>1. \A e \in Containers : db'.cont[e] = IF e = c THEN status ELSE db.cont[e]
  BY DEF SetContainer, Tables
<1>2. \A e \in Containers : IsStored(e) => IsStored(e)'  BY <1>1 DEF IsStored
<1> QED  BY <1>2, SameRows DEF SetContainer, Tables

LEMMA SetResourceKeeps ==
  ASSUME db \in Tables, StoreInv, NEW r, NEW status, db' = SetResource(r, status)
  PROVE  StoreInv' /\ Grows /\ Shrinks
BY SameRows DEF SetResource, Tables, IsStored

(* What was missing comes: a link is added where it was missed.            *)
LEMMA CreateResourceKeeps ==
  ASSUME db \in Tables, StoreInv, NEW r \in Resources, db' = CreateResource(r)
  PROVE  StoreInv' /\ Grows
<1>1. /\ db'.rows = db.rows /\ db'.lacks = db.lacks /\ db'.cont = db.cont
      /\ \A c \in Containers : /\ db'.links[c] = db.links[c] \cup (db.missing[c] \cap {r})
                              /\ db'.missing[c] = db.missing[c] \ {r}
  BY DEF CreateResource, Tables
<1>2. RowsOK'  BY <1>1 DEF StoreInv, RowsOK
<1>3. LinksOK'
  <2> SUFFICES ASSUME NEW c \in Containers
               PROVE  /\ db'.links[c] \subseteq Needs[c] /\ db'.missing[c] \subseteq Needs[c]
                      /\ db'.cont[c] = "none" => db'.links[c] = {} /\ db'.missing[c] = {}
    BY DEF LinksOK, IsStored
  <2> QED  BY <1>1 DEF StoreInv, LinksOK, IsStored
<1>4. Grows
  <2> SUFFICES ASSUME NEW d \in Deployments, NEW c \in Joined(d)
               PROVE  c \in Joined(d)'
    BY DEF Grows
  <2>1. c \in db.rows[d] /\ db.links[c] \cap Images # {}  BY DEF Joined
  <2>2. c \in Containers  BY <2>1 DEF Tables
  <2>3. db'.links[c] \cap Images # {}  BY <1>1, <2>1, <2>2
  <2> QED  BY <1>1, <2>1, <2>3 DEF Joined
<1> QED  BY <1>2, <1>3, <1>4 DEF StoreInv

LEMMA CreateContainerKeeps ==
  ASSUME db \in Tables, StoreInv, NEW c \in Containers, db' = CreateContainer(c)
  PROVE  StoreInv' /\ Grows
<1>1. CASE IsStored(c)
  <2>1. db' = db  BY <1>1 DEF CreateContainer
  <2> QED  BY <2>1, SameRows DEF IsStored
<1>2. CASE ~ IsStored(c)
  <2> DEFINE here == {r \in Needs[c] : db.res[r] # "none"}
  <2>1. /\ \A e \in Containers :
             /\ db'.cont[e] = IF e = c THEN "Received" ELSE db.cont[e]
             /\ db'.links[e] = IF e = c THEN here ELSE db.links[e]
             /\ db'.missing[e] = IF e = c THEN Needs[c] \ here ELSE db.missing[e]
        /\ \A d \in Deployments :
             /\ db'.rows[d] = db.rows[d] \cup (db.lacks[d] \cap {c})
             /\ db'.lacks[d] = db.lacks[d] \ {c}
    BY <1>2 DEF CreateContainer, Tables
  <2>2. db.links[c] = {} /\ here \subseteq Needs[c]  BY <1>2 DEF StoreInv, LinksOK
  <2> HIDE DEF here
  <2>3. RowsOK'
    <3> SUFFICES ASSUME NEW d \in Deployments
                 PROVE  db'.rows[d] \subseteq Named(d) /\ db'.lacks[d] \subseteq Named(d)
      BY DEF RowsOK, Named
    <3> QED  BY <2>1 DEF StoreInv, RowsOK
  <2>4. LinksOK'
    <3> SUFFICES ASSUME NEW e \in Containers
                 PROVE  /\ db'.links[e] \subseteq Needs[e] /\ db'.missing[e] \subseteq Needs[e]
                        /\ db'.cont[e] = "none" => db'.links[e] = {} /\ db'.missing[e] = {}
      BY DEF LinksOK, IsStored
    <3> QED  BY <2>1, <2>2 DEF StoreInv, LinksOK, IsStored
  <2>5. Grows
    <3> SUFFICES ASSUME NEW d \in Deployments, NEW e \in Joined(d)
                 PROVE  e \in Joined(d)'
      BY DEF Grows
    <3>1. e \in db.rows[d] /\ db.links[e] \cap Images # {}  BY DEF Joined
    <3>2. e \in Containers /\ e # c  BY <2>2, <3>1 DEF Tables
    <3>3. e \in db'.rows[d] /\ db'.links[e] = db.links[e]  BY <2>1, <3>1, <3>2
    <3> QED  BY <3>1, <3>3 DEF Joined
  <2> QED  BY <2>3, <2>4, <2>5 DEF StoreInv
<1> QED  BY <1>1, <1>2

LEMMA CreateDeploymentKeeps ==
  ASSUME db \in Tables, StoreInv, NEW d \in Deployments, db' = CreateDeployment(d)
  PROVE  StoreInv' /\ Grows
<1> DEFINE here == {c \in Named(d) : IsStored(c)}
<1>1. /\ db'.cont = db.cont /\ db'.links = db.links /\ db'.missing = db.missing
      /\ \A e \in Deployments :
           /\ db'.rows[e] = IF e = d THEN db.rows[d] \cup here ELSE db.rows[e]
           /\ db'.lacks[e] = IF e = d THEN db.lacks[d] \cup (Named(d) \ here) ELSE db.lacks[e]
  BY DEF CreateDeployment, Tables
<1>2. here \subseteq Named(d)  OBVIOUS
<1> HIDE DEF here
<1>3. RowsOK'
  <2> SUFFICES ASSUME NEW e \in Deployments
               PROVE  db'.rows[e] \subseteq Named(e) /\ db'.lacks[e] \subseteq Named(e)
    BY DEF RowsOK, Named
  <2> QED  BY <1>1, <1>2 DEF StoreInv, RowsOK
<1>4. LinksOK'  BY <1>1 DEF StoreInv, LinksOK, IsStored
<1>5. Grows  BY <1>1 DEF Grows, Joined
<1> QED  BY <1>3, <1>4, <1>5 DEF StoreInv

-----------------------------------------------------------------------------
(* The ownership is kept, whatever becomes of todo.                        *)

NoneComes == \A c \in Containers : Present(c)' => Present(c)

(* A deployment that is not the last owner never becomes so while requests *)
(* come: what is at risk only shrinks.                                     *)
LEMMA RisksShrink ==
  ASSUME Grows, NEW c \in Containers
  PROVE  Risks(c)' \subseteq Risks(c)
<1> SUFFICES ASSUME NEW x \in Objects, AtRisk(x, c)'
             PROVE  AtRisk(x, c)
  BY DEF Risks
<1> QED  BY DEF AtRisk, Grows

LEMMA GuardedLess ==
  ASSUME NEW q, NEW c, NEW R, NEW T, T \subseteq R, Guarded(q, c, R)
  PROVE  Guarded(q, c, T)
BY DEF Guarded

LEMMA ReachableKept ==
  ASSUME Reachable, Grows, NoneComes
  PROVE  Reachable'
<1> SUFFICES ASSUME NEW c \in Containers, Present(c)'
             PROVE  \E d \in Deployments : c \in Joined(d)'
  BY DEF Reachable, Owned
<1>1. PICK d \in Deployments : c \in Joined(d)  BY DEF Reachable, Owned, NoneComes
<1> QED  BY <1>1 DEF Grows

(* Steps that delete nothing.                                              *)
LEMMA BenignKept ==
  ASSUME StoreInv', Reachable', todo' \in Seq(Steps), Benign(todo'), Grows
  PROVE  Kept'
<1>1. /\ \A s \in Members(todo') : s.do \notin {"down", "drop"}
      /\ \A s \in Members(todo') :
           s.do \in {"up", "create"} /\ s.x \in Containers => Owned(s.x)
  BY DEF Benign
<1>2. Deletes'
  <2> SUFFICES ASSUME NEW c \in Containers
               PROVE  Guarded(todo', c, Risks(c)')
    BY DEF Deletes, Guarded
  <2> QED  BY <1>1, GuardedNone
<1>3. Brings'
  <2> SUFFICES ASSUME NEW s \in Members(todo'), s.do \in {"up", "create"}, s.x \in Containers
               PROVE  \E d \in Deployments : s.x \in Joined(d)'
    BY DEF Brings, Members, Owned
  <2> QED  BY <1>1 DEF Grows, Owned
<1>4. OneWay'  BY <1>1 DEF OneWay, Members
<1>5. GoesLast(todo')  BY <1>1, MemberAt DEF GoesLast
<1> QED  BY <1>2, <1>3, <1>4, <1>5 DEF Kept, GoesLast

(* The service does nothing.                                               *)
LEMMA StayKept ==
  ASSUME Kept, StoreInv', Grows, NoneComes, todo' = todo
  PROVE  Kept'
<1>1. Reachable'  BY ReachableKept DEF Kept
<1>2. Deletes'
  <2> SUFFICES ASSUME NEW c \in Containers, Present(c)'
               PROVE  Guarded(todo, c, Risks(c)')
    BY DEF Deletes, Guarded
  <2>1. Guarded(todo, c, Risks(c))  BY DEF NoneComes, Kept, Deletes
  <2> QED  BY <2>1, RisksShrink, GuardedLess
<1>3. Brings'
  <2> SUFFICES ASSUME NEW s \in Members(todo), s.do \in {"up", "create"}, s.x \in Containers
               PROVE  \E d \in Deployments : s.x \in Joined(d)'
    BY DEF Brings, Members, Owned
  <2>1. Owned(s.x)  BY DEF Kept, Brings
  <2> QED  BY <2>1 DEF Grows, Owned
<1>4. OneWay' /\ GoesLast(todo')  BY DEF Kept, OneWay, Members, GoesLast
<1> QED  BY <1>1, <1>2, <1>3, <1>4 DEF Kept, GoesLast

(* The service goes on with s, and then with the rest.                     *)
LEMMA ContinueKept ==
  ASSUME Kept, StoreInv', Grows, NoneComes, todo \in Seq(Steps), todo # <<>>,
         NEW s \in Seq(Steps), todo' = s \o Tail(todo),
         \A t \in Members(s) :
           /\ t.do \in {"up", "create"} =>
                Head(todo).do \in {"up", "create"} /\ t.x = Head(todo).x
           /\ t.do \in {"down", "drop"} =>
                t.do = "drop" /\ Head(todo).do = "down" /\ t.x = Head(todo).x,
         \A c \in Containers :
           Present(c)' /\ Removes(Head(todo), c) =>
             Guarded(s, c, Risks(c)) /\ \E m \in DOMAIN s : Removes(s[m], c)
  PROVE  Kept'
<1> DEFINE h == Head(todo)
           q == Tail(todo)
<1>1. /\ q \in Seq(Steps) /\ Members(q) \subseteq Members(todo)
      /\ h \in Steps /\ h \in Members(todo) /\ h = todo[1] /\ 1 \in DOMAIN todo
  BY TailMembers, MemberAt, EmptySeq
<1>2. /\ \A t \in Members(s) : t.do \in {"up", "create"} => h.do \in {"up", "create"} /\ t.x = h.x
      /\ \A t \in Members(s) :
           t.do \in {"down", "drop"} => t.do = "drop" /\ h.do = "down" /\ t.x = h.x
      /\ todo' = s \o q
  OBVIOUS
<1>3. Reachable'  BY ReachableKept DEF Kept
<1>4. Deletes'
  <2> SUFFICES ASSUME NEW c \in Containers, Present(c)'
               PROVE  Guarded(todo', c, Risks(c)')
    BY DEF Deletes, Guarded
  <2>1. Guarded(todo, c, Risks(c))  BY DEF NoneComes, Kept, Deletes
  <2>2. Guarded(todo', c, Risks(c))
    <3>1. CASE Removes(h, c)  BY <1>1, <1>2, <3>1, GuardedConcat
    <3>2. CASE ~ Removes(h, c)
      <4>1. Guarded(q, c, Risks(c))  BY <2>1, <3>2, GuardedTail
      <4>2. \A t \in Members(s) : t.do \in {"down", "drop"} => t.x \notin Risks(c)
        BY <1>2, <2>1, <3>2, GuardedHead
      <4>3. Guarded(s, c, Risks(c))  BY <4>2, GuardedNone
      <4> QED  BY <1>1, <1>2, <4>1, <4>3, GuardedConcat
    <3> QED  BY <3>1, <3>2
  <2> QED  BY <2>2, RisksShrink, GuardedLess
<1>5. Members(todo') \subseteq Members(s) \cup Members(q)  BY <1>1, <1>2, ConcatMembers
<1>6. Brings'
  <2> SUFFICES ASSUME NEW t \in Members(todo'), t.do \in {"up", "create"}, t.x \in Containers
               PROVE  \E d \in Deployments : t.x \in Joined(d)'
    BY DEF Brings, Members, Owned
  <2>1. Owned(t.x)  BY <1>1, <1>2, <1>5 DEF Kept, Brings
  <2> QED  BY <2>1 DEF Grows, Owned
<1>7. OneWay'
  <2> SUFFICES ASSUME NEW a \in Members(todo'), NEW b \in Members(todo'),
                      a.do \in {"up", "create"}, b.do \in {"down", "drop"}
               PROVE  FALSE
    BY DEF OneWay, Members
  <2>1. a \in Members(todo) \/ h.do \in {"up", "create"}  BY <1>1, <1>2, <1>5
  <2>2. b \in Members(todo) \/ h.do = "down"  BY <1>1, <1>2, <1>5
  <2> QED  BY <1>1, <2>1, <2>2 DEF Kept, OneWay
<1>8. GoesLast(todo')
  <2>1. GoesLast(q)  BY LastTail DEF Kept
  <2>2. h.x \in Deployments => h.do # "down"  BY <1>1 DEF Kept, GoesLast
  <2>3. \A t \in Members(s) : t.x \in Deployments => t.do \notin {"down", "drop"}
    BY <1>2, <2>2
  <2> QED  BY <1>1, <1>2, <2>1, <2>3, LastConcat
<1> QED  BY <1>3, <1>4, <1>6, <1>7, <1>8 DEF Kept, GoesLast

-----------------------------------------------------------------------------
(* delete_deployment removes each container that has no other owner, before*)
(* its row, its image and its deployment go.                               *)

LEMMA RemovesConcat ==
  ASSUME NEW p \in Seq(Steps), NEW q \in Seq(Steps), NEW c,
         \E m \in DOMAIN p : Removes(p[m], c)
  PROVE  \E m \in DOMAIN (p \o q) : Removes((p \o q)[m], c)
<1>1. PICK m \in DOMAIN p : Removes(p[m], c)  OBVIOUS
<1>2. m \in DOMAIN (p \o q) /\ (p \o q)[m] = p[m]  BY ConcatProperties
<1> QED  BY <1>1, <1>2

(* One image to a container.                                               *)
LEMMA OneImage ==
  ASSUME NEW c \in Containers,
         NEW i \in Needs[c] \cap Images, NEW j \in Needs[c] \cap Images
  PROVE  i = j
<1>1. IsFiniteSet(Needs[c] \cap Images) /\ Cardinality(Needs[c] \cap Images) = 1
  BY ContainerStoreAssumption, FS_Subset
<1> QED  BY <1>1, FS_Singleton

(* What loses its last owner is among the containers to delete.            *)
LEMMA LastOwner ==
  ASSUME db \in Tables, NEW d \in Deployments, NEW c \in Containers, Owned(c),
         \A e \in Deployments \ {d} : c \notin Joined(e)
  PROVE  c \in ContainersToDelete(d)
BY DEF Owned, ContainersToDelete

LEMMA ImageOfLast ==
  ASSUME db \in Tables, LinksOK, NEW d \in Deployments, NEW c \in Containers, Owned(c),
         NEW i \in ResourcesToDelete(d) \cap Images, i \in Needs[c]
  PROVE  c \in ContainersToDelete(d)
<1>1. ASSUME NEW e \in Deployments \ {d}, c \in Joined(e)  PROVE FALSE
  <2>1. PICK j : j \in db.links[c] \cap Images  BY <1>1 DEF Joined
  <2>2. j = i  BY <2>1, OneImage DEF LinksOK
  <2>3. i \in JoinedLinks(e)  BY <1>1, <2>1, <2>2 DEF JoinedLinks
  <2> QED  BY <2>3 DEF ResourcesToDelete
<1> QED  BY <1>1, LastOwner

LEMMA DeleteGuarded ==
  ASSUME db \in Tables, StoreInv, NEW d \in Deployments, NEW c \in Containers, Owned(c)
  PROVE  Guarded(DeleteSteps(d), c, Risks(c))
<1> DEFINE p == DownContainers(d)
           v == DownVolumes(d)
           i == DownImages(d)
           e == DropSelf(d)
<1>1. DeleteSteps(d) = p \o v \o i \o e
  BY DEF DeleteSteps, DownContainers, DownVolumes, DownImages, DropSelf
<1>2. /\ p \in Seq(Steps) /\ v \in Seq(Steps) /\ i \in Seq(Steps) /\ e \in Seq(Steps)
      /\ \A s \in Members(p) : s.do = "down" /\ s.x \in ContainersToDelete(d)
      /\ \A s \in Members(v) : s.do = "down" /\ s.x \in Resources \ Images
      /\ \A s \in Members(i) : s.do = "down" /\ s.x \in ResourcesToDelete(d) \cap Images
      /\ Members(e) = {Step("unset", d), Step("drop", d)}
  BY DownContainersFacts, DownResourcesFacts, DropSelfFacts
<1>3. \A a \in ContainersToDelete(d) \cap Named(d) :
        \E n \in DOMAIN p : p[n] = Step("down", a)
  BY DownContainersFacts
<1>4. \A x \in ContainersToDelete(d) : x \in Containers
  BY DEF ContainersToDelete, Joined, Tables
<1>5. \A x \in Containers : x \in Risks(c) => x = c
  BY ContainerStoreAssumption DEF Risks, AtRisk
<1> HIDE DEF p, v, i, e
<1>6. /\ p \o v \in Seq(Steps) /\ Members(p \o v) \subseteq Members(p) \cup Members(v)
      /\ p \o v \o i \in Seq(Steps)
      /\ Members(p \o v \o i) \subseteq Members(p \o v) \cup Members(i)
      /\ p \o v \o i \o e \in Seq(Steps)
      /\ Members(p \o v \o i \o e) \subseteq Members(p \o v \o i) \cup Members(e)
  <2>1. p \o v \in Seq(Steps) /\ Members(p \o v) \subseteq Members(p) \cup Members(v)
    BY <1>2, ConcatMembers
  <2>2. /\ p \o v \o i \in Seq(Steps)
        /\ Members(p \o v \o i) \subseteq Members(p \o v) \cup Members(i)
    BY <1>2, <2>1, ConcatMembers
  <2> QED  BY <1>2, <2>1, <2>2, ConcatMembers
<1>7. CASE c \in ContainersToDelete(d)
  <2>1. c \in Named(d)
    BY <1>7 DEF ContainersToDelete, Joined, StoreInv, RowsOK
  <2>2. PICK n \in DOMAIN p : p[n] = Step("down", c)  BY <1>3, <1>7, <2>1
  <2>3. Removes(p[n], c)  BY <2>2 DEF Removes, Step
  <2>4. \E m \in DOMAIN p : Removes(p[m], c)  BY <2>3
  <2>5. Guarded(p, c, Risks(c))
    <3> SUFFICES ASSUME NEW k \in DOMAIN p, p[k].x \in Risks(c)
                 PROVE  \E m \in 1..k : Removes(p[m], c)
      BY DEF Guarded
    <3>1. p[k] \in Members(p) /\ k \in 1..k  BY <1>2, MemberAt
    <3>2. p[k].do = "down" /\ p[k].x = c  BY <1>2, <1>4, <1>5, <3>1
    <3>3. Removes(p[k], c)  BY <3>2 DEF Removes
    <3> QED  BY <3>1, <3>3
  <2>6. Guarded(p \o v, c, Risks(c)) /\ \E m \in DOMAIN (p \o v) : Removes((p \o v)[m], c)
    BY <1>2, <2>4, <2>5, GuardedConcat, RemovesConcat
  <2>7. /\ Guarded(p \o v \o i, c, Risks(c))
        /\ \E m \in DOMAIN (p \o v \o i) : Removes((p \o v \o i)[m], c)
    BY <1>2, <1>6, <2>6, GuardedConcat, RemovesConcat
  <2>8. Guarded(p \o v \o i \o e, c, Risks(c))  BY <1>2, <1>6, <2>7, GuardedConcat
  <2> QED  BY <1>1, <2>8
<1>8. CASE c \notin ContainersToDelete(d)
  <2>1. ASSUME NEW s \in Members(p)  PROVE s.x \notin Risks(c)
    BY <1>2, <1>4, <1>5, <1>8, <2>1
  <2>2. ASSUME NEW s \in Members(v)  PROVE s.x \notin Risks(c)
    <3>1. s.x \in Resources \ Images  BY <1>2
    <3> QED  BY <3>1, ContainerStoreAssumption DEF Risks, AtRisk
  <2>3. ASSUME NEW s \in Members(i)  PROVE s.x \notin Risks(c)
    <3>1. s.x \in ResourcesToDelete(d) \cap Images  BY <1>2
    <3>2. s.x \notin Needs[c]  BY <1>8, <3>1, ImageOfLast DEF StoreInv
    <3> QED  BY <3>1, <3>2, ContainerStoreAssumption DEF Risks, AtRisk
  <2>4. ASSUME NEW s \in Members(e)  PROVE s.x \notin Risks(c)
    <3>1. s.x = d  BY <1>2 DEF Step
    <3>2. ~ \A a \in Deployments \ {d} : c \notin Joined(a)  BY <1>8, LastOwner
    <3> QED  BY <3>1, <3>2, ContainerStoreAssumption DEF Risks, AtRisk
  <2>5. \A s \in Members(p \o v \o i \o e) : s.x \notin Risks(c)
    BY <1>6, <2>1, <2>2, <2>3, <2>4
  <2> QED  BY <1>1, <1>6, <2>5, GuardedNone
<1> QED  BY <1>7, <1>8

LEMMA DeleteLast ==
  ASSUME db \in Tables, NEW d \in Deployments
  PROVE  /\ GoesLast(DeleteSteps(d))
         /\ \A s \in Members(DeleteSteps(d)) : s.do \in {"down", "unset", "drop"}
<1> DEFINE p == DownContainers(d)
           v == DownVolumes(d)
           i == DownImages(d)
           e == DropSelf(d)
<1>1. DeleteSteps(d) = p \o v \o i \o e
  BY DEF DeleteSteps, DownContainers, DownVolumes, DownImages, DropSelf
<1>2. /\ p \in Seq(Steps) /\ v \in Seq(Steps) /\ i \in Seq(Steps) /\ e \in Seq(Steps)
      /\ \A s \in Members(p) : s.do = "down" /\ s.x \in ContainersToDelete(d)
      /\ \A s \in Members(v) : s.do = "down" /\ s.x \in Resources \ Images
      /\ \A s \in Members(i) : s.do = "down" /\ s.x \in ResourcesToDelete(d) \cap Images
      /\ Members(e) = {Step("unset", d), Step("drop", d)}
      /\ Len(e) = 2 /\ e[1] = Step("unset", d) /\ e[2] = Step("drop", d)
  BY DownContainersFacts, DownResourcesFacts, DropSelfFacts
<1> HIDE DEF p, v, i, e
<1>3. p \o v \in Seq(Steps) /\ Members(p \o v) \subseteq Members(p) \cup Members(v)
  BY <1>2, ConcatMembers
<1>4. /\ p \o v \o i \in Seq(Steps)
      /\ Members(p \o v \o i) \subseteq Members(p \o v) \cup Members(i)
  BY <1>2, <1>3, ConcatMembers
<1>5. Members(p \o v \o i \o e) \subseteq Members(p \o v \o i) \cup Members(e)
  BY <1>2, <1>4, ConcatMembers
<1>6. \A x \in ContainersToDelete(d) : x \notin Deployments
  BY ContainerStoreAssumption DEF ContainersToDelete, Joined, Tables
<1>7. \A s \in Members(p \o v \o i) : s.do = "down" /\ s.x \notin Deployments
  BY <1>2, <1>3, <1>4, <1>6, ContainerStoreAssumption
<1>8. GoesLast(e)
  <2> SUFFICES ASSUME NEW n \in DOMAIN e
               PROVE  e[n].do # "down" /\ (e[n].do = "drop" => n = Len(e))
    BY DEF GoesLast
  <2>1. n \in 1..2  BY <1>2, MemberAt
  <2>2. n = 1 \/ n = 2  BY <2>1
  <2> QED  BY <1>2, <2>2 DEF Step
<1>9. GoesLast(p \o v \o i \o e)  BY <1>2, <1>4, <1>7, <1>8, LastConcat
<1>10. \A s \in Members(e) : s.do \in {"unset", "drop"}  BY <1>2 DEF Step
<1> QED  BY <1>1, <1>5, <1>7, <1>9, <1>10

LEMMA DeleteKept ==
  ASSUME db \in Tables, Kept, NEW d \in Deployments, todo' = DeleteSteps(d),
         UNCHANGED <<db, docker>>
  PROVE  Kept'
<1>2. StoreInv'  BY DEF Kept, StoreInv, RowsOK, LinksOK, IsStored
<1>3. Grows /\ NoneComes  BY DEF Grows, Joined, NoneComes, Present
<1>4. Reachable'  BY <1>3, ReachableKept DEF Kept
<1>5. Deletes'
  <2> SUFFICES ASSUME NEW c \in Containers, Present(c)'
               PROVE  Guarded(todo', c, Risks(c)')
    BY DEF Deletes, Guarded
  <2>1. Owned(c)  BY <1>3 DEF NoneComes, Kept, Reachable
  <2>2. Guarded(todo', c, Risks(c))  BY <2>1, DeleteGuarded DEF Kept
  <2> QED  BY <1>3, <2>2, RisksShrink, GuardedLess
<1>6. /\ GoesLast(todo')
      /\ \A s \in Members(todo') : s.do \in {"down", "unset", "drop"}
  BY DeleteLast
<1>7. Brings'  BY <1>6 DEF Brings, Members
<1>8. OneWay'  BY <1>6 DEF OneWay, Members
<1> QED  BY <1>2, <1>4, <1>5, <1>6, <1>7, <1>8 DEF Kept, GoesLast

-----------------------------------------------------------------------------
(* The steps that change what is in Docker or in the store.                *)

(* A step with nothing to follow it.                                       *)
LEMMA DoneKept ==
  ASSUME Kept, StoreInv', Grows, NoneComes, todo \in Seq(Steps), todo # <<>>,
         Continue(<<>>),
         \A c \in Containers : Present(c)' => ~ Removes(Head(todo), c)
  PROVE  Kept'
BY NoSteps, ContinueKept DEF Continue

(* Tail(todo) is what is left when nothing follows.                        *)
LEMMA NothingFollows ==
  ASSUME todo \in Seq(Steps), todo # <<>>, Continue(<<>>)
  PROVE  /\ todo' = Tail(todo) /\ todo' \in Seq(Steps)
         /\ Members(todo') \subseteq Members(todo)
<1>1. Tail(todo) \in Seq(Steps) /\ Members(Tail(todo)) \subseteq Members(todo)
  BY TailMembers
<1>2. todo' = Tail(todo)  BY <1>1, ConcatEmptySeq DEF Continue
<1> QED  BY <1>1, <1>2

(* Only what has an owner is created, and then nothing is deleted.         *)
LEMMA CreateKept ==
  ASSUME Kept, todo \in Seq(Steps), todo # <<>>, Continue(<<>>),
         Head(todo).do = "create", Head(todo).x \in Containers,
         docker \in [Containers -> DockerStates],
         docker' = [docker EXCEPT ![Head(todo).x] = "created"], UNCHANGED db
  PROVE  Kept' /\ Owned(Head(todo).x)
<1> DEFINE h == Head(todo)
<1>1. h \in Members(todo)  BY TailMembers
<1>2. /\ todo' = Tail(todo) /\ todo' \in Seq(Steps)
      /\ Members(todo') \subseteq Members(todo)
  BY NothingFollows
<1>3. Owned(h.x)  BY <1>1 DEF Kept, Brings
<1>4. \A s \in Members(todo') : s.do \notin {"down", "drop"}
  BY <1>1, <1>2 DEF Kept, OneWay
<1>5. Benign(todo')  BY <1>2, <1>4 DEF Benign, Kept, Brings
<1>6. StoreInv' /\ Grows  BY SameRows DEF Kept, IsStored
<1>7. Reachable'
  <2> SUFFICES ASSUME NEW c \in Containers, docker'[c] # "absent"
               PROVE  \E d \in Deployments : c \in Joined(d)'
    BY DEF Reachable, Present, Owned
  <2>1. c = h.x \/ docker[c] # "absent"  OBVIOUS
  <2>2. Owned(c)  BY <1>3, <2>1 DEF Kept, Reachable, Present
  <2> QED  BY <1>6, <2>2 DEF Owned, Grows
<1>8. Kept'  BY <1>2, <1>5, <1>6, <1>7, BenignKept
<1> QED  BY <1>3, <1>8

(* The row of a container that is gone, or of something no container in    *)
(* Docker depends on, takes none of those with it.                         *)
LEMMA WithoutFacts ==
  ASSUME db \in Tables, NEW S
  PROVE  LET t == WithoutContainers(S) IN
         /\ \A d \in Deployments : t.rows[d] = db.rows[d] \ S
         /\ t.lacks = db.lacks
         /\ \A c \in Containers :
              /\ t.cont[c] = IF c \in S THEN "none" ELSE db.cont[c]
              /\ t.links[c] = IF c \in S THEN {} ELSE db.links[c]
              /\ t.missing[c] = IF c \in S THEN {} ELSE db.missing[c]
BY DEF WithoutContainers, Tables

LEMMA LoseContainers ==
  ASSUME db \in Tables, StoreInv, NEW S,
         \A d \in Deployments : db'.rows[d] = db.rows[d] \ S,
         db'.lacks = db.lacks,
         \A c \in Containers :
              /\ db'.cont[c] = IF c \in S THEN "none" ELSE db.cont[c]
              /\ db'.links[c] = IF c \in S THEN {} ELSE db.links[c]
              /\ db'.missing[c] = IF c \in S THEN {} ELSE db.missing[c]
  PROVE  /\ StoreInv' /\ Shrinks
         /\ \A d \in Deployments, c \in Containers \ S : c \in Joined(d) => c \in Joined(d)'
<1>1. RowsOK'
  <2> SUFFICES ASSUME NEW d \in Deployments
               PROVE  db'.rows[d] \subseteq Named(d) /\ db'.lacks[d] \subseteq Named(d)
    BY DEF RowsOK, Named
  <2> QED  BY DEF StoreInv, RowsOK
<1>2. LinksOK'
  <2> SUFFICES ASSUME NEW c \in Containers
               PROVE  /\ db'.links[c] \subseteq Needs[c] /\ db'.missing[c] \subseteq Needs[c]
                      /\ db'.cont[c] = "none" => db'.links[c] = {} /\ db'.missing[c] = {}
    BY DEF LinksOK, IsStored
  <2>1. CASE c \in S  BY <2>1
  <2>2. CASE c \notin S  BY <2>2 DEF StoreInv, LinksOK, IsStored
  <2> QED  BY <2>1, <2>2
<1>3. Shrinks
  <2> SUFFICES ASSUME NEW d \in Deployments, NEW c, c \in db'.rows[d],
                      db'.links[c] \cap Images # {}
               PROVE  c \in db.rows[d] /\ db.links[c] \cap Images # {}
    BY DEF Shrinks, Joined
  <2>1. c \in db.rows[d] /\ c \notin S /\ c \in Containers  BY DEF Tables
  <2> QED  BY <2>1
<1>4. ASSUME NEW d \in Deployments, NEW c \in Containers \ S, c \in Joined(d)
      PROVE  c \in Joined(d)'
  BY <1>4 DEF Joined
<1> QED  BY <1>1, <1>2, <1>3, <1>4 DEF StoreInv

LEMMA LoseResource ==
  ASSUME db \in Tables, StoreInv, NEW r \in Resources \ Images, db' = DeleteResource(r)
  PROVE  StoreInv' /\ Shrinks /\ Grows
<1>1. /\ db'.rows = db.rows /\ db'.lacks = db.lacks /\ db'.cont = db.cont
      /\ db'.missing = db.missing
      /\ \A c \in Containers : db'.links[c] = db.links[c] \ {r}
  BY DEF DeleteResource, Tables
<1>2. RowsOK'  BY <1>1 DEF StoreInv, RowsOK
<1>3. LinksOK'
  <2> SUFFICES ASSUME NEW c \in Containers
               PROVE  /\ db'.links[c] \subseteq Needs[c] /\ db'.missing[c] \subseteq Needs[c]
                      /\ db'.cont[c] = "none" => db'.links[c] = {} /\ db'.missing[c] = {}
    BY DEF LinksOK, IsStored
  <2> QED  BY <1>1 DEF StoreInv, LinksOK, IsStored
<1>4. \A c \in Containers : db'.links[c] \cap Images = db.links[c] \cap Images
  BY <1>1
<1>5. \A d \in Deployments : Joined(d)' = Joined(d)
  <2> SUFFICES ASSUME NEW d \in Deployments
               PROVE  {c \in db'.rows[d] : db'.links[c] \cap Images # {}}
                        = {c \in db.rows[d] : db.links[c] \cap Images # {}}
    BY DEF Joined
  <2>1. db.rows[d] \subseteq Containers  BY DEF Tables
  <2> QED  BY <1>1, <1>4, <2>1
<1> QED  BY <1>2, <1>3, <1>5 DEF StoreInv, Shrinks, Grows

LEMMA LoseDeployment ==
  ASSUME db \in Tables, StoreInv, NEW d \in Deployments, db' = DeleteDeployment(d)
  PROVE  /\ StoreInv' /\ Shrinks
         /\ \A e \in Deployments \ {d} : Joined(e)' = Joined(e)
<1>1. /\ db'.cont = db.cont /\ db'.links = db.links /\ db'.missing = db.missing
      /\ \A e \in Deployments :
           /\ db'.rows[e] = IF e = d THEN {} ELSE db.rows[e]
           /\ db'.lacks[e] = IF e = d THEN {} ELSE db.lacks[e]
  BY DEF DeleteDeployment, Tables
<1>2. RowsOK'
  <2> SUFFICES ASSUME NEW e \in Deployments
               PROVE  db'.rows[e] \subseteq Named(e) /\ db'.lacks[e] \subseteq Named(e)
    BY DEF RowsOK, Named
  <2> QED  BY <1>1 DEF StoreInv, RowsOK
<1>3. LinksOK'  BY <1>1 DEF StoreInv, LinksOK, IsStored
<1>4. Shrinks  BY <1>1 DEF Shrinks, Joined
<1>5. \A e \in Deployments \ {d} : Joined(e)' = Joined(e)  BY <1>1 DEF Joined
<1> QED  BY <1>2, <1>3, <1>4, <1>5 DEF StoreInv

LEMMA DropRest ==
  ASSUME Kept, StoreInv', todo \in Seq(Steps), todo # <<>>, Continue(<<>>),
         Head(todo).do = "drop", UNCHANGED docker,
         \A c \in Containers : Present(c) =>
           \A d \in Deployments : c \in Joined(d) => c \in Joined(d)'
  PROVE  Kept'
<1>1. /\ todo' = Tail(todo) /\ todo' \in Seq(Steps)
      /\ Members(todo') \subseteq Members(todo)
  BY NothingFollows
<1>2. \A s \in Members(todo) : s.do \notin {"up", "create"}
  BY TailMembers DEF Kept, OneWay
<1>3. Reachable'
  <2> SUFFICES ASSUME NEW c \in Containers, docker[c] # "absent"
               PROVE  \E d \in Deployments : c \in Joined(d)'
    BY DEF Reachable, Present, Owned
  <2>1. PICK d \in Deployments : c \in Joined(d)  BY DEF Kept, Reachable, Present, Owned
  <2> QED  BY <2>1 DEF Present
<1>4. Deletes'
  <2> SUFFICES ASSUME NEW c \in Containers, Present(c)
               PROVE  Guarded(todo', c, Risks(c)')
    BY DEF Deletes, Guarded, Present
  <2>1. ~ Removes(Head(todo), c)  BY DEF Removes
  <2>2. Guarded(todo', c, Risks(c))  BY <1>1, <2>1, GuardedTail DEF Kept, Deletes
  <2>3. Risks(c)' \subseteq Risks(c)
    <3> SUFFICES ASSUME NEW x \in Objects, AtRisk(x, c)'  PROVE AtRisk(x, c)
      BY DEF Risks
    <3>1. \A d \in Deployments : c \in Joined(d) => c \in Joined(d)'  OBVIOUS
    <3> QED  BY <3>1 DEF AtRisk
  <2> QED  BY <2>2, <2>3, GuardedLess
<1>5. Brings'  BY <1>1, <1>2 DEF Brings, Members
<1>6. OneWay'  BY <1>1, <1>2 DEF OneWay, Members
<1>7. GoesLast(todo')  BY <1>1, LastTail DEF Kept
<1> QED  BY <1>3, <1>4, <1>5, <1>6, <1>7 DEF Kept, GoesLast

LEMMA DropKept ==
  ASSUME Typed, Kept, Doing("drop"), Continue(<<>>), UNCHANGED docker,
         db' = IF Subject \in Deployments THEN DeleteDeployment(Subject)
               ELSE IF Subject \in Containers THEN DeleteContainer(Subject)
               ELSE DeleteResource(Subject)
  PROVE  Kept' /\ Shrinks
<1> DEFINE x == Subject
<1>1. /\ todo # <<>> /\ todo \in Seq(Steps) /\ Head(todo).do = "drop"
      /\ x \in Objects /\ x = Head(todo).x
  BY DoingFacts DEF Typed, OpOK, Subject
<1>2. db \in Tables /\ StoreInv  BY DEF Typed, TypeOK, Kept
<1>3. ASSUME NEW c \in Containers, Present(c)  PROVE x \notin Risks(c)
  <2>1. Guarded(todo, c, Risks(c))  BY <1>3 DEF Kept, Deletes
  <2>2. ~ Removes(Head(todo), c)  BY <1>1 DEF Removes
  <2> QED  BY <1>1, <2>1, <2>2, GuardedHead
<1>4. CASE x \in Deployments
  <2>1. db' = DeleteDeployment(x)  BY <1>4
  <2>2. /\ StoreInv' /\ Shrinks
        /\ \A e \in Deployments \ {x} : Joined(e)' = Joined(e)
    BY <1>2, <1>4, <2>1, LoseDeployment
  <2>3. todo' = <<>>
    <3>1. todo[1] = Head(todo) /\ 1 \in DOMAIN todo  BY <1>1, MemberAt, EmptySeq
    <3>2. Len(todo) = 1  BY <1>1, <1>4, <3>1 DEF Kept, GoesLast
    <3>3. Tail(todo) \in Seq(Steps) /\ Len(Tail(todo)) = 0
      BY <1>1, <3>2, HeadTailProperties
    <3>4. Tail(todo) = <<>>  BY <3>3, EmptySeq
    <3> QED  BY <1>1, <3>4, NothingFollows
  <2>4. Members(todo') = {} /\ DOMAIN todo' = {}  BY <2>3 DEF Members
  <2>5. Reachable'
    <3> SUFFICES ASSUME NEW c \in Containers, docker[c] # "absent"
                 PROVE  \E d \in Deployments : c \in Joined(d)'
      BY DEF Reachable, Present, Owned
    <3>1. ~ AtRisk(x, c)  BY <1>1, <1>3 DEF Present, Risks
    <3>2. PICK e \in Deployments \ {x} : c \in Joined(e)  BY <1>4, <3>1 DEF AtRisk
    <3> QED  BY <2>2, <3>2
  <2>6. Deletes' /\ GoesLast(todo')  BY <2>4 DEF Deletes, Guarded, GoesLast
  <2>7. Brings' /\ OneWay'  BY <2>4 DEF Brings, OneWay, Members
  <2> QED  BY <2>2, <2>5, <2>6, <2>7 DEF Kept, GoesLast
<1>5. ASSUME NEW S, StoreInv',
             \A d \in Deployments, c \in Containers \ S : c \in Joined(d) => c \in Joined(d)',
             \A c \in Containers : Present(c) => c \notin S
      PROVE  Kept'
  BY <1>1, <1>5, DropRest
<1>6. CASE x \in Containers
  <2>1. db' = WithoutContainers({x})
    BY <1>6, ContainerStoreAssumption DEF DeleteContainer
  <2> DEFINE S == {x}
  <2> HIDE DEF S
  <2>4. /\ \A d \in Deployments : db'.rows[d] = db.rows[d] \ S
        /\ db'.lacks = db.lacks
        /\ \A c \in Containers :
             /\ db'.cont[c] = IF c \in S THEN "none" ELSE db.cont[c]
             /\ db'.links[c] = IF c \in S THEN {} ELSE db.links[c]
             /\ db'.missing[c] = IF c \in S THEN {} ELSE db.missing[c]
    BY <1>2, <2>1, WithoutFacts DEF S
  <2>2. /\ StoreInv' /\ Shrinks
        /\ \A d \in Deployments, c \in Containers \ S : c \in Joined(d) => c \in Joined(d)'
    BY <1>2, <2>4, LoseContainers
  <2>3. \A c \in Containers : Present(c) => c \notin S
    BY <1>1, <1>3 DEF Risks, AtRisk, S
  <2> QED  BY <1>5, <2>2, <2>3
<1>7. CASE x \in Images
  <2> DEFINE S == {c \in Containers : x \in db.links[c]}
             t == WithoutContainers(S)
  <2>1. db' = [t EXCEPT !.res[x] = "none"]
    BY <1>7, ContainerStoreAssumption DEF DeleteResource
  <2>2. /\ \A d \in Deployments : t.rows[d] = db.rows[d] \ S
        /\ t.lacks = db.lacks
        /\ \A c \in Containers :
             /\ t.cont[c] = IF c \in S THEN "none" ELSE db.cont[c]
             /\ t.links[c] = IF c \in S THEN {} ELSE db.links[c]
             /\ t.missing[c] = IF c \in S THEN {} ELSE db.missing[c]
    BY <1>2, WithoutFacts
  <2>3. t \in Tables  BY <1>2, WithoutType
  <2>4. \A c \in Containers : Present(c) => c \notin S
    BY <1>1, <1>3, <1>7 DEF Risks, AtRisk, Kept, StoreInv, LinksOK
  <2> HIDE DEF t, S
  <2>5. /\ db'.rows = t.rows /\ db'.lacks = t.lacks /\ db'.cont = t.cont
        /\ db'.links = t.links /\ db'.missing = t.missing
    BY <2>1, <2>3 DEF Tables
  <2>7. /\ \A d \in Deployments : db'.rows[d] = db.rows[d] \ S
        /\ db'.lacks = db.lacks
        /\ \A c \in Containers :
             /\ db'.cont[c] = IF c \in S THEN "none" ELSE db.cont[c]
             /\ db'.links[c] = IF c \in S THEN {} ELSE db.links[c]
             /\ db'.missing[c] = IF c \in S THEN {} ELSE db.missing[c]
    BY <2>2, <2>5
  <2>6. /\ StoreInv' /\ Shrinks
        /\ \A d \in Deployments, c \in Containers \ S : c \in Joined(d) => c \in Joined(d)'
    BY <1>2, <2>7, LoseContainers
  <2> QED  BY <1>5, <2>4, <2>6
<1>8. CASE x \in Resources \ Images
  <2>1. db' = DeleteResource(x)  BY <1>8, ContainerStoreAssumption
  <2>2. StoreInv' /\ Shrinks /\ Grows  BY <1>2, <1>8, <2>1, LoseResource
  <2>3. \A d \in Deployments, c \in Containers \ {} : c \in Joined(d) => c \in Joined(d)'
    BY <2>2 DEF Grows
  <2> QED  BY <1>5, <2>2, <2>3
<1> QED  BY <1>1, <1>4, <1>6, <1>7, <1>8 DEF Objects

-----------------------------------------------------------------------------
(* What a step is to Ownership.                                            *)

OwnershipStep == [O!OwnershipNext]_(O!ownershipVars)

LEMMA OwnersType ==
  /\ Owners \in [Containers -> SUBSET Deployments]
  /\ \A c \in Containers : Owners[c] = {d \in Deployments : c \in Joined(d)}
BY DEF Owners

LEMMA OwnersTypeNext ==
  /\ Owners' \in [Containers -> SUBSET Deployments]
  /\ \A c \in Containers : Owners'[c] = {d \in Deployments : c \in Joined(d)'}
BY DEF Owners

LEMMA OwnersSame ==
  ASSUME Grows, Shrinks
  PROVE  Owners' = Owners
<1>1. \A d \in Deployments : Joined(d)' = Joined(d)  BY DEF Grows, Shrinks
<1> QED  BY <1>1 DEF Owners

(* Requests only give owners.                                              *)
LEMMA Acquires ==
  ASSUME Grows, UNCHANGED docker
  PROVE  OwnershipStep
<1>1. \A c \in Containers : Owners[c] \subseteq Owners'[c]
  BY OwnersType, OwnersTypeNext DEF Grows
<1> QED
  BY <1>1, OwnersTypeNext DEF OwnershipStep, O!OwnershipNext, O!Acquire

(* Deletions leave one to what is in Docker.                               *)
LEMMA Releases ==
  ASSUME Shrinks, UNCHANGED docker, Reachable'
  PROVE  OwnershipStep
<1>1. \A c \in Containers : Owners'[c] \subseteq Owners[c]
  BY OwnersType, OwnersTypeNext DEF Shrinks
<1>2. \A c \in Containers : docker[c] # "absent" => Owners'[c] # {}
  <2> SUFFICES ASSUME NEW c \in Containers, docker[c] # "absent"
               PROVE  \E d \in Deployments : c \in Joined(d)'
    BY OwnersTypeNext
  <2>1. docker'[c] # "absent"  OBVIOUS
  <2> QED  BY <2>1 DEF Reachable, Present, Owned
<1> QED
  BY <1>1, <1>2, OwnersTypeNext DEF OwnershipStep, O!OwnershipNext, O!Release

(* Docker works for the owners.                                            *)
LEMMA Works ==
  ASSUME Grows, Shrinks, docker \in [Containers -> DockerStates],
         NEW c \in Containers, NEW to,
         docker' = [docker EXCEPT ![c] = to],
         \/ to = "created" /\ docker[c] = "absent" /\ Owned(c)
         \/ to = "running" /\ docker[c] # "absent"
         \/ to = "exited" /\ docker[c] = "running"
         \/ to = "absent" /\ docker[c] # "absent"
  PROVE  OwnershipStep
<1>1. Owners' = Owners  BY OwnersSame
<1>2. docker[c] # "absent" => docker[c] \in {"created", "running", "exited"}
  BY DEF DockerStates
<1>3. Owned(c) => Owners[c] # {}  BY OwnersType DEF Owned
<1>4. \/ O!CreateOwned(c) \/ O!StartOwned(c) \/ O!HaltOwned(c) \/ O!RemoveOwned(c)
  BY <1>1, <1>2, <1>3
     DEF O!CreateOwned, O!StartOwned, O!HaltOwned, O!RemoveOwned, O!Become
<1> QED  BY <1>4 DEF OwnershipStep, O!OwnershipNext

-----------------------------------------------------------------------------
(* Every step keeps the ownership.                                         *)

StoreSame == StoreInv' /\ Grows /\ Shrinks

LEMMA SameStore ==
  ASSUME Kept, UNCHANGED db
  PROVE  StoreSame
BY SameRows DEF Kept, IsStored, StoreSame

LEMMA FailKept ==
  ASSUME Typed, Kept, Fail, StoreInv', Grows, NoneComes
  PROVE  Kept'
<1>1. OpOK' /\ Benign(todo')  BY FailFacts DEF Typed
<1>2. Reachable'  BY ReachableKept DEF Kept
<1> QED  BY <1>1, <1>2, BenignKept DEF OpOK

(* A step that sets a status, or nothing, and goes on or fails.            *)
LEMMA QuietKept ==
  ASSUME Typed, Kept, NEW do, Doing(do), do \notin {"down", "remove"},
         Continue(<<>>) \/ Fail, StoreSame, UNCHANGED docker
  PROVE  Kept' /\ OwnershipStep
<1>1. todo # <<>> /\ todo \in Seq(Steps) /\ Head(todo).do = do
  BY DoingFacts DEF Typed, OpOK
<1>2. NoneComes  BY DEF NoneComes, Present
<1>3. \A c : ~ Removes(Head(todo), c)  BY <1>1 DEF Removes
<1>4. Kept'  BY <1>1, <1>2, <1>3, DoneKept, FailKept DEF StoreSame
<1> QED  BY <1>4, Acquires DEF StoreSame

LEMMA LookKept ==
  ASSUME Typed, Kept, NEW do, NEW s \in Seq(Steps), Look(do, s),
         \A t \in Members(s) :
           /\ t.do \in {"up", "create"} => do = "up" /\ t.x = Subject
           /\ t.do \in {"down", "drop"} => t.do = "drop" /\ do = "down" /\ t.x = Subject,
         \A c \in Containers :
           Present(c) /\ do \in {"down", "remove"} /\ Subject = c =>
             Guarded(s, c, Risks(c)) /\ \E m \in DOMAIN s : Removes(s[m], c)
  PROVE  Kept' /\ OwnershipStep
<1>1. todo # <<>> /\ todo \in Seq(Steps) /\ Head(todo).do = do /\ Head(todo).x = Subject
  BY DoingFacts DEF Look, Typed, OpOK, Subject
<1>2. StoreSame /\ UNCHANGED docker
  BY SameStore DEF Look, storeVars, dockerVars
<1>3. NoneComes  BY <1>2 DEF NoneComes, Present
<1>4. ASSUME Continue(s)  PROVE Kept'
  <2>1. todo' = s \o Tail(todo)  BY <1>4 DEF Continue
  <2>2. \A t \in Members(s) :
          /\ t.do \in {"up", "create"} =>
               Head(todo).do \in {"up", "create"} /\ t.x = Head(todo).x
          /\ t.do \in {"down", "drop"} =>
               t.do = "drop" /\ Head(todo).do = "down" /\ t.x = Head(todo).x
    BY <1>1
  <2>3. \A c \in Containers :
          Present(c)' /\ Removes(Head(todo), c) =>
            Guarded(s, c, Risks(c)) /\ \E m \in DOMAIN s : Removes(s[m], c)
    <3> SUFFICES ASSUME NEW c \in Containers, Present(c)', Removes(Head(todo), c)
                 PROVE  Guarded(s, c, Risks(c)) /\ \E m \in DOMAIN s : Removes(s[m], c)
      OBVIOUS
    <3>1. Present(c) /\ do \in {"down", "remove"} /\ Subject = c
      BY <1>1, <1>3 DEF NoneComes, Removes
    <3> QED  BY <3>1
  <2>4. StoreInv' /\ Grows  BY <1>2 DEF StoreSame
  <2> QED  BY <1>1, <1>3, <2>1, <2>2, <2>3, <2>4, ContinueKept
<1>5. ASSUME Fail  PROVE Kept'
  BY <1>2, <1>3, <1>5, FailKept DEF StoreSame
<1>6. Kept'  BY <1>4, <1>5 DEF Look
<1> QED  BY <1>2, <1>6, Acquires DEF StoreSame

LEMMA RecordKept ==
  ASSUME Typed, Kept, NEW do, do \notin {"down", "remove"}, NEW value, NEW tables,
         Record(do, value, tables),
         db' = tables => StoreSame
  PROVE  Kept' /\ OwnershipStep
<1>1. StoreSame  BY SameStore DEF Record
<1> QED  BY <1>1, QuietKept DEF Record, dockerVars

LEMMA MissingKept ==
  ASSUME Typed, Kept, MarkMissing
  PROVE  StoreSame /\ Fail
<1>1. ASSUME db' = SetContainer(Subject, "Published")  PROVE StoreSame
  <2>1. db \in Tables /\ StoreInv  BY DEF Typed, TypeOK, Kept
  <2> QED  BY <1>1, <2>1, SetContainerKeeps DEF StoreSame
<1>2. ASSUME db' = db  PROVE StoreSame
  BY <1>2, SameStore
<1> QED  BY <1>1, <1>2 DEF MarkMissing

LEMMA UpKept ==
  ASSUME Typed, Kept, Up
  PROVE  Kept' /\ OwnershipStep
<1> DEFINE p == IF Exists(Subject) /\ Subject \notin AlwaysPull
                THEN <<>> ELSE Steps2("create", "created")
           q == IF Subject \in Containers THEN Steps2("start", "started") ELSE <<>>
<1>1. Look("up", p \o q)  BY DEF Up
<1>2. Subject \in Objects  BY <1>1, DoingFacts DEF Look, Typed
<1>3. /\ {"create", "created", "start", "started"} \subseteq Dos
      /\ \A do \in Dos : Step(do, Subject) \in Steps
  BY <1>2, StepType DEF Dos
<1>4. /\ p \in Seq(Steps) /\ q \in Seq(Steps)
      /\ Members(p) \subseteq {Step("create", Subject), Step("created", Subject)}
      /\ Members(q) \subseteq {Step("start", Subject), Step("started", Subject)}
  BY <1>3, NoSteps, TwoSteps DEF Steps2
<1> HIDE DEF p, q
<1>5. p \o q \in Seq(Steps) /\ Members(p \o q) \subseteq Members(p) \cup Members(q)
  BY <1>4, ConcatMembers
<1>6. /\ \A t \in Members(p) : t.do \in {"create", "created"} /\ t.x = Subject
      /\ \A t \in Members(q) : t.do \in {"start", "started"} /\ t.x = Subject
  BY <1>4 DEF Step
<1>7. \A t \in Members(p \o q) :
        t.x = Subject /\ ~ (t.do \in {"down", "drop"})
  BY <1>5, <1>6
<1> DEFINE s == p \o q
           do == "up"
<1>8. /\ s \in Seq(Steps) /\ Look(do, s) /\ do = "up"
      /\ \A t \in Members(s) : t.x = Subject /\ ~ (t.do \in {"down", "drop"})
  BY <1>1, <1>5, <1>7
<1> HIDE DEF s, do
<1> QED  BY <1>8, LookKept

LEMMA LookStopKept ==
  ASSUME Typed, Kept, StopLook \/ RestartLook
  PROVE  Kept' /\ OwnershipStep
<1>1. \/ Look("stop", StopSteps)
      \/ Look("restart", RestartSteps)
  BY DEF StopLook, RestartLook, StopSteps, RestartSteps
<1>2. Subject \in Objects  BY <1>1, DoingFacts DEF Look, Typed
<1>3. /\ {"halt", "stopped", "start", "started"} \subseteq Dos
      /\ \A do \in Dos : Step(do, Subject) \in Steps
  BY <1>2, StepType DEF Dos
<1>4. /\ StopSteps \in Seq(Steps) /\ RestartSteps \in Seq(Steps)
      /\ Members(StopSteps) \subseteq {Step("halt", Subject), Step("stopped", Subject)}
      /\ Members(RestartSteps) \subseteq {Step("start", Subject), Step("started", Subject)}
  BY <1>3, NoSteps, TwoSteps DEF StopSteps, RestartSteps, Steps2
<1>5. /\ \A t \in Members(StopSteps) : t.do \in {"halt", "stopped"}
      /\ \A t \in Members(RestartSteps) : t.do \in {"start", "started"}
  BY <1>4 DEF Step
<1>6. CASE Look("stop", StopSteps)  BY <1>4, <1>5, <1>6, LookKept
<1>7. CASE Look("restart", RestartSteps)  BY <1>4, <1>5, <1>7, LookKept
<1> QED  BY <1>1, <1>6, <1>7

(* What is there is removed before its row is deleted.                     *)
LEMMA DownKept ==
  ASSUME Typed, Kept, Down
  PROVE  Kept' /\ OwnershipStep
<1> DEFINE h == IF Subject \in Containers THEN <<Step("halt", Subject)>> ELSE <<>>
           r == <<Step("remove", Subject)>>
           p == IF Exists(Subject) THEN h \o r ELSE <<>>
           u == Steps2("unset", "drop")
<1>1. Look("down", p \o u)  BY DEF Down
<1>2. Subject \in Objects  BY <1>1, DoingFacts DEF Look, Typed
<1>3. /\ {"halt", "remove", "unset", "drop"} \subseteq Dos
      /\ \A do \in Dos : Step(do, Subject) \in Steps
  BY <1>2, StepType DEF Dos
<1>4. /\ h \in Seq(Steps) /\ Members(h) \subseteq {Step("halt", Subject)}
      /\ r \in Seq(Steps) /\ Members(r) = {Step("remove", Subject)}
      /\ u \in Seq(Steps) /\ Members(u) = {Step("unset", Subject), Step("drop", Subject)}
  BY <1>3, NoSteps, OneStep, TwoSteps DEF Steps2
<1>5. Len(h) \in Nat /\ Len(r) = 1 /\ r[1] = Step("remove", Subject)
  BY <1>3, <1>4, OneStep, LenProperties
<1> HIDE DEF h, r, u
<1>6. h \o r \in Seq(Steps) /\ Members(h \o r) \subseteq Members(h) \cup Members(r)
  BY <1>4, ConcatMembers
<1>7. /\ p \in Seq(Steps)
      /\ Members(p) \subseteq {Step("halt", Subject), Step("remove", Subject)}
  BY <1>4, <1>6, NoSteps
<1>8. ASSUME NEW c \in Containers, Present(c), Subject = c
      PROVE  \E m \in DOMAIN p : Removes(p[m], c)
  <2>1. p = h \o r  BY <1>8 DEF Exists, Present
  <2>2. Len(h) + 1 \in DOMAIN (h \o r) /\ (h \o r)[Len(h) + 1] = r[1]
    BY <1>4, <1>5, ConcatProperties
  <2>3. Removes(r[1], c)  BY <1>5, <1>8 DEF Removes, Step
  <2> QED  BY <2>1, <2>2, <2>3
<1> HIDE DEF p
<1>9. /\ \A t \in Members(p) : t.do \in {"halt", "remove"}
      /\ \A t \in Members(u) : t.do \in {"unset", "drop"} /\ t.x = Subject
  BY <1>4, <1>7 DEF Step
<1>10. p \o u \in Seq(Steps) /\ Members(p \o u) \subseteq Members(p) \cup Members(u)
  BY <1>4, <1>7, ConcatMembers
<1>11. ASSUME NEW c \in Containers, Present(c), Subject = c
       PROVE  /\ Guarded(p \o u, c, Risks(c))
              /\ \E m \in DOMAIN (p \o u) : Removes((p \o u)[m], c)
  <2>1. \E m \in DOMAIN p : Removes(p[m], c)  BY <1>8, <1>11
  <2>2. Guarded(p, c, Risks(c))  BY <1>7, <1>9, GuardedNone
  <2> QED  BY <1>4, <1>7, <2>1, <2>2, GuardedConcat, RemovesConcat
<1>12. \A t \in Members(p \o u) :
         /\ t.do \in {"up", "create"} => FALSE
         /\ t.do \in {"down", "drop"} => t.do = "drop" /\ t.x = Subject
  BY <1>9, <1>10
<1> QED  BY <1>1, <1>10, <1>11, <1>12, LookKept

LEMMA CreateStepKept ==
  ASSUME Typed, Kept, Create
  PROVE  Kept' /\ OwnershipStep
<1>1. Doing("create") /\ UNCHANGED db  BY DEF Create, storeVars
<1>2. /\ todo # <<>> /\ todo \in Seq(Steps) /\ Head(todo).do = "create"
      /\ Head(todo).x = Subject /\ docker \in [Containers -> DockerStates]
      /\ Subject \in Objects
  BY <1>1, DoingFacts DEF Typed, TypeOK, OpOK, Subject
<1>3. StoreSame  BY <1>1, SameStore
<1>4. CASE UNCHANGED docker /\ (Continue(<<>>) \/ Fail)
  BY <1>1, <1>3, <1>4, QuietKept
<1>5. CASE /\ Subject \notin Resources /\ docker[Subject] = "absent"
           /\ docker' = [docker EXCEPT ![Subject] = "created"] /\ Continue(<<>>)
  <2>1. CASE Subject \in Containers
    <3>1. Kept' /\ Owned(Subject)  BY <1>1, <1>2, <1>5, <2>1, CreateKept
    <3>2. Grows /\ Shrinks  BY <1>3 DEF StoreSame
    <3> QED  BY <1>2, <1>5, <2>1, <3>1, <3>2, Works
  <2>2. CASE Subject \notin Containers
    <3>1. docker' = docker  BY <1>2, <1>5, <2>2
    <3> QED  BY <1>4, <1>5, <3>1
  <2> QED  BY <2>1, <2>2
<1> QED  BY <1>4, <1>5 DEF Create, dockerVars

LEMMA StartKept ==
  ASSUME Typed, Kept, Start
  PROVE  Kept' /\ OwnershipStep
<1>1. /\ Doing("start") /\ docker \in [Containers -> DockerStates]
  BY DEF Start, Typed, TypeOK
<1>2. /\ todo # <<>> /\ todo \in Seq(Steps) /\ Head(todo).do = "start"
  BY <1>1, DoingFacts DEF Typed, OpOK
<1>3. CASE /\ Exists(Subject) /\ Continue(<<>>) /\ UNCHANGED db
           /\ docker' = [docker EXCEPT ![Subject] = "running"]
  <2>1. StoreSame  BY <1>3, SameStore
  <2>2. CASE Subject \in Containers
    <3>1. docker[Subject] # "absent"  BY <1>3, <2>2 DEF Exists
    <3>2. OwnershipStep  BY <1>1, <1>3, <2>1, <2>2, <3>1, Works DEF StoreSame
    <3>3. NoneComes  BY <1>1, <1>3, <3>1 DEF NoneComes, Present
    <3>4. \A c : ~ Removes(Head(todo), c)  BY <1>2 DEF Removes
    <3> QED  BY <1>2, <1>3, <2>1, <3>2, <3>3, <3>4, DoneKept DEF StoreSame
  <2>3. CASE Subject \notin Containers
    <3>1. docker' = docker  BY <1>1, <1>3, <2>3
    <3> QED  BY <1>1, <1>3, <2>1, <3>1, QuietKept
  <2> QED  BY <2>2, <2>3
<1>4. CASE MarkMissing /\ UNCHANGED docker
  BY <1>1, <1>4, MissingKept, QuietKept
<1> QED  BY <1>3, <1>4 DEF Start, storeVars

LEMMA HaltKept ==
  ASSUME Typed, Kept, Halt
  PROVE  Kept' /\ OwnershipStep
<1>1. /\ Doing("halt") /\ docker \in [Containers -> DockerStates]
      /\ docker' = [docker EXCEPT ![Subject] = IF @ = "running" THEN "exited" ELSE @]
  BY DEF Halt, Typed, TypeOK
<1>2. todo # <<>> /\ todo \in Seq(Steps) /\ Head(todo).do = "halt"
  BY <1>1, DoingFacts DEF Typed, OpOK
<1>3. StoreSame /\ (Continue(<<>>) \/ Fail)
  <2>1. CASE Continue(<<>>) /\ UNCHANGED db  BY <2>1, SameStore
  <2>2. CASE MarkMissing  BY <2>2, MissingKept
  <2> QED  BY <2>1, <2>2 DEF Halt, storeVars
<1>4. CASE Subject \in Containers /\ docker[Subject] = "running"
  <2>1. docker' = [docker EXCEPT ![Subject] = "exited"]  BY <1>1, <1>4
  <2>2. OwnershipStep  BY <1>1, <1>3, <1>4, <2>1, Works DEF StoreSame
  <2>3. NoneComes  BY <1>1, <1>4, <2>1 DEF NoneComes, Present
  <2>4. \A c : ~ Removes(Head(todo), c)  BY <1>2 DEF Removes
  <2>5. Kept'  BY <1>2, <1>3, <2>3, <2>4, DoneKept, FailKept DEF StoreSame
  <2> QED  BY <2>2, <2>5
<1>5. CASE ~ (Subject \in Containers /\ docker[Subject] = "running")
  <2>1. docker' = docker  BY <1>1, <1>5
  <2> QED  BY <1>1, <1>3, <2>1, QuietKept
<1> QED  BY <1>4, <1>5

LEMMA RemoveKept ==
  ASSUME Typed, Kept, RemoveObject
  PROVE  Kept' /\ OwnershipStep
<1>1. /\ Doing("remove") /\ docker \in [Containers -> DockerStates] /\ UNCHANGED db
  BY DEF RemoveObject, Typed, TypeOK, storeVars
<1>2. /\ todo # <<>> /\ todo \in Seq(Steps) /\ Head(todo).x = Subject
  BY <1>1, DoingFacts DEF Typed, OpOK, Subject
<1>3. StoreSame  BY <1>1, SameStore
<1>4. CASE /\ Subject \in Containers /\ Continue(<<>>)
           /\ docker' = [docker EXCEPT ![Subject] = "absent"]
  <2>1. NoneComes  BY <1>1, <1>4 DEF NoneComes, Present
  <2>2. \A c \in Containers : Present(c)' => ~ Removes(Head(todo), c)
    BY <1>1, <1>2, <1>4 DEF Present, Removes
  <2>3. Kept'  BY <1>2, <1>3, <1>4, <2>1, <2>2, DoneKept DEF StoreSame
  <2>4. CASE docker[Subject] = "absent"
    <3>1. docker' = docker  BY <1>1, <1>4, <2>4
    <3> QED  BY <1>3, <2>3, <3>1, Acquires DEF StoreSame
  <2>5. CASE docker[Subject] # "absent"
    <3>1. Grows /\ Shrinks  BY <1>3 DEF StoreSame
    <3> QED  BY <1>1, <1>4, <2>3, <2>5, <3>1, Works
  <2> QED  BY <2>4, <2>5
<1>5. CASE /\ UNCHANGED docker
           /\ (Subject \in Resources /\ Continue(<<>>)) \/ Fail
  <2>1. NoneComes  BY <1>5 DEF NoneComes, Present
  <2>2. OwnershipStep  BY <1>3, <1>5, Acquires DEF StoreSame
  <2>3. CASE Fail  BY <1>3, <2>1, <2>2, <2>3, FailKept DEF StoreSame
  <2>4. CASE Subject \in Resources /\ Continue(<<>>)
    <3>1. \A c \in Containers : ~ Removes(Head(todo), c)
      BY <1>2, <2>4, ContainerStoreAssumption DEF Removes
    <3> QED  BY <1>2, <1>3, <2>1, <2>2, <2>4, <3>1, DoneKept DEF StoreSame
  <2> QED  BY <1>5, <2>3, <2>4
<1> QED
  BY <1>4, <1>5, ContainerStoreAssumption DEF RemoveObject, dockerVars

(* publish and the records set a status.                                   *)
LEMMA StatusKept ==
  ASSUME Typed, Kept, Publish \/ Created \/ Started \/ Stopped
  PROVE  Kept' /\ OwnershipStep
<1>1. db \in Tables /\ StoreInv  BY DEF Typed, TypeOK, Kept
<1>2. /\ \A d, status : db' = SetDeployment(d, status) => StoreSame
      /\ \A c, status : status # "none" /\ db' = SetContainer(c, status) => StoreSame
      /\ \A r, status : db' = SetResource(r, status) => StoreSame
  BY <1>1, SetDeploymentKeeps, SetContainerKeeps, SetResourceKeeps DEF StoreSame
<1>3. CASE Publish
  <2>1. \/ db' = db
        \/ db' = SetDeployment(Subject, "Stopped")
        \/ db' = SetContainer(Subject, "Published")
        \/ db' = SetResource(Subject, "Published")
    BY <1>3 DEF Publish
  <2>2. StoreSame  BY <1>2, <2>1, SameStore
  <2> QED  BY <1>3, <2>2, QuietKept DEF Publish, dockerVars
<1>4. CASE Created
  <2> DEFINE value == IF Subject \in Containers THEN "Created" ELSE "true"
             tables == IF Subject \in Containers THEN SetContainer(Subject, "Stopped")
                                                 ELSE SetResource(Subject, "Created")
  <2>1. db' = tables => StoreSame  BY <1>2
  <2>2. Record("created", value, tables)  BY <1>4 DEF Created
  <2> HIDE DEF value, tables
  <2> QED  BY <2>1, <2>2, RecordKept
<1>5. CASE Started
  <2>1. db' = SetContainer(Subject, "Running") => StoreSame  BY <1>2
  <2> QED  BY <1>5, <2>1, RecordKept DEF Started
<1>6. CASE Stopped
  <2>1. db' = SetContainer(Subject, "Stopped") => StoreSame  BY <1>2
  <2> QED  BY <1>6, <2>1, RecordKept DEF Stopped
<1> QED  BY <1>3, <1>4, <1>5, <1>6

LEMMA DropStepKept ==
  ASSUME Typed, Kept, Drop
  PROVE  Kept' /\ OwnershipStep
<1>1. Doing("drop") /\ UNCHANGED docker  BY DEF Drop, dockerVars
<1>2. CASE HasRow(Subject)
  <2>1. Kept' /\ Shrinks  BY <1>1, <1>2, DropKept DEF Drop
  <2> QED  BY <1>1, <2>1, Releases DEF Kept
<1>3. CASE ~ HasRow(Subject)
  <2>1. Fail /\ UNCHANGED db  BY <1>3 DEF Drop
  <2> QED  BY <1>1, <2>1, SameStore, QuietKept
<1> QED  BY <1>2, <1>3

(* The service does something else, and the store and Docker stay.         *)
LEMMA RestKept ==
  ASSUME Typed, Typed', Kept, UNCHANGED <<db, docker>>,
         todo' = todo \/ Benign(todo') \/ \E d \in Deployments : todo' = DeleteSteps(d)
  PROVE  Kept' /\ OwnershipStep
<1>1. StoreInv' /\ Grows /\ NoneComes
  BY SameStore DEF StoreSame, NoneComes, Present
<1>2. OwnershipStep  BY <1>1, Acquires
<1>3. db \in Tables /\ todo' \in Seq(Steps)  BY DEF Typed, TypeOK, OpOK
<1>4. CASE todo' = todo  BY <1>1, <1>2, <1>4, StayKept
<1>5. CASE Benign(todo')
  <2>1. Reachable'  BY <1>1, ReachableKept DEF Kept
  <2> QED  BY <1>1, <1>2, <1>3, <1>5, <2>1, BenignKept
<1>6. ASSUME NEW d \in Deployments, todo' = DeleteSteps(d)  PROVE Kept'
  BY <1>3, <1>6, DeleteKept
<1> QED  BY <1>2, <1>4, <1>5, <1>6

LEMMA ServiceKept ==
  ASSUME Typed, Typed', Kept, ServiceStep
  PROVE  Kept' /\ OwnershipStep
<1>1. OpOK /\ db \in Tables  BY DEF Typed, TypeOK
<1>2. CASE TakeEvent
  <2>1. /\ UNCHANGED <<db, docker>> /\ op = Idle /\ BeginEvent(Head(queue))
        /\ Head(queue) \in Events
    BY <1>2, HeadTailProperties DEF TakeEvent, storeVars, dockerVars, Typed, TypeOK
  <2>2. Benign(todo') \/ \E d \in Deployments : todo' = DeleteSteps(d)
    BY <1>1, <2>1, BeginEventFacts
  <2> QED  BY <2>1, <2>2, RestKept
<1>3. CASE NextPhase
  BY <1>3, RestKept DEF NextPhase, storeVars, dockerVars
<1>4. ASSUME NEW x \in batch, TakeLoaded(x)  PROVE Kept' /\ OwnershipStep
  <2>1. /\ UNCHANGED <<db, docker>> /\ op = Idle /\ x \in Objects
        /\ phase \in {"delete", "stop", "start"} => x \in Deployments
    BY <1>4 DEF TakeLoaded, storeVars, dockerVars, Typed, TypeOK, BatchOK
  <2>2. \/ x \in Deployments /\ (BeginDelete(x) \/ BeginStop(x) \/ BeginStart(x))
        \/ BeginPublish(x)
    BY <1>4, <2>1 DEF TakeLoaded
  <2>3. Benign(todo') \/ \E d \in Deployments : todo' = DeleteSteps(d)
    <3>1. CASE x \in Deployments /\ BeginDelete(x)
      BY <1>1, <2>1, <3>1, BeginDeleteFacts
    <3>2. CASE x \in Deployments /\ BeginStop(x)
      BY <1>1, <2>1, <3>2, BeginStopFacts
    <3>3. CASE x \in Deployments /\ BeginStart(x)
      BY <1>1, <2>1, <3>3, BeginStartFacts
    <3>4. CASE BeginPublish(x)  BY <1>1, <2>1, <3>4, BeginPublishFacts
    <3> QED  BY <2>2, <3>1, <3>2, <3>3, <3>4
  <2> QED  BY <2>1, <2>3, RestKept
<1>5. CASE Publish \/ Created \/ Started \/ Stopped  BY <1>5, StatusKept
<1>6. CASE Fetch
  BY <1>6, SameStore, QuietKept DEF Fetch, storeVars, dockerVars
<1>7. CASE Up  BY <1>7, UpKept
<1>8. CASE StopLook \/ RestartLook  BY <1>8, LookStopKept
<1>9. CASE Down  BY <1>9, DownKept
<1>10. CASE Create  BY <1>10, CreateStepKept
<1>11. CASE Start  BY <1>11, StartKept
<1>12. CASE Halt  BY <1>12, HaltKept
<1>13. CASE RemoveObject  BY <1>13, RemoveKept
<1>14. CASE Unset
  BY <1>14, SameStore, QuietKept DEF Unset, storeVars, dockerVars
<1>15. CASE Drop  BY <1>15, DropStepKept
<1>16. CASE Report
  BY <1>16, SameStore, QuietKept DEF Report, storeVars, dockerVars
<1>17. CASE Finish
  BY <1>17, RestKept DEF Finish, storeVars, dockerVars
<1> QED
  BY <1>2, <1>3, <1>4, <1>5, <1>6, <1>7, <1>8, <1>9, <1>10, <1>11, <1>12, <1>13,
     <1>14, <1>15, <1>16, <1>17 DEF ServiceStep

(* A request is stored, or not.                                            *)
LEMMA RequestKept ==
  ASSUME Typed, Kept, StoreInv', Grows, UNCHANGED <<todo, docker>>
  PROVE  Kept' /\ OwnershipStep
<1>1. NoneComes  BY DEF NoneComes, Present
<1> QED  BY <1>1, StayKept, Acquires

LEMMA PersistKept ==
  ASSUME Typed, Kept, NEW e, NEW possible, NEW tables, Persist(e, possible, tables),
         db' = tables => StoreInv' /\ Grows
  PROVE  Kept' /\ OwnershipStep
<1>1. StoreInv' /\ Grows
  <2>1. CASE db' = tables  BY <2>1
  <2>2. CASE UNCHANGED db  BY <2>2, SameStore DEF StoreSame
  <2> QED  BY <2>1, <2>2 DEF Persist
<1> QED  BY <1>1, RequestKept DEF Persist, serviceVars, dockerVars

-----------------------------------------------------------------------------
(* The theorems.                                                           *)

LEMMA InitKept ==
  ASSUME Init
  PROVE  Kept /\ O!OwnershipInit
<1>1. /\ \A d \in Deployments : db.rows[d] = {} /\ db.lacks[d] = {}
      /\ \A c \in Containers :
           /\ db.cont[c] = IF c \in Known THEN "Published" ELSE "none"
           /\ db.links[c] = IF c \in Known THEN Needs[c] \cap Known ELSE {}
           /\ db.missing[c] = IF c \in Known THEN Needs[c] \ Known ELSE {}
  BY DEF Init, NoRows
<1>2. RowsOK  BY <1>1 DEF RowsOK
<1>3. LinksOK
  <2> SUFFICES ASSUME NEW c \in Containers
               PROVE  /\ db.links[c] \subseteq Needs[c] /\ db.missing[c] \subseteq Needs[c]
                      /\ db.cont[c] = "none" => db.links[c] = {} /\ db.missing[c] = {}
    BY DEF LinksOK, IsStored
  <2> QED  BY <1>1
<1>4. /\ todo = <<>> /\ Members(todo) = {} /\ DOMAIN todo = {}
      /\ docker = [c \in Containers |-> "absent"]
  BY DEF Init, Members
<1>5. Reachable /\ Deletes  BY <1>4 DEF Reachable, Deletes, Present
<1>6. Brings /\ OneWay /\ GoesLast(todo)  BY <1>4 DEF Brings, OneWay, GoesLast
<1>7. \A d \in Deployments : Joined(d) = {}  BY <1>1 DEF Joined
<1>8. Owners = [c \in Containers |-> {}]  BY <1>7 DEF Owners
<1> QED  BY <1>2, <1>3, <1>4, <1>5, <1>6, <1>8 DEF Kept, StoreInv, O!OwnershipInit

LEMMA NextKept ==
  ASSUME Typed, Typed', Kept, [Next]_vars
  PROVE  Kept' /\ OwnershipStep
<1>1. db \in Tables /\ StoreInv  BY DEF Typed, TypeOK, Kept
<1>2. ASSUME NEW x \in Objects, ReceiveCreation(x)  PROVE Kept' /\ OwnershipStep
  <2> DEFINE tables == IF x \in Resources THEN CreateResource(x)
                       ELSE IF x \in Containers THEN CreateContainer(x)
                       ELSE CreateDeployment(x)
  <2>1. Persist(Event("publish", x), TRUE, tables)  BY <1>2 DEF ReceiveCreation
  <2>2. db' = tables => StoreInv' /\ Grows
    <3>1. CASE x \in Resources  BY <1>1, <3>1, CreateResourceKeeps
    <3>2. CASE x \notin Resources /\ x \in Containers
      BY <1>1, <3>2, CreateContainerKeeps
    <3>3. CASE x \notin Resources /\ x \notin Containers
      <4>1. x \in Deployments  BY <3>3 DEF Objects
      <4> QED  BY <1>1, <3>3, <4>1, CreateDeploymentKeeps
    <3> QED  BY <3>1, <3>2, <3>3
  <2> HIDE DEF tables
  <2> QED  BY <2>1, <2>2, PersistKept
<1>3. ASSUME NEW kind, NEW d \in Deployments, ReceiveCommand(kind, d)
      PROVE  Kept' /\ OwnershipStep
  <2>1. db' = SetDeployment(d, CommandStatus[kind]) => StoreInv' /\ Grows
    BY <1>1, SetDeploymentKeeps
  <2> QED  BY <1>3, <2>1, PersistKept DEF ReceiveCommand
<1>4. ASSUME NEW from, NEW to, ReceiveUpdate(from, to)
      PROVE  Kept' /\ OwnershipStep
  <2>1. db' = UpdateDeployments(from, to) => StoreInv' /\ Grows
    BY <1>1, UpdateDeploymentsKeeps
  <2> QED  BY <1>4, <2>1, PersistKept DEF ReceiveUpdate
<1>5. CASE SendEvent
  BY <1>5, RestKept DEF SendEvent, storeVars, serviceVars, dockerVars
<1>6. CASE ServiceStep  BY <1>6, ServiceKept
<1>7. CASE CallFails
  <2>1. Fail /\ UNCHANGED <<db, docker>>
    BY <1>7 DEF CallFails, storeVars, dockerVars
  <2>2. Benign(todo')  BY <2>1, FailFacts DEF Typed
  <2> QED  BY <2>1, <2>2, RestKept
<1>8. ASSUME NEW c \in Containers, ChangeOutside(c)  PROVE Kept' /\ OwnershipStep
  <2>1. UNCHANGED <<db, todo>> /\ docker \in [Containers -> DockerStates]
    BY <1>8 DEF ChangeOutside, storeVars, serviceVars, Typed, TypeOK
  <2>2. StoreInv' /\ Grows /\ Shrinks  BY <2>1, SameStore DEF StoreSame
  <2>3. \/ docker[c] = "running" /\ docker' = [docker EXCEPT ![c] = "exited"]
        \/ docker[c] # "absent" /\ docker' = [docker EXCEPT ![c] = "absent"]
    BY <1>8 DEF ChangeOutside
  <2>4. NoneComes  BY <2>1, <2>3 DEF NoneComes, Present
  <2>5. Kept'  BY <2>1, <2>2, <2>4, StayKept
  <2>6. OwnershipStep  BY <2>1, <2>2, <2>3, Works
  <2> QED  BY <2>5, <2>6
<1>9. ASSUME NEW c \in Containers, Listen(c)  PROVE Kept' /\ OwnershipStep
  BY <1>9, RestKept DEF Listen, storeVars, serviceVars, dockerVars
<1>10. CASE Crash \/ Disconnected
  <2>1. UNCHANGED <<db, docker>> /\ todo' = <<>>
    BY <1>10 DEF Crash, Disconnected, Restart, storeVars, dockerVars
  <2>2. Benign(todo')  BY <2>1, NoSteps DEF Benign
  <2> QED  BY <2>1, <2>2, RestKept
<1>11. CASE UNCHANGED vars
  BY <1>11, RestKept DEF vars, storeVars, serviceVars, dockerVars
<1> QED
  BY <1>2, <1>3, <1>4, <1>5, <1>6, <1>7, <1>8, <1>9, <1>10, <1>11 DEF Next, Rest

(* The steps of delete_deployment and what they find in the store agree,   *)
(* whatever requests come, calls fail and crashes happen in between: at    *)
(* any time what is in Docker has an owner, and a pending deletion removes *)
(* a container before it deletes the last row that leads to it.            *)
THEOREM OwnershipKept == Spec => []Kept
<1>1. Init => Kept  BY InitKept
<1>2. Typed /\ Typed' /\ Kept /\ [Next]_vars => Kept'  BY NextKept
<1> QED  BY <1>1, <1>2, Wellformed, PTL DEF Spec

(* Deployments implements Ownership: a container is created only for a     *)
(* deployment of the store, and no row that leads to it goes while it is   *)
(* in Docker (find_deployment_for_delete, delete_deployment).              *)
THEOREM OwnershipImplemented == Spec => ImplementsOwnership
<1>1. Init => O!OwnershipInit  BY InitKept
<1>2. Typed /\ Typed' /\ Kept /\ [Next]_vars => [O!OwnershipNext]_(O!ownershipVars)
  BY NextKept DEF OwnershipStep
<1> QED
  BY <1>1, <1>2, Wellformed, OwnershipKept, PTL
     DEF Spec, ImplementsOwnership, O!OwnershipSpec

=============================================================================
