--------------------------- MODULE PropertyProofs ---------------------------
(***************************************************************************)
(* Proofs about the properties that Deployments sends to Astarte, for      *)
(* every value of the constants: when the service has nothing left to do   *)
(* and nothing failed, the property of a container says whether it runs.   *)
(***************************************************************************)
EXTENDS ServiceProofs

-----------------------------------------------------------------------------
(* Which steps about a container follow which.                             *)

(* The step that comes right before.                                       *)
Prior == [created |-> "create", started |-> "start", stopped |-> "halt",
          remove |-> "halt", unset |-> "remove"]
(* The steps that may come right after.                                    *)
After == [publish |-> {"fetch"}, start |-> {"started"}, halt |-> {"stopped", "remove"},
          remove |-> {"unset"}]

Bound(s) == s.x \in Containers /\ s.do \in DOMAIN Prior
Open(s)  == s.x \in Containers /\ s.do \in DOMAIN After

Follows(s, t) ==
    /\ Bound(t) => s.do = Prior[t.do] /\ s.x = t.x
    /\ Open(s) => t.do \in After[s.do] /\ t.x = s.x

Pairs(q)  == \A n \in 1..Len(q) - 1 : Follows(q[n], q[n + 1])
Closed(q) == q # <<>> => ~ Open(q[Len(q)])
Linked(q) == Pairs(q) /\ Closed(q)

(* Neither: it may stand anywhere.                                         *)
Free(s) == ~ Bound(s) /\ ~ Open(s)

LEMMA FreeFacts ==
  ASSUME NEW s
  PROVE  /\ s.x \notin Containers => Free(s)
         /\ s.do \in {"up", "stop", "restart", "down", "drop", "fetch", "create",
                      "reportStarted", "reportStopped"} => Free(s)
         /\ s.do \in {"created", "started", "stopped", "unset"} => ~ Open(s)
         /\ s.do \in {"publish", "start", "halt"} => ~ Bound(s)
BY DEF Free, Bound, Open, Prior, After

LEMMA FreePair ==
  ASSUME NEW s, NEW t, ~ Open(s), ~ Bound(t)
  PROVE  Follows(s, t)
BY DEF Follows

LEMMA NoneLinked == Linked(<<>>)
<1>1. Len(<<>>) = 0  OBVIOUS
<1>2. 1..Len(<<>>) - 1 = {}  BY <1>1
<1> QED  BY <1>2 DEF Linked, Pairs, Closed

LEMMA OneLinked ==
  ASSUME NEW s \in Steps, ~ Open(s)
  PROVE  Linked(<<s>>)
<1> DEFINE q == <<s>>
<1>1. Len(q) = 1 /\ q[1] = s  OBVIOUS
<1> HIDE DEF q
<1>2. 1..Len(q) - 1 = {} /\ q[Len(q)] = s  BY <1>1
<1>3. Linked(q)  BY <1>2 DEF Linked, Pairs, Closed
<1> QED  BY <1>3 DEF q

LEMMA TwoLinked ==
  ASSUME NEW s \in Steps, NEW t \in Steps, Follows(s, t)
  PROVE  /\ Pairs(<<s, t>>)
         /\ ~ Open(t) => Linked(<<s, t>>)
<1> DEFINE q == <<s, t>>
<1>1. Len(q) = 2 /\ q[1] = s /\ q[2] = t  OBVIOUS
<1> HIDE DEF q
<1>2. 1..Len(q) - 1 = {1} /\ q[Len(q)] = t  BY <1>1
<1>3. Pairs(q) /\ (~ Open(t) => Closed(q))  BY <1>1, <1>2 DEF Pairs, Closed
<1> QED  BY <1>3 DEF q, Linked

LEMMA FreeLinked ==
  ASSUME NEW q \in Seq(Steps), \A s \in Members(q) : Free(s)
  PROVE  Linked(q)
<1>1. DOMAIN q = 1..Len(q) /\ Len(q) \in Nat /\ \A n \in DOMAIN q : Free(q[n])
  BY MemberAt
<1>2. ASSUME NEW n \in 1..Len(q) - 1  PROVE Follows(q[n], q[n + 1])
  <2>1. n \in DOMAIN q /\ n + 1 \in DOMAIN q  BY <1>1
  <2> QED  BY <1>1, <2>1, FreePair DEF Free
<1>3. ASSUME q # <<>>  PROVE ~ Open(q[Len(q)])
  <2>1. Len(q) # 0  BY <1>3, EmptySeq
  <2>2. Len(q) \in DOMAIN q  BY <1>1, <2>1
  <2> QED  BY <1>1, <2>2 DEF Free
<1> QED  BY <1>2, <1>3 DEF Linked, Pairs, Closed

LEMMA ConcatLinked ==
  ASSUME NEW p \in Seq(Steps), NEW q \in Seq(Steps), Pairs(p), Linked(q),
         p # <<>> /\ q # <<>> => Follows(p[Len(p)], q[1]),
         q = <<>> => Closed(p)
  PROVE  Linked(p \o q)
<1> DEFINE r == p \o q
<1>1. /\ Len(r) = Len(p) + Len(q)
      /\ \A n \in 1..Len(p) + Len(q) : r[n] = IF n <= Len(p) THEN p[n] ELSE q[n - Len(p)]
  BY ConcatProperties
<1>2. Len(p) \in Nat /\ Len(q) \in Nat /\ (p = <<>> <=> Len(p) = 0) /\ (q = <<>> <=> Len(q) = 0)
  BY LenProperties, EmptySeq
<1> HIDE DEF r
<1>3. ASSUME NEW n \in 1..Len(r) - 1  PROVE Follows(r[n], r[n + 1])
  <2>1. CASE n + 1 <= Len(p)
    <3>1. n \in 1..Len(p) - 1 /\ r[n] = p[n] /\ r[n + 1] = p[n + 1]
      BY <1>1, <1>2, <1>3, <2>1
    <3> QED  BY <3>1 DEF Pairs
  <2>2. CASE n = Len(p)
    <3>1. p # <<>> /\ q # <<>> /\ r[n] = p[Len(p)] /\ r[n + 1] = q[1]
      BY <1>1, <1>2, <1>3, <2>2
    <3> QED  BY <3>1
  <2>3. CASE n > Len(p)
    <3>1. /\ n - Len(p) \in 1..Len(q) - 1 /\ r[n] = q[n - Len(p)]
          /\ r[n + 1] = q[(n - Len(p)) + 1]
      BY <1>1, <1>2, <1>3, <2>3
    <3> QED  BY <3>1 DEF Linked, Pairs
  <2> QED  BY <1>1, <1>2, <1>3, <2>1, <2>2, <2>3
<1>4. Closed(r)
  <2>1. CASE q = <<>>
    <3>1. Len(r) = Len(p) /\ (Len(p) # 0 => r[Len(r)] = p[Len(p)])
      BY <1>1, <1>2, <2>1
    <3>2. r # <<>> => Len(p) # 0
      <4>1. r \in Seq(Steps)  BY ConcatMembers DEF r
      <4> QED  BY <3>1, <4>1, EmptySeq
    <3> QED  BY <1>2, <2>1, <3>1, <3>2 DEF Closed
  <2>2. CASE q # <<>>
    <3>1. r[Len(r)] = q[Len(q)]  BY <1>1, <1>2, <2>2
    <3> QED  BY <2>2, <3>1 DEF Closed, Linked
  <2> QED  BY <2>1, <2>2
<1> QED  BY <1>3, <1>4 DEF Linked, Pairs, r

LEMMA TailLinked ==
  ASSUME NEW q \in Seq(Steps), q # <<>>, Linked(q)
  PROVE  /\ Linked(Tail(q))
         /\ Open(Head(q)) => Tail(q) # <<>>
         /\ Tail(q) # <<>> => Follows(Head(q), Tail(q)[1])
<1>1. /\ DOMAIN q = 1..Len(q) /\ Len(q) \in Nat /\ Len(q) # 0
      /\ Head(q) = q[1] /\ Tail(q) \in Seq(Steps)
      /\ Len(Tail(q)) = Len(q) - 1
      /\ \A k \in 1..Len(q) - 1 : Tail(q)[k] = q[k + 1]
      /\ Tail(q) = <<>> <=> Len(Tail(q)) = 0
  <2>1. /\ Head(q) = q[1] /\ Tail(q) \in Seq(Steps) /\ Len(Tail(q)) = Len(q) - 1
        /\ \A k \in 1..Len(q) - 1 : Tail(q)[k] = q[k + 1]
    BY HeadTailProperties
  <2>2. DOMAIN q = 1..Len(q) /\ Len(q) \in Nat /\ Len(q) # 0
    BY LenProperties, EmptySeq
  <2>3. Tail(q) = <<>> <=> Len(Tail(q)) = 0
    BY <2>1, EmptySeq
  <2> QED  BY <2>1, <2>2, <2>3
<1>2. ASSUME NEW n \in 1..Len(Tail(q)) - 1  PROVE Follows(Tail(q)[n], Tail(q)[n + 1])
  <2>1. /\ n + 1 \in 1..Len(q) - 1
        /\ Tail(q)[n] = q[n + 1] /\ Tail(q)[n + 1] = q[(n + 1) + 1]
    BY <1>1, <1>2
  <2> QED  BY <2>1 DEF Linked, Pairs
<1>3. ASSUME Tail(q) # <<>>
      PROVE  ~ Open(Tail(q)[Len(Tail(q))]) /\ Follows(Head(q), Tail(q)[1])
  <2>1. Tail(q)[Len(Tail(q))] = q[Len(q)] /\ Tail(q)[1] = q[1 + 1] /\ 1 \in 1..Len(q) - 1
    BY <1>1, <1>3
  <2> QED  BY <1>1, <2>1 DEF Linked, Closed, Pairs
<1>4. ASSUME Tail(q) = <<>>  PROVE ~ Open(Head(q))
  <2>1. Len(q) = 1  BY <1>1, <1>4
  <2> QED  BY <1>1, <2>1 DEF Linked, Closed
<1> QED  BY <1>2, <1>3, <1>4 DEF Linked, Pairs, Closed

LEMMA OneAndOne ==
  ASSUME NEW s \in Steps, NEW t \in Steps
  PROVE  <<s>> \o <<t>> = <<s, t>>
<1> DEFINE p == <<s>>
           q == <<t>>
           r == <<s, t>>
<1>1. /\ p \in Seq(Steps) /\ Len(p) = 1 /\ p[1] = s
      /\ q \in Seq(Steps) /\ Len(q) = 1 /\ q[1] = t
      /\ r \in Seq(Steps) /\ Len(r) = 2 /\ r[1] = s /\ r[2] = t
  OBVIOUS
<1> HIDE DEF p, q, r
<1>2. /\ p \o q \in Seq(Steps) /\ Len(p \o q) = 2
      /\ \A i \in 1..2 : (p \o q)[i] = IF i <= 1 THEN p[i] ELSE q[i - 1]
  <2>1. /\ Len(p \o q) = Len(p) + Len(q)
        /\ \A i \in 1..Len(p) + Len(q) :
             (p \o q)[i] = IF i <= Len(p) THEN p[i] ELSE q[i - Len(p)]
    BY <1>1, ConcatProperties
  <2>2. p \o q \in Seq(Steps)  BY <1>1, ConcatProperties
  <2>3. Len(p) + Len(q) = 2  BY <1>1
  <2> QED  BY <1>1, <2>1, <2>2, <2>3
<1>3. \A i \in 1..2 : (p \o q)[i] = r[i]  BY <1>1, <1>2
<1>4. p \o q = r  BY <1>1, <1>2, <1>3, SeqEqual
<1> QED  BY <1>4 DEF p, q, r

(* The steps that looking at what is there adds.                           *)
LEMMA LookLinked ==
  ASSUME Subject \in Objects
  PROVE  /\ Linked(UpSteps) /\ Linked(StopSteps) /\ Linked(RestartSteps) /\ Linked(DownSteps)
         /\ UpSteps # <<>> => ~ Bound(UpSteps[1])
         /\ StopSteps # <<>> => ~ Bound(StopSteps[1])
         /\ RestartSteps # <<>> => ~ Bound(RestartSteps[1])
         /\ DownSteps # <<>> /\ Bound(DownSteps[1]) =>
              ~ Exists(Subject) /\ DownSteps[1] = Step("unset", Subject)
<1>1. ASSUME NEW do \in Dos, NEW then \in Dos,
             Follows(Step(do, Subject), Step(then, Subject))
      PROVE  LET q == <<Step(do, Subject), Step(then, Subject)>> IN
             q \in Seq(Steps) /\ Pairs(q) /\ (~ Open(Step(then, Subject)) => Linked(q))
  <2>1. Step(do, Subject) \in Steps /\ Step(then, Subject) \in Steps  BY StepType
  <2> QED  BY <1>1, <2>1, TwoLinked, TwoSteps
<1>2. /\ \A do \in {"create", "start", "halt", "remove", "unset", "drop"} :
           Step(do, Subject).do = do /\ Step(do, Subject).x = Subject
  BY DEF Step
<1> DEFINE create == <<Step("create", Subject), Step("created", Subject)>>
           start  == <<Step("start", Subject), Step("started", Subject)>>
           halt   == <<Step("halt", Subject), Step("stopped", Subject)>>
           remove == <<Step("halt", Subject), Step("remove", Subject)>>
           unset  == <<Step("unset", Subject), Step("drop", Subject)>>
           only   == <<Step("remove", Subject)>>
<1>3. create \in Seq(Steps) /\ Linked(create)
  <2>1. Follows(Step("create", Subject), Step("created", Subject)) /\ ~ Open(Step("created", Subject))
    BY DEF Follows, Bound, Open, Step, Prior, After
  <2>2. "create" \in Dos /\ "created" \in Dos  BY DEF Dos
  <2> QED  BY <1>1, <2>1, <2>2
<1>4. start \in Seq(Steps) /\ Linked(start)
  <2>1. Follows(Step("start", Subject), Step("started", Subject)) /\ ~ Open(Step("started", Subject))
    BY DEF Follows, Bound, Open, Step, Prior, After
  <2>2. "start" \in Dos /\ "started" \in Dos  BY DEF Dos
  <2> QED  BY <1>1, <2>1, <2>2
<1>5. halt \in Seq(Steps) /\ Linked(halt)
  <2>1. Follows(Step("halt", Subject), Step("stopped", Subject)) /\ ~ Open(Step("stopped", Subject))
    BY DEF Follows, Bound, Open, Step, Prior, After
  <2>2. "halt" \in Dos /\ "stopped" \in Dos  BY DEF Dos
  <2> QED  BY <1>1, <2>1, <2>2
<1>6. remove \in Seq(Steps) /\ Pairs(remove)
  <2>1. Follows(Step("halt", Subject), Step("remove", Subject))
    BY DEF Follows, Bound, Open, Step, Prior, After
  <2>2. "halt" \in Dos /\ "remove" \in Dos  BY DEF Dos
  <2> QED  BY <1>1, <2>1, <2>2
<1>7. unset \in Seq(Steps) /\ Linked(unset)
  <2>1. Step("unset", Subject) \in Steps /\ Step("drop", Subject) \in Steps
    BY StepType DEF Dos
  <2>2. ~ Open(Step("unset", Subject)) /\ Free(Step("drop", Subject))
    BY FreeFacts DEF Step
  <2>3. Follows(Step("unset", Subject), Step("drop", Subject)) /\ ~ Open(Step("drop", Subject))
    BY <2>2, FreePair DEF Free
  <2> QED  BY <2>1, <2>3, TwoLinked, TwoSteps
<1>8. only \in Seq(Steps) /\ Pairs(only)
  <2>1. Step("remove", Subject) \in Steps  BY StepType DEF Dos
  <2>2. only \in Seq(Steps) /\ Len(only) = 1  BY <2>1, OneStep
  <2> HIDE DEF only
  <2>3. 1..Len(only) - 1 = {}  BY <2>2
  <2> QED  BY <2>2, <2>3 DEF Pairs
<1>9. Linked(<<>>) /\ <<>> \in Seq(Steps)  BY NoneLinked, NoSteps
<1>10. /\ create[1] = Step("create", Subject) /\ Len(create) = 2
       /\ start[1] = Step("start", Subject) /\ Len(start) = 2
       /\ halt[1] = Step("halt", Subject) /\ Len(halt) = 2
       /\ unset[1] = Step("unset", Subject) /\ Len(unset) = 2
       /\ remove[1] = Step("halt", Subject) /\ Len(remove) = 2
       /\ remove[2] = Step("remove", Subject) /\ create[2] = Step("created", Subject)
       /\ only[1] = Step("remove", Subject) /\ Len(only) = 1
       /\ create # <<>> /\ start # <<>> /\ unset # <<>>
  OBVIOUS
<1>11. /\ ~ Bound(Step("create", Subject)) /\ ~ Bound(Step("start", Subject))
       /\ ~ Bound(Step("halt", Subject)) /\ ~ Open(Step("created", Subject))
  BY DEF Bound, Open, Step, Prior, After
<1>12. Follows(Step("remove", Subject), Step("unset", Subject))
  BY DEF Follows, Bound, Open, Step, Prior, After
<1>13. StopSteps \in {halt, <<>>} /\ RestartSteps \in {start, <<>>}
  BY DEF StopSteps, RestartSteps, Steps2
<1>14. UpSteps \in {create \o start, create \o <<>>, <<>> \o start, <<>> \o <<>>}
  BY DEF UpSteps, Steps2
<1>15. \/ ~ Exists(Subject) /\ DownSteps = <<>> \o unset
       \/ Exists(Subject) /\ Subject \in Containers
            /\ DownSteps = (<<Step("halt", Subject)>> \o only) \o unset
       \/ Exists(Subject) /\ Subject \notin Containers /\ DownSteps = (<<>> \o only) \o unset
  BY DEF DownSteps, Steps2
<1>16. /\ \A q \in Seq(Steps) : <<>> \o q = q /\ q \o <<>> = q
       /\ <<Step("halt", Subject)>> \o only = remove
  <2>1. \A q \in Seq(Steps) : <<>> \o q = q /\ q \o <<>> = q  BY ConcatEmptySeq
  <2>2. <<Step("halt", Subject)>> \o only = remove
    <3>1. Step("halt", Subject) \in Steps /\ Step("remove", Subject) \in Steps
      BY StepType DEF Dos
    <3> QED  BY <3>1, OneAndOne
  <2> QED  BY <2>1, <2>2
<1> HIDE DEF create, start, halt, remove, unset, only
<1>17. Linked(create \o start) /\ (create \o start)[1] = create[1]
  <2>1. Follows(create[Len(create)], start[1])  BY <1>10, <1>11, FreePair
  <2>2. Linked(create \o start)
    BY <1>3, <1>4, <1>10, <2>1, ConcatLinked DEF Linked
  <2>3. (create \o start)[1] = create[1]  BY <1>3, <1>4, <1>10, ConcatProperties
  <2> QED  BY <2>2, <2>3
<1>18. Linked(remove \o unset) /\ (remove \o unset)[1] = Step("halt", Subject)
  <2>1. Linked(remove \o unset)
    BY <1>6, <1>7, <1>10, <1>12, ConcatLinked
  <2>2. (remove \o unset)[1] = remove[1]  BY <1>6, <1>7, <1>10, ConcatProperties
  <2> QED  BY <1>10, <2>1, <2>2
<1>19. Linked(only \o unset) /\ (only \o unset)[1] = Step("remove", Subject)
  <2>1. Linked(only \o unset)
    BY <1>7, <1>8, <1>10, <1>12, ConcatLinked
  <2>2. (only \o unset)[1] = only[1]  BY <1>7, <1>8, <1>10, ConcatProperties
  <2> QED  BY <1>10, <2>1, <2>2
<1>20. Linked(UpSteps) /\ (UpSteps # <<>> => ~ Bound(UpSteps[1]))
  <2>1. UpSteps \in {create \o start, create, start, <<>>}
    BY <1>3, <1>4, <1>9, <1>14, <1>16
  <2> QED  BY <1>3, <1>4, <1>9, <1>10, <1>11, <1>17, <2>1
<1>21. /\ Linked(StopSteps) /\ (StopSteps # <<>> => ~ Bound(StopSteps[1]))
       /\ Linked(RestartSteps) /\ (RestartSteps # <<>> => ~ Bound(RestartSteps[1]))
  BY <1>4, <1>5, <1>9, <1>10, <1>11, <1>13
<1>22. /\ Linked(DownSteps)
       /\ DownSteps # <<>> /\ Bound(DownSteps[1]) =>
            ~ Exists(Subject) /\ DownSteps[1] = Step("unset", Subject)
  <2>1. CASE ~ Exists(Subject) /\ DownSteps = <<>> \o unset
    BY <1>7, <1>10, <1>16, <2>1
  <2>2. CASE Subject \in Containers /\ DownSteps = (<<Step("halt", Subject)>> \o only) \o unset
    BY <1>11, <1>16, <1>18, <2>2
  <2>3. CASE Subject \notin Containers /\ DownSteps = (<<>> \o only) \o unset
    <3>1. DownSteps = only \o unset  BY <1>8, <1>16, <2>3
    <3>2. ~ Bound(Step("remove", Subject))  BY <2>3 DEF Bound, Step
    <3> QED  BY <1>19, <3>1, <3>2
  <2> QED  BY <1>15, <2>1, <2>2, <2>3
<1> QED  BY <1>20, <1>21, <1>22

(* What is left to do stays in order.                                      *)
LEMMA GoesOnLinked ==
  ASSUME OpOK, todo # <<>>, Linked(todo), NEW s \in Seq(Steps), Continue(s), Linked(s),
         s # <<>> => Head(todo).do \in {"up", "stop", "restart", "down"}
  PROVE  /\ Linked(todo')
         /\ s = <<>> => /\ todo' # <<>> => Follows(Head(todo), Head(todo'))
                        /\ Open(Head(todo)) => todo' # <<>>
         /\ s # <<>> => todo' # <<>> /\ Head(todo') = s[1]
<1>1. todo \in Seq(Steps) /\ todo' = s \o Tail(todo)  BY GoesOn DEF OpOK
<1>2. /\ Tail(todo) \in Seq(Steps) /\ Linked(Tail(todo))
      /\ Open(Head(todo)) => Tail(todo) # <<>>
      /\ Tail(todo) # <<>> => Follows(Head(todo), Tail(todo)[1])
  BY <1>1, TailLinked, TailMembers
<1>3. CASE s = <<>>
  <2>1. todo' = Tail(todo)  BY <1>1, <1>2, <1>3, ConcatEmptySeq
  <2>2. todo' # <<>> => Head(todo') = todo'[1]  OBVIOUS
  <2> QED  BY <1>2, <1>3, <2>1, <2>2
<1>4. CASE s # <<>>
  <2>1. Tail(todo) # <<>> => ~ Bound(Tail(todo)[1])
    <3> SUFFICES ASSUME Tail(todo) # <<>>, Bound(Tail(todo)[1])  PROVE FALSE
      OBVIOUS
    <3>1. Head(todo).do = Prior[Tail(todo)[1].do] /\ Tail(todo)[1].do \in DOMAIN Prior
      BY <1>2 DEF Follows, Bound
    <3>2. Head(todo).do \in {"create", "start", "halt", "remove"}
      BY <3>1 DEF Prior
    <3> QED  BY <1>4, <3>2
  <2>2. ~ Open(s[Len(s)])  BY <1>4 DEF Linked, Closed
  <2>3. Linked(todo')
    BY <1>1, <1>2, <2>1, <2>2, FreePair, ConcatLinked DEF Linked
  <2>4. Len(s) \in Nat \ {0}  BY <1>4, EmptySeq
  <2>5. /\ Len(todo') = Len(s) + Len(Tail(todo)) /\ Len(Tail(todo)) \in Nat
        /\ todo'[1] = s[1] /\ todo' \in Seq(Steps)
    <3>1. Len(Tail(todo)) \in Nat  BY <1>2, LenProperties
    <3> QED  BY <1>1, <1>2, <2>4, <3>1, ConcatProperties
  <2>6. todo' # <<>>  BY <2>4, <2>5, EmptySeq
  <2>7. Head(todo') = todo'[1]  BY <2>6
  <2> QED  BY <1>4, <2>3, <2>5, <2>6, <2>7
<1> QED  BY <1>3, <1>4

(* Only the deployments report.                                            *)
Reports(q) ==
    \A s \in Members(q) :
      s.do \in {"reportStarted", "reportStopped"} => s.x \notin Containers

(* The steps that are added to what is left to do: none, or those that go  *)
(* on from something that was found.                                       *)
Looked(s) ==
    /\ Found(Subject) /\ UNCHANGED <<db, docker>>
    /\ Head(todo).do \in {"up", "stop", "restart", "down"}
    /\ s # <<>> /\ Bound(s[1]) =>
         ~ Exists(Subject) /\ s[1] = Step("unset", Subject)
Links(s) == Linked(s) /\ Reports(s) /\ (s = <<>> \/ Looked(s))

LEMMA LookLinks ==
  ASSUME Subject \in Objects
  PROVE  /\ Reports(UpSteps) /\ Reports(StopSteps) /\ Reports(RestartSteps)
         /\ Reports(DownSteps)
BY LookDos DEF Reports

LEMMA WorkLinks ==
  ASSUME OpOK, Fits, Subjects(todo), Work
  PROVE  \/ Fail
         \/ \E s \in Seq(Steps) :
              /\ Continue(s) /\ Adds(s, Subject) /\ Small(s) /\ Links(s)
<1>1. ASSUME NEW do, Doing(do)  PROVE todo # <<>> /\ Subject \in Objects
  BY <1>1, DoingFacts
<1>2. <<>> \in Seq(Steps) /\ Adds(<<>>, Subject) /\ Small(<<>>) /\ Links(<<>>)
  BY NoSteps, NoneLinked DEF Adds, Small, Subjects, Links, Reports
<1>3. ASSUME NEW do \in {"up", "stop", "restart", "down"}, NEW s, Look(do, s),
             Subject \in Objects =>
               /\ s \in Seq(Steps) /\ Adds(s, Subject) /\ Small(s) /\ Linked(s) /\ Reports(s)
               /\ s # <<>> /\ Bound(s[1]) => ~ Exists(Subject) /\ s[1] = Step("unset", Subject)
      PROVE  \/ Fail
             \/ \E t \in Seq(Steps) :
                  Continue(t) /\ Adds(t, Subject) /\ Small(t) /\ Links(t)
  <2>1. Doing(do) /\ Subject \in Objects  BY <1>1, <1>3 DEF Look
  <2>2. CASE ~ Found(Subject)  BY <1>3, <2>2 DEF Look
  <2>3. CASE Found(Subject)
    <3>1. Continue(s) /\ UNCHANGED <<db, docker>>
      BY <1>3, <2>3 DEF Look, storeVars, dockerVars
    <3>2. Looked(s)  BY <1>3, <2>1, <2>3, <3>1 DEF Looked, Doing
    <3> QED  BY <1>3, <2>1, <3>1, <3>2 DEF Links
  <2> QED  BY <2>2, <2>3
<1>4. CASE Up
  <2>1. Look("up", UpSteps)  BY <1>4 DEF Up, UpSteps
  <2>2. Doing("up")  BY <2>1 DEF Look
  <2>3. Subject \in Resources \cup Containers
    BY <2>2, DoingFacts DEF Subjects, Subject
  <2>4. Subject \in Objects =>
          /\ UpSteps \in Seq(Steps) /\ Adds(UpSteps, Subject) /\ Small(UpSteps)
    BY <2>2, <2>3, LookDos, DoesFacts DEF Adds, Small
  <2> QED  BY <1>3, <2>1, <2>4, LookLinked, LookLinks
<1>5. CASE StopLook
  <2>1. Look("stop", StopSteps)  BY <1>5 DEF StopLook, StopSteps
  <2>2. Doing("stop")  BY <2>1 DEF Look
  <2>3. Subject \in Containers
    BY <2>2, DoingFacts DEF Subjects, ContainerDos, Subject
  <2>4. Subject \in Objects =>
          /\ StopSteps \in Seq(Steps) /\ Adds(StopSteps, Subject) /\ Small(StopSteps)
    <3>1. Subject \in Objects => Subjects(StopSteps)  BY <2>3, LookDos DEF Subjects
    <3> QED  BY <2>2, <3>1, LookDos, DoesFacts DEF Adds, Small
  <2> QED  BY <1>3, <2>1, <2>4, LookLinked, LookLinks
<1>6. CASE RestartLook
  <2>1. Look("restart", RestartSteps)  BY <1>6 DEF RestartLook, RestartSteps
  <2>2. Doing("restart")  BY <2>1 DEF Look
  <2>3. Subject \in Containers
    BY <2>2, DoingFacts DEF Subjects, ContainerDos, Subject
  <2>4. Subject \in Objects =>
          /\ RestartSteps \in Seq(Steps) /\ Adds(RestartSteps, Subject) /\ Small(RestartSteps)
    <3>1. Subject \in Objects => Subjects(RestartSteps)  BY <2>3, LookDos DEF Subjects
    <3> QED  BY <2>2, <3>1, LookDos, DoesFacts DEF Adds, Small
  <2> QED  BY <1>3, <2>1, <2>4, LookLinked, LookLinks
<1>7. CASE Down
  <2>1. Look("down", DownSteps)  BY <1>7 DEF Down, DownSteps
  <2>2. Doing("down")  BY <2>1 DEF Look
  <2>3. Subject \in Objects =>
          /\ DownSteps \in Seq(Steps) /\ Adds(DownSteps, Subject) /\ Small(DownSteps)
    BY <2>2, LookDos, DoesFacts DEF Adds, Small
  <2> QED  BY <1>3, <2>1, <2>3, LookLinked, LookLinks
<1>8. CASE Publish  BY <1>1, <1>2, <1>8 DEF Publish
<1>9. CASE Fetch  BY <1>1, <1>2, <1>9 DEF Fetch
<1>10. CASE Create  BY <1>1, <1>2, <1>10 DEF Create
<1>11. CASE Created  BY <1>1, <1>2, <1>11 DEF Created, Record
<1>12. CASE Start  BY <1>1, <1>2, <1>12 DEF Start, MarkMissing
<1>13. CASE Started  BY <1>1, <1>2, <1>13 DEF Started, Record
<1>14. CASE Halt  BY <1>1, <1>2, <1>14 DEF Halt, MarkMissing
<1>15. CASE Stopped  BY <1>1, <1>2, <1>15 DEF Stopped, Record
<1>16. CASE RemoveObject  BY <1>1, <1>2, <1>16 DEF RemoveObject
<1>17. CASE Unset  BY <1>1, <1>2, <1>17 DEF Unset
<1>18. CASE Drop  BY <1>1, <1>2, <1>18 DEF Drop
<1>19. CASE Report  BY <1>1, <1>2, <1>19 DEF Report
<1> QED
  BY <1>4, <1>5, <1>6, <1>7, <1>8, <1>9, <1>10, <1>11, <1>12, <1>13, <1>14, <1>15,
     <1>16, <1>17, <1>18, <1>19 DEF Work

(* Nothing begins in the middle.                                           *)
Fresh(q) ==
    /\ Linked(q) /\ Reports(q)
    /\ q # <<>> => ~ Bound(Head(q))
    /\ \A s \in Members(q) : s.do \notin {"create", "created", "start", "started"}

LEMMA AllFree ==
  ASSUME NEW q \in Seq(Steps), Reports(q),
         \A s \in Members(q) :
           \/ s.x \notin Containers /\ s.do \in {"unset", "drop"}
           \/ s.do \in {"up", "stop", "restart", "down", "reportStarted", "reportStopped"}
  PROVE  Fresh(q)
<1>1. \A s \in Members(q) : Free(s)  BY FreeFacts
<1>2. ASSUME q # <<>>  PROVE ~ Bound(Head(q))
  <2>1. Head(q) \in Members(q)  BY <1>2, TailMembers
  <2> QED  BY <1>1, <2>1 DEF Free
<1> QED  BY <1>1, <1>2, FreeLinked DEF Fresh

LEMMA NoneFresh == Fresh(<<>>)
BY NoneLinked, NoSteps DEF Fresh, Reports

LEMMA PublishFresh ==
  ASSUME NEW x \in Objects, BeginPublish(x)
  PROVE  Fresh(todo')
<1> DEFINE s == Step("publish", x)
           t == Step("fetch", x)
<1>1. s \in Steps /\ t \in Steps  BY StepType DEF Dos
<1>2. ~ Bound(s) /\ Free(t) /\ (x \notin Containers => Free(s))  BY FreeFacts DEF Step
<1>3. todo' = IF x \in Deployments THEN <<s>> \o <<>> ELSE <<s>> \o <<t>>
  BY DEF BeginPublish, Begin
<1>4. \A m \in Members(todo') : m = s \/ m = t  BY PublishBegins
<1>5. s.do = "publish" /\ t.do = "fetch" /\ s.x = x /\ t.x = x  BY DEF Step
<1> HIDE DEF s, t
<1>6. CASE x \in Deployments
  <2>1. todo' = <<s>>  BY <1>1, <1>3, <1>6, OneStep, ConcatEmptySeq
  <2>2. Linked(todo') /\ Head(todo') = s
    BY <1>1, <1>2, <1>6, <2>1, ObjectKinds, OneLinked DEF Free
  <2> QED  BY <1>2, <1>4, <1>5, <2>2 DEF Fresh, Reports
<1>7. CASE x \notin Deployments
  <2>1. todo' = <<s, t>>  BY <1>1, <1>3, <1>7, OneAndOne
  <2>2. Follows(s, t)
    <3>1. Open(s) => t.do \in After[s.do]  BY <1>5 DEF Open, After
    <3> QED  BY <1>2, <1>5, <3>1 DEF Follows, Free
  <2>3. Linked(todo') /\ Head(todo') = s
    BY <1>1, <1>2, <2>1, <2>2, TwoLinked DEF Free
  <2> QED  BY <1>2, <1>4, <1>5, <2>3 DEF Fresh, Reports
<1> QED  BY <1>6, <1>7

LEMMA BeginsFresh ==
  ASSUME OpOK, OpOK', op = Idle, db \in Tables, Begins
  PROVE  Fresh(todo')
<1>1. todo' \in Seq(Steps) /\ todo = <<>>  BY DEF OpOK
<1>2. ASSUME NEW D, NotFound(D)  PROVE Fresh(todo')
  BY <1>1, <1>2, NoneFresh DEF NotFound
<1>3. ASSUME NEW d \in Deployments  PROVE d \notin Containers
  BY ObjectKinds DEF Objects
<1>4. ASSUME NEW c \in Containers, BeginRefresh(c)  PROVE Fresh(todo')
  <2>1. Step("fetch", c) \in Steps  BY StepType DEF Dos, Objects
  <2>2. todo' = <<Step("fetch", c)>> /\ Members(todo') = {Step("fetch", c)}
    BY <1>4, RefreshBegins
  <2>3. Free(Step("fetch", c))  BY FreeFacts DEF Step
  <2>4. Linked(todo') /\ Head(todo') = Step("fetch", c)
    BY <2>1, <2>2, <2>3, OneLinked DEF Free
  <2> QED  BY <2>2, <2>3, <2>4 DEF Fresh, Reports, Free, Step
<1>5. ASSUME NEW d \in Deployments, BeginStart(d)  PROVE Fresh(todo')
  <2>1. CASE StartingSteps(todo', d)
    <3>1. Reports(todo')  BY <1>3, <2>1 DEF StartingSteps, Reports
    <3> QED  BY <1>1, <2>1, <3>1, AllFree DEF StartingSteps
  <2> QED  BY <1>2, <1>5, <2>1, StartBegins
<1>6. ASSUME NEW d \in Deployments, BeginStop(d)  PROVE Fresh(todo')
  <2>1. CASE StoppingSteps(todo', d, db.rows[d])
    <3>1. Reports(todo')  BY <1>3, <2>1 DEF StoppingSteps, Reports
    <3> QED  BY <1>1, <2>1, <3>1, AllFree DEF StoppingSteps
  <2> QED  BY <1>2, <1>6, <2>1, StopBegins
<1>7. ASSUME NEW d \in Deployments, BeginDelete(d)  PROVE Fresh(todo')
  <2>1. CASE \A s \in Members(todo') :
               s.do = "down" \/ s = Step("unset", d) \/ s = Step("drop", d)
    <3>1. \A s \in Members(todo') :
            s.do = "down" \/ (s.x \notin Containers /\ s.do \in {"unset", "drop"})
      BY <1>3, <2>1 DEF Step
    <3>2. Reports(todo')  BY <3>1 DEF Reports
    <3> QED  BY <1>1, <3>1, <3>2, AllFree
  <2> QED  BY <1>2, <1>7, <2>1, DeleteBegins
<1>8. ASSUME NEW from \in Deployments, NEW to \in Deployments, BeginUpdate(from, to)
      PROVE  Fresh(todo')
  <2>1. CASE \A s \in Members(todo') :
               \/ s.do = "stop"
               \/ s.do = "reportStopped" /\ s.x = from
               \/ s.do = "up"
               \/ s.do = "reportStarted" /\ s.x = to
    <3>1. Reports(todo')  BY <1>3, <2>1 DEF Reports
    <3> QED  BY <1>1, <2>1, <3>1, AllFree
  <2> QED  BY <1>2, <1>8, <2>1, UpdateBegins
<1> QED  BY <1>4, <1>5, <1>6, <1>7, <1>8, PublishFresh DEF Begins

LEMMA FailsFresh ==
  ASSUME OpOK, OpOK', Fail
  PROVE  Fresh(todo')
<1>1. CASE op.kind # "update"  BY <1>1, Fails, NoneFresh
<1>2. CASE op.kind = "update"
  <2>1. op.x \in Deployments /\ todo' \in Seq(Steps)  BY <1>2 DEF OpOK
  <2>2. op.x \notin Containers  BY <2>1, ObjectKinds DEF Objects
  <2>3. \A s \in Members(todo') : s.do = "restart" \/ (s.do = "reportStarted" /\ s.x = op.x)
    BY <1>2, Fails DEF Step
  <2>4. Reports(todo')  BY <2>2, <2>3 DEF Reports
  <2> QED  BY <2>1, <2>3, <2>4, AllFree
<1> QED  BY <1>1, <1>2

-----------------------------------------------------------------------------
(* The order of what is left to do is kept.                                *)

Ordered == Linked(todo) /\ Reports(todo)

(* A step that goes on.                                                    *)
Going ==
    /\ Work /\ todo # <<>> /\ Subject \in Objects
    /\ \E s \in Seq(Steps) : Continue(s) /\ Adds(s, Subject) /\ Small(s) /\ Links(s)

LEMMA WhatIsLeft ==
  ASSUME Typed, Typed', Worked, [Next]_vars
  PROVE  Fresh(todo') \/ Apart \/ Going
<1>1. OpOK /\ OpOK' /\ db \in Tables /\ queue \in Seq(Events)  BY DEF Typed, TypeOK
<1>2. CASE TakeEvent
  <2>1. Head(queue) \in Events /\ op = Idle /\ BeginEvent(Head(queue))
    BY <1>1, <1>2 DEF TakeEvent
  <2> QED  BY <1>1, <2>1, EventBegins, BeginsFresh
<1>3. ASSUME NEW x \in batch, TakeLoaded(x)  PROVE Fresh(todo')
  BY <1>1, <1>3, LoadedBegins, BeginsFresh
<1>4. CASE NextPhase  BY <1>4, NextPhaseFacts, NoneFresh DEF NextPhase
<1>5. CASE Finish  BY <1>5, NoneFresh DEF Finish
<1>6. CASE Failing  BY <1>1, <1>6, FailsFresh DEF Failing
<1>7. CASE Ending  BY <1>7, NoneFresh DEF Ending, Restart
<1>8. CASE Working
  <2>1. CASE Fail  BY <1>1, <2>1, FailsFresh
  <2>2. CASE ~ Fail
    BY <1>1, <1>8, <2>2, WorkLinks DEF Working, Worked, Going
  <2> QED  BY <2>1, <2>2
<1> QED  BY <1>2, <1>3, <1>4, <1>5, <1>6, <1>7, <1>8, Happens

LEMMA OrderedNext ==
  ASSUME Typed, Typed', Worked, Ordered, [Next]_vars
  PROVE  Ordered'
<1>1. OpOK  BY DEF Typed
<1>2. CASE Fresh(todo')  BY <1>2 DEF Fresh, Ordered, Reports, Members
<1>3. CASE Apart
  <2>1. todo' = todo  BY <1>3 DEF Apart, serviceVars
  <2> QED  BY <2>1 DEF Ordered, Reports, Members
<1>4. CASE Going
  <2>1. PICK s \in Seq(Steps) : Continue(s) /\ Links(s)  BY <1>4 DEF Going
  <2>2. todo # <<>>  BY <1>4 DEF Going
  <2>3. Linked(s) /\ Reports(s) /\ (s # <<>> => Looked(s))  BY <2>1 DEF Links
  <2>4. Linked(todo')
    BY <1>1, <2>1, <2>2, <2>3, GoesOnLinked DEF Ordered, Looked
  <2>5. Members(todo') \subseteq Members(s) \cup Members(todo)
    BY <1>1, <2>1, <2>2, GoesOn
  <2>6. \A m \in Members(todo') :
          m.do \in {"reportStarted", "reportStopped"} => m.x \notin Containers
    BY <2>3, <2>5 DEF Ordered, Reports
  <2> QED  BY <2>4, <2>6 DEF Ordered, Reports, Members
<1> QED  BY <1>2, <1>3, <1>4, WhatIsLeft

(* What comes next.                                                        *)
AtStep(dos, c) == todo # <<>> /\ Head(todo).do \in dos /\ Head(todo).x = c

(* After a step that goes on, the next one follows it, or goes on from     *)
(* what it found.                                                          *)
LEMMA ComesNext ==
  ASSUME Typed, Worked, Ordered, Going
  PROVE  /\ \A c \in Containers, do \in DOMAIN Prior :
              AtStep({do}, c)' =>
                \/ Head(todo).do = Prior[do] /\ Subject = c
                \/ do = "unset" /\ Subject = c /\ ~ Exists(Subject) /\ UNCHANGED docker
         /\ Open(Head(todo)) =>
              /\ todo' # <<>>
              /\ Head(todo').do \in After[Head(todo).do] /\ Head(todo').x = Subject
<1>1. OpOK /\ todo # <<>>  BY DEF Typed, Going
<1>2. PICK s \in Seq(Steps) : Continue(s) /\ Adds(s, Subject) /\ Links(s)  BY DEF Going
<1>3. Linked(s) /\ (s # <<>> => Looked(s))  BY <1>2 DEF Links
<1>4. /\ s = <<>> => /\ todo' # <<>> => Follows(Head(todo), Head(todo'))
                     /\ Open(Head(todo)) => todo' # <<>>
      /\ s # <<>> => todo' # <<>> /\ Head(todo') = s[1]
  BY <1>1, <1>2, <1>3, GoesOnLinked DEF Ordered, Looked
<1>5. ASSUME NEW c \in Containers, NEW do \in DOMAIN Prior, AtStep({do}, c)'
      PROVE  \/ Head(todo).do = Prior[do] /\ Subject = c
             \/ do = "unset" /\ Subject = c /\ ~ Exists(Subject) /\ UNCHANGED docker
  <2>1. todo' # <<>> /\ Head(todo').do = do /\ Head(todo').x = c
    BY <1>5 DEF AtStep
  <2>2. Bound(Head(todo'))  BY <2>1 DEF Bound
  <2>3. CASE s = <<>>
    BY <1>4, <2>1, <2>2, <2>3 DEF Follows, Subject
  <2>4. CASE s # <<>>
    <3>1. ~ Exists(Subject) /\ s[1] = Step("unset", Subject) /\ UNCHANGED docker
      BY <1>3, <1>4, <2>2, <2>4 DEF Looked
    <3> QED  BY <1>4, <2>1, <2>4, <3>1 DEF Step
  <2> QED  BY <2>3, <2>4
<1>6. ASSUME Open(Head(todo))
      PROVE  /\ todo' # <<>>
             /\ Head(todo').do \in After[Head(todo).do] /\ Head(todo').x = Subject
  <2>1. s = <<>>
    <3>1. Head(todo).do \in {"publish", "start", "halt", "remove"}
      BY <1>6 DEF Open, After
    <3> QED  BY <1>3, <3>1 DEF Looked
  <2>2. todo' # <<>> /\ Follows(Head(todo), Head(todo'))  BY <1>4, <1>6, <2>1
  <2> QED  BY <1>6, <2>2 DEF Follows, Subject
<1> QED  BY <1>5, <1>6

-----------------------------------------------------------------------------
(* What is in Docker, created or started was found in the store, with      *)
(* nothing missing.                                                        *)

FoundOK ==
    /\ \A c \in Containers : Present(c) => FindContainer(c)
    /\ \A s \in Members(todo) :
         s.do \in {"create", "created", "start", "started"} /\ s.x \in Containers =>
           FindContainer(s.x)
    /\ \A c \in Containers :
         (IsStored(c) \/ c \in unborn) /\ ~ FindContainer(c) => prop[c] # "Running"

LEMMA DropDeletes ==
  ASSUME Typed, Worked, Doing("drop")
  PROVE  op.kind = "delete"
<1>1. \A kind \in Kinds \ {"delete"} : "drop" \notin Does[kind]
  BY DEF Kinds, Does, StopDos, StartDos
<1>2. "drop" \in Does[op.kind] /\ op.kind \in Kinds
  BY DoesFacts DEF Worked, Typed
<1> QED  BY <1>1, <1>2

(* What has a row keeps it while nothing is deleted, and misses no more.   *)
LEMMA RowStays ==
  ASSUME Typed, Worked, StoreStep, op.kind # "delete"
  PROVE  /\ \A x \in Objects : HasRow(x) => HasRow(x)'
         /\ \A c \in Containers : FindContainer(c) => FindContainer(c)'
<1>1. db \in Tables  BY DEF Typed, TypeOK
<1>2. CASE UNCHANGED db  BY <1>2 DEF HasRow, FindContainer, IsStored
<1>3. CASE Creating
  <2>1. PICK x \in Objects : Gained(x)  BY <1>1, <1>3, CreationFacts DEF Creating
  <2>2. \A c \in Containers :
          IsStored(c) => IsStored(c)' /\ db'.missing[c] \subseteq db.missing[c]
    BY <2>1 DEF Gained, GainedContainers
  <2> QED  BY <2>1, <2>2 DEF Gained, GainedObjects, FindContainer
<1>4. CASE Setting  BY <1>1, <1>4, SettingFacts DEF FindContainer
<1>5. ~ Dropping  BY DropDeletes DEF Dropping, Drop
<1> QED  BY <1>2, <1>3, <1>4, <1>5 DEF StoreStep

(* A container that stays in the store misses no more.                     *)
LEMMA MissingStays ==
  ASSUME Typed, Worked, StoreStep, NEW c \in Containers, IsStored(c), IsStored(c)'
  PROVE  db'.missing[c] \subseteq db.missing[c]
<1>1. db \in Tables /\ OpOK  BY DEF Typed, TypeOK
<1>2. CASE Creating
  BY <1>1, <1>2, CreationFacts DEF Creating, Gained, GainedContainers
<1>3. CASE Setting  BY <1>1, <1>3, SettingFacts
<1>4. CASE Dropping
  <2>1. Subject \in Objects /\ db' = Deletion(Subject)
    BY <1>1, <1>4, DoingFacts DEF Dropping, Drop
  <2>2. PICK S : Lost(Subject, S)  BY <1>1, <2>1, DeletionFacts
  <2>3. c \notin S  BY <2>2 DEF Lost
  <2> QED  BY <2>2, <2>3 DEF Lost
<1> QED  BY <1>2, <1>3, <1>4 DEF StoreStep

(* A container comes to the store when the server asks to create it.       *)
LEMMA ComesStored ==
  ASSUME Typed, Worked, Filed, StoreStep, NEW c \in Containers, ~ IsStored(c), IsStored(c)'
  PROVE  c \in unborn /\ unborn' # unborn
<1>1. db \in Tables /\ OpOK  BY DEF Typed, TypeOK
<1>2. CASE Creating
  <2>1. PICK x \in unborn \cap Objects : unborn' = unborn \ {x} /\ db' = Creation(x)
    BY <1>2 DEF Creating
  <2>2. x = c  BY <1>1, <2>1, CreationFacts DEF Gained, GainedContainers
  <2> QED  BY <2>1, <2>2
<1>3. CASE Setting  BY <1>1, <1>3, SettingFacts
<1>4. CASE Dropping
  <2>1. Subject \in Objects /\ db' = Deletion(Subject)
    BY <1>1, <1>4, DoingFacts DEF Dropping, Drop
  <2> QED  BY <1>1, <2>1, DeletionFacts DEF Lost
<1> QED  BY <1>2, <1>3, <1>4 DEF StoreStep, IsStored

LEMMA ComesPresent ==
  ASSUME Typed, [Next]_vars, NEW c \in Containers, ~ Present(c), Present(c)'
  PROVE  Doing("create") /\ Subject = c
<1>1. OpOK /\ docker \in [Containers -> DockerStates]  BY DEF Typed, TypeOK
<1>2. docker[c] = "absent" /\ docker'[c] # "absent"  BY DEF Present
<1>3. CASE Start
  BY <1>1, <1>2, <1>3, DoingFacts DEF Start, Exists
<1>4. CASE Create
  BY <1>1, <1>2, <1>4, DoingFacts DEF Create, dockerVars
<1>5. CASE Halt
  BY <1>1, <1>2, <1>5, DoingFacts DEF Halt
<1>6. CASE RemoveObject
  BY <1>1, <1>2, <1>6, DoingFacts DEF RemoveObject, dockerVars
<1>7. ASSUME NEW e \in Containers, ChangeOutside(e)  PROVE FALSE
  BY <1>1, <1>2, <1>7 DEF ChangeOutside
<1>8. ~ UNCHANGED docker  BY <1>2
<1> QED
  BY <1>3, <1>4, <1>5, <1>6, <1>7, <1>8
     DEF Next, ServiceStep, TakeEvent, NextPhase, TakeLoaded, Publish, Fetch, Up,
         StopLook, RestartLook, Down, Look, Created, Started, Stopped, Record, Unset,
         Drop, Report, Finish, CallFails, Listen, Crash, Disconnected, Restart, Rest,
         ReceiveCreation, ReceiveCommand, ReceiveUpdate, Persist, SendEvent, vars,
         dockerVars

(* Only the service sends properties.                                      *)
LEMMA PropChanges ==
  ASSUME Typed, [Next]_vars, NEW x \in Objects, prop'[x] # prop[x]
  PROVE  Work /\ Subject = x
<1>1. OpOK /\ prop \in [Objects -> PropValues]  BY DEF Typed, TypeOK
<1>2. ~ UNCHANGED prop  OBVIOUS
<1>3. ASSUME NEW do, Doing(do)  PROVE Subject \in Objects
  BY <1>1, <1>3, DoingFacts
<1>4. ASSUME NEW value, Subject \in Objects, Send(value)  PROVE Subject = x
  BY <1>1, <1>4 DEF Send
<1>5. CASE Publish \/ Fetch \/ Created \/ Started \/ Stopped \/ Unset \/ Report
  BY <1>2, <1>3, <1>4, <1>5
     DEF Publish, Fetch, Created, Started, Stopped, Record, Unset, Report, Work
<1>6. CASE Up \/ StopLook \/ RestartLook \/ Down
  BY <1>2, <1>3, <1>4, <1>6 DEF Up, StopLook, RestartLook, Down, Look, Work
<1>7. CASE Start \/ Halt
  BY <1>2, <1>3, <1>4, <1>7 DEF Start, Halt, MarkMissing, Work
<1> QED
  BY <1>2, <1>5, <1>6, <1>7
     DEF Next, ServiceStep, TakeEvent, NextPhase, TakeLoaded, Create, RemoveObject,
         Drop, Finish, CallFails, ChangeOutside, Listen, Crash, Disconnected, Restart,
         Rest, ReceiveCreation, ReceiveCommand, ReceiveUpdate, Persist, SendEvent, vars

StartingDos == {"create", "created", "start", "started"}

LEMMA StartsOrDeletes ==
  ASSUME Typed, Worked, NEW s \in Members(todo), s.do \in StartingDos
  PROVE  op.kind # "delete"
BY DEF Worked, Fits, Does, StartingDos

LEMMA HeadFound ==
  ASSUME Typed, Worked, FoundOK, NEW do \in StartingDos, Doing(do), Subject \in Containers
  PROVE  FindContainer(Subject) /\ op.kind # "delete"
<1>1. Head(todo) \in Members(todo) /\ Head(todo).do = do /\ Head(todo).x = Subject
  BY DoingFacts DEF Typed, Subject
<1> QED  BY <1>1, StartsOrDeletes DEF FoundOK, StartingDos

(* Running is sent of a container that was found.                          *)
LEMMA SaysRunning ==
  ASSUME Typed, Worked, FoundOK, [Next]_vars, NEW c \in Containers,
         prop[c] # "Running", prop'[c] = "Running"
  PROVE  FindContainer(c) /\ (UNCHANGED db \/ op.kind # "delete")
<1>1. /\ OpOK /\ prop \in [Objects -> PropValues] /\ c \in Objects
      /\ c \notin Deployments
  BY ObjectKinds DEF Typed, TypeOK, Objects
<1>2. Work /\ Subject = c  BY <1>1, PropChanges
<1>3. ASSUME NEW value, Send(value)  PROVE value = "Running"
  BY <1>1, <1>2, <1>3 DEF Send
<1>4. ~ UNCHANGED prop  OBVIOUS
<1>5. CASE Publish  BY <1>1, <1>2, <1>3, <1>5 DEF Publish
<1>6. CASE Fetch
  BY <1>2, <1>4, <1>6 DEF Fetch, Found, storeVars
<1>7. CASE Up \/ StopLook \/ RestartLook \/ Down
  BY <1>2, <1>4, <1>7 DEF Up, StopLook, RestartLook, Down, Look, Found, storeVars
<1>8. CASE Created  BY <1>2, <1>3, <1>8 DEF Created, Record
<1>9. CASE Stopped  BY <1>3, <1>9 DEF Stopped, Record
<1>10. CASE Unset  BY <1>3, <1>10 DEF Unset
<1>11. CASE Report  BY <1>3, <1>11 DEF Report
<1>12. CASE Start \/ Halt  BY <1>3, <1>4, <1>12 DEF Start, Halt, MarkMissing
<1>13. CASE Started
  <2>1. Doing("started")  BY <1>13 DEF Started, Record
  <2>2. "started" \in StartingDos  BY DEF StartingDos
  <2> QED  BY <1>2, <2>1, <2>2, HeadFound
<1> QED
  BY <1>2, <1>4, <1>5, <1>6, <1>7, <1>8, <1>9, <1>10, <1>11, <1>12, <1>13
     DEF Work, Create, RemoveObject, Drop

LEMMA FoundNext ==
  ASSUME Typed, Typed', Worked, Ordered, Filed, Filed', StoreStep, Kept', FoundOK,
         [Next]_vars
  PROVE  FoundOK'
<1>1. OpOK /\ db \in Tables /\ db' \in Tables  BY DEF Typed, TypeOK
<1>2. ASSUME NEW c \in Containers, FindContainer(c), IsStored(c)'
      PROVE  FindContainer(c)'
  <2>1. db'.missing[c] \subseteq db.missing[c]
    BY <1>2, MissingStays DEF FindContainer
  <2> QED  BY <1>2, <2>1 DEF FindContainer
<1>3. ASSUME NEW c \in Containers, Present(c)'  PROVE FindContainer(c)'
  <2>1. IsStored(c)'
    <3>1. Owned(c)'  BY <1>3 DEF Kept, Reachable
    <3>2. PICK d \in Deployments : c \in db'.rows[d]  BY <3>1 DEF Owned, Joined
    <3> QED  BY <3>2 DEF Filed, RowsStored
  <2>2. FindContainer(c)
    <3>1. CASE Present(c)  BY <3>1 DEF FoundOK
    <3>2. CASE ~ Present(c)
      <4>1. Doing("create") /\ Subject = c  BY <1>3, <3>2, ComesPresent
      <4>2. "create" \in StartingDos  BY DEF StartingDos
      <4> QED  BY <4>1, <4>2, HeadFound
    <3> QED  BY <3>1, <3>2
  <2> QED  BY <1>2, <2>1, <2>2
<1>4. ASSUME NEW s \in Members(todo'), s.do \in StartingDos, s.x \in Containers
      PROVE  FindContainer(s.x)'
  <2> DEFINE c == s.x
  <2>1. s.x \in Containers  BY <1>4
  <2>2. CASE s \in Members(todo)
    <3>1. FindContainer(s.x) /\ op.kind # "delete"
      BY <1>4, <2>2, StartsOrDeletes DEF FoundOK, StartingDos
    <3>2. PICK e \in Containers : e = s.x  BY <1>4
    <3>3. FindContainer(e)'  BY <3>1, <3>2, RowStays
    <3> QED  BY <3>2, <3>3
  <2>3. CASE s \notin Members(todo)
    <3>1. ~ Fresh(todo')  BY <1>4 DEF Fresh, StartingDos
    <3>2. ~ Apart  BY <2>3 DEF Apart, serviceVars
    <3>3. Going  BY <3>1, <3>2, WhatIsLeft
    <3>4. PICK p \in Seq(Steps) : Continue(p) /\ Adds(p, Subject) /\ Links(p)
      BY <3>3 DEF Going
    <3>5. todo # <<>>  BY <3>3 DEF Going
    <3>6. s \in Members(p)  BY <1>1, <1>4, <2>3, <3>4, <3>5, GoesOn
    <3>7. p # <<>> /\ s.x = Subject  BY <3>4, <3>6, NoSteps DEF Adds
    <3>8. FindContainer(s.x) /\ UNCHANGED db
      BY <1>4, <3>4, <3>7 DEF Links, Looked, Found
    <3>9. PICK e \in Containers : e = s.x  BY <1>4
    <3>10. FindContainer(e)'  BY <3>8, <3>9 DEF FindContainer, IsStored
    <3> QED  BY <3>9, <3>10
  <2> QED  BY <2>2, <2>3
<1>5. ASSUME NEW c \in Containers, IsStored(c)' \/ c \in unborn', prop'[c] = "Running"
      PROVE  FindContainer(c)'
  <2>1. c \in Objects /\ (HasRow(c)' <=> IsStored(c)') /\ (HasRow(c) <=> IsStored(c))
    BY ObjectKinds DEF HasRow, Objects
  <2>2. unborn' \subseteq unborn  BY DEF StoreStep, Creating
  <2>3. CASE prop[c] = "Running"
    <3>1. CASE IsStored(c)
      <4>1. FindContainer(c)  BY <2>3, <3>1 DEF FoundOK
      <4>2. IsStored(c)'
        BY <1>5, <2>1, <2>2, <3>1 DEF Filed, Born
      <4> QED  BY <1>2, <4>1, <4>2
    <3>2. CASE ~ IsStored(c)
      <4>1. c \in unborn  BY <1>5, <2>2, <3>2, ComesStored
      <4>2. FindContainer(c)  BY <2>3, <4>1 DEF FoundOK
      <4> QED  BY <3>2, <4>2 DEF FindContainer
    <3> QED  BY <3>1, <3>2
  <2>4. CASE prop[c] # "Running"
    <3>1. FindContainer(c) /\ (UNCHANGED db \/ op.kind # "delete")
      BY <1>5, <2>4, SaysRunning
    <3>2. CASE UNCHANGED db  BY <3>1, <3>2 DEF FindContainer, IsStored
    <3>3. CASE op.kind # "delete"  BY <3>1, <3>3, RowStays
    <3> QED  BY <3>1, <3>2, <3>3
  <2> QED  BY <2>3, <2>4
<1>6. \A s \in Members(todo') :
        s.do \in StartingDos /\ s.x \in Containers => FindContainer(s.x)'
  BY <1>4
<1> QED  BY <1>3, <1>5, <1>6 DEF FoundOK, StartingDos, Members

-----------------------------------------------------------------------------
(* publish_received finds the row of what it has loaded, and so the service*)
(* does not end.                                                           *)

PubPhases == {"resources", "containers", "deployments"}

UpOK ==
    /\ faults = 0 => phase # "down"
    /\ phase \in PubPhases =>
         /\ \A x \in batch : HasRow(x)
         /\ \A s \in Members(todo) : s.do = "publish" => HasRow(s.x)

(* A count that is still 0 was 0, and what it counts did not happen.       *)
LEMMA NothingFailed ==
  ASSUME Typed, [Next]_vars
  PROVE  /\ faults' = 0 => faults = 0 /\ ~ CallFails
         /\ crashes' = 0 => crashes = 0 /\ ~ Crash
<1>1. faults \in Nat /\ crashes \in Nat  BY DEF Typed, TypeOK
<1>2. ASSUME NEW e, NEW possible, NEW tables, Persist(e, possible, tables)
      PROVE  faults' \in {faults, faults + 1} /\ crashes' = crashes
  BY <1>2 DEF Persist
<1>3. CASE \/ \E x \in Objects : ReceiveCreation(x)
           \/ \E kind \in DOMAIN CommandStatus, d \in Deployments : ReceiveCommand(kind, d)
           \/ \E from, to \in Deployments : ReceiveUpdate(from, to)
  <2>1. faults' \in {faults, faults + 1} /\ crashes' = crashes
    BY <1>2, <1>3 DEF ReceiveCreation, ReceiveCommand, ReceiveUpdate
  <2>2. sending = None /\ sending' # None
    <3>1. ASSUME NEW e \in Events, NEW possible, NEW tables, Persist(e, possible, tables)
          PROVE  sending = None /\ sending' # None
      BY <3>1, NoneAssumption DEF Persist
    <3>2. \A x \in Objects : Event("publish", x) \in Events  BY DEF Events, Creations
    <3>3. \A kind \in DOMAIN CommandStatus, d \in Deployments : Event(kind, d) \in Events
      BY DEF Events, Commands, CommandStatus
    <3>4. \A from, to \in Deployments : Update(from, to) \in Events
      BY DEF Events, Commands
    <3> QED
      BY <1>3, <3>1, <3>2, <3>3, <3>4 DEF ReceiveCreation, ReceiveCommand, ReceiveUpdate
  <2>3. ~ CallFails /\ ~ Crash  BY <2>2 DEF CallFails, Crash, Restart
  <2> QED  BY <1>1, <2>1, <2>3
<1>4. CASE CallFails  BY <1>1, <1>4 DEF CallFails, Crash
<1>5. CASE Crash  BY <1>1, <1>5 DEF CallFails, Crash, Restart
<1>6. CASE UNCHANGED <<faults, crashes>>
  BY <1>1, <1>6 DEF CallFails, Crash
<1>7. CASE SendEvent \/ Rest \/ UNCHANGED vars \/ Disconnected
           \/ (\E c \in Containers : ChangeOutside(c) \/ Listen(c))
  BY <1>6, <1>7
     DEF SendEvent, Rest, vars, boundVars, Disconnected, Restart, ChangeOutside, Listen
<1>8. CASE ServiceStep
  BY <1>6, <1>8
     DEF ServiceStep, TakeEvent, NextPhase, TakeLoaded, Publish, Fetch, Up, StopLook,
         RestartLook, Down, Look, Create, Created, Started, Stopped, Record, Start, Halt,
         RemoveObject, Unset, Drop, Report, Finish, StepOnly, boundVars
<1> QED  BY <1>3, <1>4, <1>5, <1>7, <1>8 DEF Next

LEMMA GoesDown ==
  ASSUME Typed, Worked, [Next]_vars, phase # "down", phase' = "down"
  PROVE  CallFails \/ (Publish /\ ~ HasRow(Subject) /\ phase \in PubPhases)
<1>1. OpOK /\ phase \in Phases  BY PhaseFacts DEF Typed, TypeOK
<1>2. phase' # phase /\ phase' # "boot"  OBVIOUS
<1>3. CASE NextPhase
  <2>1. phase \in Phases \ {"loop", "down"} /\ phase' = PhaseAfter(phase)
    BY <1>1, <1>3 DEF NextPhase
  <2> QED  BY <2>1, PhaseFacts
<1>4. CASE Failing
  <2>1. op.kind = "publish" /\ phase # "loop"
    BY <1>2, <1>4 DEF Failing, Fail
  <2>2. phase \in PubPhases
    BY <1>1, <2>1 DEF Worked, InPhase, PhaseDoes, Phases, PubPhases
  <2>3. CASE Work
    <3>1. Doing("publish") \/ Doing("fetch")
      <4>1. todo # <<>> /\ Head(todo) \in Members(todo)
        BY <1>1, <1>4, TailMembers DEF Failing, OpOK
      <4>2. Head(todo).do \in {"publish", "fetch"}
        BY <2>1, <4>1 DEF Worked, Fits, Does
      <4> QED  BY <4>1, <4>2 DEF Doing
    <3>2. Publish \/ Fetch
      BY <2>3, <3>1
         DEF Work, Up, StopLook, RestartLook, Down, Look, Create, Created, Started,
             Stopped, Record, Start, Halt, RemoveObject, Unset, Drop, Report, Doing
    <3>3. ~ Continue(<<>>)  BY <1>2 DEF Continue
    <3> QED  BY <2>2, <3>2, <3>3 DEF Publish, Fetch
  <2> QED  BY <1>4, <2>3 DEF Failing
<1>5. CASE Working  BY <1>1, <1>2, <1>5, GoesOn DEF Working
<1>6. CASE TakeEvent \/ (\E x \in batch : TakeLoaded(x)) \/ Finish \/ Ending \/ Apart
  BY <1>2, <1>6 DEF TakeEvent, TakeLoaded, Finish, Ending, Apart, serviceVars
<1> QED  BY <1>3, <1>4, <1>5, <1>6, Happens

LEMMA UpNext ==
  ASSUME Typed, Typed', Worked, StoreStep, UpOK, [Next]_vars
  PROVE  UpOK'
<1>1. OpOK /\ phase \in Phases /\ batch \subseteq Objects /\ db \in Tables
  BY PhaseFacts DEF Typed, TypeOK
<1>2. ASSUME faults' = 0, phase' = "down"  PROVE FALSE
  <2>1. phase # "down" /\ ~ CallFails  BY <1>2, NothingFailed DEF UpOK
  <2>2. Publish /\ ~ HasRow(Subject) /\ phase \in PubPhases
    BY <1>2, <2>1, GoesDown
  <2>3. Head(todo) \in Members(todo) /\ Head(todo).do = "publish"
    BY <1>1, <2>2, DoingFacts DEF Publish
  <2> QED  BY <2>2, <2>3 DEF UpOK, Subject
<1>3. ASSUME phase' \in PubPhases
      PROVE  /\ \A x \in batch' : HasRow(x)'
             /\ \A s \in Members(todo') : s.do = "publish" => HasRow(s.x)'
  <2>1. NextPhase \/ phase' = phase
    BY <1>3, PhaseGoes DEF PubPhases, PhaseDoes
  <2>2. CASE NextPhase
    <3>1. phase \in Phases \ {"loop", "down"} /\ batch' = Load(phase') /\ Members(todo') = {}
      BY <1>1, <2>2, NextPhaseFacts, NoSteps DEF NextPhase
    <3>2. UNCHANGED db  BY <2>2, NextPhaseFacts
    <3>3. ASSUME NEW x \in batch'  PROVE HasRow(x)
      <4>1. CASE phase' = "resources"
        <5>1. x \in Resources /\ db.res[x] = "Received"
          BY <1>1, <3>1, <3>3, <4>1 DEF Load, InState, Tables
        <5> QED  BY <5>1, ObjectKinds DEF HasRow, Objects
      <4>2. CASE phase' = "containers"
        <5>1. x \in Containers /\ db.cont[x] = "Received"
          BY <1>1, <3>1, <3>3, <4>2 DEF Load, InState, Tables
        <5> QED  BY <5>1, ObjectKinds DEF HasRow, Objects, IsStored
      <4>3. CASE phase' = "deployments"
        <5>1. x \in Deployments /\ db.dep[x] = "Received"
          BY <1>1, <3>1, <3>3, <4>3 DEF Load, InState, Tables
        <5> QED  BY <5>1 DEF HasRow
      <4> QED  BY <1>3, <4>1, <4>2, <4>3 DEF PubPhases
    <3>4. \A x : HasRow(x)' <=> HasRow(x)
      BY <3>2 DEF HasRow, IsStored
    <3> QED  BY <3>1, <3>3, <3>4
  <2>3. CASE phase' = phase
    <3>1. phase \in PubPhases /\ batch' \subseteq batch
      BY <1>3, <2>3, BatchStays DEF PubPhases, PhaseDoes
    <3>2. op.kind # "delete"
      BY <3>1 DEF Worked, InPhase, PhaseDoes, PubPhases
    <3>3. \A x \in Objects : HasRow(x) => HasRow(x)'  BY <3>2, RowStays
    <3>4. \A x \in batch' : HasRow(x)'  BY <1>1, <3>1, <3>3 DEF UpOK
    <3>5. ASSUME NEW s \in Members(todo'), s.do = "publish"  PROVE HasRow(s.x)
      <4>1. CASE s \in Members(todo)  BY <3>1, <3>5, <4>1 DEF UpOK
      <4>2. CASE s \notin Members(todo)
        <5>1. ASSUME NEW x \in batch, TakeLoaded(x)  PROVE HasRow(s.x)
          <6>1. BeginPublish(x)
            BY <3>1, <5>1, LoadedBegins DEF PubPhases
          <6>2. s \in {Step("publish", x), Step("fetch", x)}
            BY <1>1, <3>5, <6>1, PublishBegins
          <6> QED  BY <3>1, <6>2 DEF UpOK, Step
        <5>2. CASE Failing
          <6>1. s.do \in {"restart", "reportStarted"}
            BY <1>1, <3>5, <5>2, Fails, NoSteps DEF Failing, Step
          <6> QED  BY <3>5, <6>1
        <5>3. CASE Working
          <6>1. PICK p \in Seq(Steps) : Continue(p) /\ Small(p)  BY <5>3 DEF Working
          <6>2. s \in Members(p)
            BY <1>1, <3>5, <4>2, <5>3, <6>1, GoesOn DEF Working
          <6> QED  BY <3>5, <6>1, <6>2 DEF Small
        <5>4. CASE Apart  BY <4>2, <5>4 DEF Apart, serviceVars
        <5>5. CASE NextPhase \/ Finish \/ Ending
          BY <3>5, <5>5, NextPhaseFacts, NoSteps DEF Finish, Ending, Restart
        <5>6. ~ TakeEvent  BY <3>1 DEF TakeEvent, PubPhases
        <5> QED  BY <5>1, <5>2, <5>3, <5>4, <5>5, <5>6, Happens
      <4> QED  BY <4>1, <4>2
    <3>6. ASSUME NEW s \in Members(todo'), s.do = "publish"  PROVE HasRow(s.x)'
      <4>1. s.x \in Objects
        <5>1. todo' \in Seq(Steps)  BY DEF Typed, OpOK
        <5>2. s \in Steps  BY <3>6, <5>1 DEF Members
        <5> QED  BY <5>2 DEF Steps
      <4>2. PICK x \in Objects : x = s.x  BY <4>1
      <4>3. HasRow(x)'  BY <3>3, <3>5, <3>6, <4>2
      <4> QED  BY <4>2, <4>3
    <3> QED  BY <3>4, <3>6
  <2> QED  BY <2>1, <2>2, <2>3
<1> QED  BY <1>2, <1>3 DEF UpOK, Members

-----------------------------------------------------------------------------
(* The property of a container says what Docker last did with it, or that  *)
(* is about to be sent.                                                    *)

Agrees(c) == prop[c] = "Running" <=> docker[c] = "running"

(* The service is going to look at c again.                                *)
Due(c) == c \in noticed \/ \E n \in DOMAIN queue : queue[n] = Event("refresh", c)

AtRest == {"stopped", "created", "remove", "unset"}
Sending == {"fetch", "started", "stopped", "remove", "unset"}

HeadOK ==
    \A c \in Containers :
      /\ AtStep(AtRest, c) => docker[c] # "running"
      /\ faults = 0 /\ crashes = 0 /\ AtStep({"started"}, c) =>
           docker[c] = "running" \/ Due(c)

SaidOK ==
    faults = 0 /\ crashes = 0 =>
      \A c \in Containers :
        IsStored(c) => Agrees(c) \/ Due(c) \/ AtStep(Sending, c)

(* What happened to a container that is stored is looked at.               *)
LEMMA DueStays ==
  ASSUME Typed, [Next]_vars, ~ TakeEvent, ~ Crash, phase # "down",
         NEW c \in Containers, IsStored(c), Due(c)
  PROVE  Due(c)'
<1>1. queue \in Seq(Events) /\ Event("refresh", c) \in Events
  BY DEF Typed, TypeOK, Events, Refreshes
<1>2. ASSUME UNCHANGED queue, noticed \subseteq noticed'  PROVE Due(c)'
  BY <1>2 DEF Due
<1>3. ASSUME NEW e \in Events, queue' = Append(queue, e),
             c \in noticed => c \in noticed' \/ e = Event("refresh", c)
      PROVE  Due(c)'
  <2>1. \A n \in DOMAIN queue : n \in DOMAIN queue' /\ queue'[n] = queue[n]
    BY <1>1, <1>3, AppendFacts
  <2>2. Len(queue) + 1 \in DOMAIN queue' /\ queue'[Len(queue) + 1] = e
    BY <1>1, <1>3, AppendFacts
  <2>3. CASE \E n \in DOMAIN queue : queue[n] = Event("refresh", c)
    BY <2>1, <2>3 DEF Due
  <2>4. CASE c \in noticed  BY <1>3, <2>2, <2>4 DEF Due
  <2> QED  BY <2>3, <2>4 DEF Due
<1>4. CASE \/ \E x \in Objects : ReceiveCreation(x)
           \/ \E kind \in DOMAIN CommandStatus, d \in Deployments : ReceiveCommand(kind, d)
           \/ \E from, to \in Deployments : ReceiveUpdate(from, to)
  BY <1>2, <1>4 DEF ReceiveCreation, ReceiveCommand, ReceiveUpdate, Persist
<1>5. CASE SendEvent
  <2>1. sending \in Events /\ queue' = Append(queue, sending) /\ UNCHANGED noticed
    BY <1>5 DEF SendEvent, Typed, TypeOK
  <2> QED  BY <1>3, <2>1
<1>6. ASSUME NEW e \in Containers, Listen(e)  PROVE Due(c)'
  <2>1. Event("refresh", e) \in Events  BY DEF Events, Refreshes
  <2>2. noticed' = noticed \ {e}  BY <1>6 DEF Listen
  <2>3. CASE IsStored(e)
    <3>1. queue' = Append(queue, Event("refresh", e))  BY <1>6, <2>3 DEF Listen
    <3> QED  BY <1>3, <2>1, <2>2, <3>1
  <2>4. CASE ~ IsStored(e)
    <3>1. UNCHANGED queue /\ e # c  BY <1>6, <2>4 DEF Listen
    <3> QED  BY <2>2, <3>1 DEF Due
  <2> QED  BY <2>3, <2>4
<1>7. ~ Disconnected  BY DEF Disconnected
<1>8. CASE ServiceStep
  BY <1>2, <1>8
     DEF ServiceStep, NextPhase, TakeLoaded, Publish, Fetch, Up, StopLook, RestartLook,
         Down, Look, Create, Created, Started, Stopped, Record, Start, Halt, RemoveObject,
         Unset, Drop, Report, Finish, StepOnly
<1>9. CASE CallFails \/ Rest \/ UNCHANGED vars \/ (\E e \in Containers : ChangeOutside(e))
  BY <1>2, <1>9 DEF CallFails, Rest, ChangeOutside, vars
<1> QED  BY <1>4, <1>5, <1>6, <1>7, <1>8, <1>9 DEF Next

(* The event of a refresh is taken, or waits.                              *)
LEMMA DueTaken ==
  ASSUME Typed, TakeEvent, NEW c \in Containers, Due(c)
  PROVE  Due(c)' \/ AtStep({"fetch"}, c)'
<1>1. queue \in Seq(Events) /\ queue # <<>> /\ queue' = Tail(queue) /\ UNCHANGED noticed
  BY DEF Typed, TypeOK, TakeEvent
<1>2. CASE c \in noticed  BY <1>1, <1>2 DEF Due
<1>3. ASSUME NEW n \in DOMAIN queue, queue[n] = Event("refresh", c)
      PROVE  Due(c)' \/ AtStep({"fetch"}, c)'
  <2>1. /\ DOMAIN queue = 1..Len(queue) /\ Len(queue) \in Nat
        /\ Head(queue) = queue[1] /\ queue' \in Seq(Events)
        /\ Len(queue') = Len(queue) - 1
        /\ \A k \in 1..Len(queue) - 1 : queue'[k] = queue[k + 1]
    BY <1>1, HeadTailProperties, LenProperties
  <2>2. DOMAIN queue' = 1..Len(queue')  BY <2>1, LenProperties
  <2>3. CASE n = 1
    <3>1. BeginEvent(Event("refresh", c))  BY <1>3, <2>1, <2>3 DEF TakeEvent
    <3>2. BeginRefresh(c)  BY <3>1 DEF BeginEvent, Event
    <3>3. todo' = <<Step("fetch", c)>>  BY <3>2, RefreshBegins
    <3>4. todo' # <<>> /\ Head(todo') = Step("fetch", c)  BY <3>3
    <3> QED  BY <3>4 DEF AtStep, Step
  <2>4. CASE n # 1
    <3>1. n - 1 \in DOMAIN queue' /\ queue'[n - 1] = Event("refresh", c)
      BY <1>3, <2>1, <2>2, <2>4
    <3> QED  BY <3>1 DEF Due
  <2> QED  BY <2>3, <2>4
<1> QED  BY <1>2, <1>3 DEF Due

LEMMA FailsOrGoes ==
  ASSUME OpOK, todo # <<>>, Fail
  PROVE  op' # op
<1>1. CASE op.kind # "update"  BY <1>1, Fails DEF OpOK
<1>2. CASE op.kind = "update"  BY <1>2, Fails
<1> QED  BY <1>1, <1>2

(* What Docker has done when the service goes on.                          *)
LEMMA DockerDone ==
  ASSUME Typed, Going, NEW c \in Containers, Subject = c
  PROVE  /\ Doing("create") => docker'[c] = "created"
         /\ Doing("halt") => docker'[c] # "running"
         /\ Doing("remove") => docker'[c] = "absent"
         /\ Doing("start") => docker'[c] = "running"
<1>1. OpOK /\ docker \in [Containers -> DockerStates]  BY DEF Typed, TypeOK
<1>2. ~ Fail
  <2>1. todo # <<>> /\ op' = op  BY DEF Going, Continue
  <2> QED  BY <1>1, <2>1, FailsOrGoes
<1>3. c \notin Resources /\ c \notin Images
  BY ContainerStoreAssumption
<1>4. ASSUME NEW do, Doing(do)  PROVE \A then : Doing(then) => then = do
  BY <1>4 DEF Doing
<1>5. Doing("create") => Create
  BY DEF Going, Work, Publish, Fetch, Up, StopLook, RestartLook, Down, Look, Created,
         Started, Stopped, Record, Start, Halt, RemoveObject, Unset, Drop, Report, Doing
<1>6. Doing("remove") => RemoveObject
  BY DEF Going, Work, Publish, Fetch, Up, StopLook, RestartLook, Down, Look, Created,
         Started, Stopped, Record, Start, Halt, Create, Unset, Drop, Report, Doing
<1>7. (Doing("halt") => Halt) /\ (Doing("start") => Start)
  BY DoneBy DEF Going
<1>8. ASSUME Create  PROVE docker'[c] = "created"
  BY <1>1, <1>2, <1>3, <1>8 DEF Create
<1>9. ASSUME Halt  PROVE docker'[c] # "running"
  BY <1>1, <1>9 DEF Halt
<1>10. ASSUME RemoveObject  PROVE docker'[c] = "absent"
  BY <1>1, <1>2, <1>3, <1>10 DEF RemoveObject
<1>11. ASSUME Start  PROVE docker'[c] = "running"
  BY <1>1, <1>2, <1>11 DEF Start, MarkMissing
<1> QED  BY <1>5, <1>6, <1>7, <1>8, <1>9, <1>10, <1>11

LEMMA HeadNext ==
  ASSUME Typed, Typed', Worked, Ordered, UpOK, FoundOK, HeadOK, [Next]_vars
  PROVE  HeadOK'
<1>1. OpOK /\ docker \in [Containers -> DockerStates]  BY DEF Typed, TypeOK
<1>2. AtRest \subseteq DOMAIN Prior /\ "started" \in DOMAIN Prior
  BY DEF AtRest, Prior
<1>3. ASSUME NEW c \in Containers, NEW do \in DOMAIN Prior, AtStep({do}, c)', Fresh(todo')
      PROVE  FALSE
  BY <1>3 DEF AtStep, Fresh, Bound
<1>4. ASSUME NEW c \in Containers, NEW do \in AtRest, AtStep({do}, c)'
      PROVE  docker'[c] # "running"
  <2>1. CASE Apart
    <3>1. AtStep({do}, c)  BY <1>4, <2>1 DEF Apart, serviceVars, AtStep
    <3>2. docker[c] # "running"  BY <3>1 DEF HeadOK, AtStep
    <3>3. ~ (Doing("start") /\ Subject = c)  BY <3>1 DEF AtStep, AtRest, Doing
    <3> QED  BY <3>2, <3>3, StartsRunning
  <2>2. CASE Going
    <3>1. \/ Head(todo).do = Prior[do] /\ Subject = c
          \/ do = "unset" /\ Subject = c /\ ~ Exists(Subject) /\ UNCHANGED docker
      BY <1>2, <1>4, <2>2, ComesNext
    <3>2. CASE Head(todo).do = Prior[do] /\ Subject = c
      <4>1. Prior[do] \in {"halt", "create", "remove"}  BY DEF AtRest, Prior
      <4>2. Doing("halt") \/ Doing("create") \/ Doing("remove")
        BY <2>2, <3>2, <4>1 DEF Going, Doing
      <4> QED  BY <2>2, <3>2, <4>2, DockerDone
    <3>3. CASE Subject = c /\ ~ Exists(Subject) /\ UNCHANGED docker
      BY <3>3 DEF Exists
    <3> QED  BY <3>1, <3>2, <3>3
  <2> QED  BY <1>2, <1>3, <1>4, <2>1, <2>2, WhatIsLeft
<1>5. ASSUME NEW c \in Containers, faults' = 0, crashes' = 0, AtStep({"started"}, c)'
      PROVE  docker'[c] = "running" \/ Due(c)'
  <2>1. CASE Apart
    <3>1. AtStep({"started"}, c)  BY <1>5, <2>1 DEF Apart, serviceVars, AtStep
    <3>2. faults = 0 /\ crashes = 0 /\ ~ Crash /\ phase # "down"
      BY <1>5, NothingFailed DEF UpOK
    <3>3. docker[c] = "running" \/ Due(c)  BY <3>1, <3>2 DEF HeadOK
    <3>4. todo # <<>> /\ Head(todo) \in Members(todo) /\ Head(todo).do = "started"
            /\ Head(todo).x = c
      BY <1>1, <3>1, TailMembers DEF AtStep, OpOK
    <3>5. IsStored(c)  BY <3>4 DEF FoundOK, FindContainer
    <3>6. ~ TakeEvent  BY <1>1, <3>4 DEF TakeEvent, OpOK
    <3>7. ~ Doing("halt")  BY <3>4 DEF Doing
    <3>8. CASE Due(c)  BY <3>2, <3>5, <3>6, <3>8, DueStays
    <3>9. CASE docker[c] = "running" /\ docker'[c] # "running"
      BY <3>7, <3>9, StopsRunning DEF Due
    <3> QED  BY <3>3, <3>8, <3>9
  <2>2. CASE Going
    <3>1. Head(todo).do = Prior["started"] /\ Subject = c
      BY <1>2, <1>5, <2>2, ComesNext
    <3>2. Doing("start")  BY <2>2, <3>1 DEF Going, Doing, Prior
    <3> QED  BY <2>2, <3>1, <3>2, DockerDone
  <2> QED  BY <1>2, <1>3, <1>5, <2>1, <2>2, WhatIsLeft
<1>6. ASSUME NEW c \in Containers, AtStep(AtRest, c)'  PROVE docker'[c] # "running"
  <2>1. PICK do \in AtRest : AtStep({do}, c)'  BY <1>6 DEF AtStep
  <2> QED  BY <1>4, <2>1
<1> QED  BY <1>5, <1>6 DEF HeadOK

(* fetch, and every step that begins with it, sends what Docker says; what *)
(* is not found does not run, and is not said to.                          *)
LEMMA SeenAgrees ==
  ASSUME Typed, FoundOK, NEW c \in Containers, IsStored(c), Subject = c, UNCHANGED docker,
         IF Found(c) THEN Send(Seen(c)) ELSE UNCHANGED prop
  PROVE  Agrees(c)'
<1>1. /\ docker[c] \in DockerStates /\ prop \in [Objects -> PropValues] /\ c \in Objects
  BY DEF Typed, TypeOK, Objects
<1>2. CASE Found(c)
  <2>1. prop'[c] = Seen(c)  BY <1>1, <1>2 DEF Send
  <2>2. Seen(c) = "Running" <=> docker[c] = "running"
    BY <1>1 DEF Seen, ContainerValue, DockerStates
  <2> QED  BY <2>1, <2>2 DEF Agrees
<1>3. CASE ~ Found(c)
  <2>1. ~ FindContainer(c)  BY <1>3 DEF Found
  <2>2. prop[c] # "Running" /\ docker[c] # "running"
    BY <2>1 DEF FoundOK, Present
  <2> QED  BY <1>3, <2>2 DEF Agrees
<1> QED  BY <1>2, <1>3

(* The service works on c.                                                 *)
LEMMA SaidOfSubject ==
  ASSUME Typed, Typed', Worked, Ordered, Filed, StoreStep, FoundOK, HeadOK, UpOK, SaidOK,
         [Next]_vars, faults' = 0, crashes' = 0,
         NEW c \in Containers, Work, Subject = c, IsStored(c)'
  PROVE  Agrees(c)' \/ Due(c)' \/ AtStep(Sending, c)'
<1>1. /\ OpOK /\ docker[c] \in DockerStates /\ prop \in [Objects -> PropValues]
      /\ docker \in [Containers -> DockerStates] /\ c \in Objects /\ c \notin Deployments
      /\ c \notin Resources /\ c \notin Images
  BY ObjectKinds, ContainerStoreAssumption DEF Typed, TypeOK, Objects
<1>2. faults = 0 /\ crashes = 0 /\ ~ Crash /\ phase # "down"
  BY NothingFailed DEF UpOK
<1>3. /\ todo # <<>> /\ UNCHANGED unborn /\ Head(todo) \in Members(todo)
      /\ Head(todo).x = c /\ ~ TakeEvent
  <2>1. todo # <<>> /\ UNCHANGED unborn  BY <1>1, WorkGoes DEF Worked, StepOnly
  <2>2. ~ TakeEvent  BY <1>1, <2>1 DEF TakeEvent, OpOK
  <2> QED  BY <1>1, <2>1, <2>2, TailMembers DEF OpOK, Subject
<1>4. IsStored(c)  BY <1>3, ComesStored
<1>5. Fail \/ Going
  BY <1>1, <1>3, WorkLinks DEF Worked, Going
<1>6. ASSUME NEW s, Continue(s)  PROVE Going
  <2>1. op' = op  BY <1>6 DEF Continue
  <2> QED  BY <1>1, <1>3, <1>5, <2>1, FailsOrGoes
<1>7. ASSUME NEW do \in DOMAIN After, Doing(do), Going  PROVE AtStep(Sending, c)'
  <2>1. Open(Head(todo)) /\ Head(todo).do = do  BY <1>3, <1>7 DEF Open, Doing
  <2>2. todo' # <<>> /\ Head(todo').do \in After[do] /\ Head(todo').x = c
    BY <1>7, <2>1, ComesNext
  <2>3. After[do] \subseteq Sending  BY <1>7 DEF After, Sending
  <2> QED  BY <2>2, <2>3 DEF AtStep
<1>8. ASSUME NEW do \in AtRest, Doing(do)  PROVE docker[c] # "running"
  BY <1>3, <1>8 DEF HeadOK, AtStep, Doing
<1>9. ASSUME NEW value, Send(value)  PROVE prop'[c] = value
  BY <1>1, <1>9 DEF Send
<1>10. ASSUME prop'[c] # "Running", docker'[c] # "running"  PROVE Agrees(c)'
  BY <1>10 DEF Agrees
<1>11. CASE Publish
  <2>1. HasRow(c)  BY <1>1, <1>4 DEF HasRow
  <2>2. Continue(<<>>)  BY <1>11, <2>1 DEF Publish
  <2>3. Doing("publish")  BY <1>11 DEF Publish
  <2> QED  BY <1>6, <1>7, <2>2, <2>3 DEF After
<1>12. CASE Fetch
  BY <1>4, <1>12, SeenAgrees DEF Fetch, dockerVars
<1>13. CASE Up \/ StopLook \/ RestartLook \/ Down
  BY <1>4, <1>13, SeenAgrees DEF Up, StopLook, RestartLook, Down, Look, dockerVars
<1>14. CASE Create
  <2>1. ~ AtStep(Sending, c)  BY <1>14 DEF Create, Doing, AtStep, Sending
  <2>2. Agrees(c) \/ Due(c)  BY <1>2, <1>4, <2>1 DEF SaidOK
  <2>3. CASE Due(c)  BY <1>2, <1>3, <1>4, <2>3, DueStays
  <2>4. CASE Agrees(c)
    <3>1. UNCHANGED prop  BY <1>14 DEF Create
    <3>2. docker'[c] = "running" <=> docker[c] = "running"
      BY <1>1, <1>14 DEF Create, dockerVars
    <3> QED  BY <2>4, <3>1, <3>2 DEF Agrees
  <2> QED  BY <2>2, <2>3, <2>4
<1>15. CASE Created
  <2>1. Doing("created") /\ Send("Created") /\ UNCHANGED docker
    BY <1>15 DEF Created, Record, dockerVars
  <2> QED  BY <1>8, <1>9, <1>10, <2>1 DEF AtRest
<1>16. CASE Start
  <2>1. CASE Exists(c)
    BY <1>6, <1>7, <1>16, <2>1 DEF Start, After
  <2>2. CASE ~ Exists(c)
    <3>1. Send("Received") /\ UNCHANGED docker  BY <1>16, <2>2 DEF Start, MarkMissing
    <3>2. docker[c] # "running"  BY <2>2 DEF Exists
    <3> QED  BY <1>9, <1>10, <3>1, <3>2
  <2> QED  BY <2>1, <2>2
<1>17. CASE Started
  <2>1. Doing("started") /\ Send("Running") /\ UNCHANGED docker
    BY <1>17 DEF Started, Record, dockerVars
  <2>2. docker[c] = "running" \/ Due(c)
    BY <1>2, <1>3, <2>1 DEF HeadOK, AtStep, Doing
  <2>3. CASE Due(c)  BY <1>2, <1>3, <1>4, <2>3, DueStays
  <2>4. CASE docker[c] = "running"  BY <1>9, <2>1, <2>4 DEF Agrees
  <2> QED  BY <2>2, <2>3, <2>4
<1>18. CASE Halt
  <2>1. docker'[c] # "running" /\ Doing("halt")  BY <1>1, <1>18 DEF Halt
  <2>2. CASE Exists(c) \/ op.kind = "delete"
    BY <1>6, <1>7, <1>18, <2>1, <2>2 DEF Halt, After
  <2>3. CASE ~ (Exists(c) \/ op.kind = "delete")
    BY <1>9, <1>10, <1>18, <2>1, <2>3 DEF Halt, MarkMissing
  <2> QED  BY <2>2, <2>3
<1>19. CASE Stopped
  <2>1. Doing("stopped") /\ Send("Stopped") /\ UNCHANGED docker
    BY <1>19 DEF Stopped, Record, dockerVars
  <2> QED  BY <1>8, <1>9, <1>10, <2>1 DEF AtRest
<1>20. CASE RemoveObject
  <2>1. Doing("remove")  BY <1>20 DEF RemoveObject
  <2>2. docker[c] # "running"  BY <1>8, <2>1 DEF AtRest
  <2>3. Continue(<<>>)  BY <1>20, <2>2 DEF RemoveObject
  <2> QED  BY <1>6, <1>7, <2>1, <2>3 DEF After
<1>21. CASE Unset
  <2>1. Doing("unset") /\ Send("unset") /\ UNCHANGED docker
    BY <1>21 DEF Unset, dockerVars
  <2> QED  BY <1>8, <1>9, <1>10, <2>1 DEF AtRest
<1>22. CASE Drop
  <2>1. HasRow(c)  BY <1>1, <1>4 DEF HasRow
  <2>2. db' = Deletion(c)  BY <1>1, <1>22, <2>1 DEF Drop, Deletion
  <2>3. db \in Tables  BY DEF Typed, TypeOK
  <2>4. ~ HasRow(c)'  BY <1>1, <2>2, <2>3, DeletionFacts DEF Lost
  <2> QED  BY <1>1, <2>4 DEF HasRow
<1>23. CASE Report
  <2>1. Head(todo).do \in {"reportStarted", "reportStopped"}
    BY <1>23 DEF Report, Doing
  <2> QED  BY <1>3, <2>1 DEF Ordered, Reports
<1> QED
  BY <1>11, <1>12, <1>13, <1>14, <1>15, <1>16, <1>17, <1>18, <1>19, <1>20, <1>21, <1>22,
     <1>23 DEF Work

LEMMA OthersWait ==
  ASSUME Typed, [Next]_vars, todo # <<>>, ~ Work, ~ CallFails, ~ Crash, ~ Disconnected
  PROVE  Apart
<1>1. op # Idle  BY DEF Typed, OpOK
<1>2. ~ TakeEvent /\ ~ NextPhase /\ ~ Finish /\ ~ \E x \in batch : TakeLoaded(x)
  BY <1>1 DEF TakeEvent, NextPhase, Finish, TakeLoaded
<1>3. ASSUME NEW e, NEW possible, NEW tables, Persist(e, possible, tables)  PROVE Apart
  BY <1>3 DEF Persist, Apart
<1>4. CASE \/ \E x \in Objects : ReceiveCreation(x)
           \/ \E kind \in DOMAIN CommandStatus, d \in Deployments : ReceiveCommand(kind, d)
           \/ \E from, to \in Deployments : ReceiveUpdate(from, to)
  BY <1>3, <1>4 DEF ReceiveCreation, ReceiveCommand, ReceiveUpdate
<1>5. CASE SendEvent \/ (\E c \in Containers : ChangeOutside(c) \/ Listen(c))
           \/ Rest \/ UNCHANGED vars
  BY <1>5 DEF SendEvent, ChangeOutside, Listen, Rest, vars, Apart
<1> QED  BY <1>2, <1>4, <1>5 DEF Next, ServiceStep, Work

LEMMA SaidNext ==
  ASSUME Typed, Typed', Worked, Ordered, Filed, StoreStep, FoundOK, HeadOK, UpOK, SaidOK,
         [Next]_vars
  PROVE  SaidOK'
<1> SUFFICES ASSUME faults' = 0, crashes' = 0, NEW c \in Containers, IsStored(c)'
             PROVE  Agrees(c)' \/ Due(c)' \/ AtStep(Sending, c)'
  BY DEF SaidOK
<1>1. faults = 0 /\ crashes = 0 /\ ~ CallFails /\ ~ Crash /\ phase # "down"
  BY NothingFailed DEF UpOK
<1>2. CASE Work /\ Subject = c  BY <1>2, SaidOfSubject
<1>3. CASE ~ (Work /\ Subject = c)
  <2>1. c \in Objects /\ prop'[c] = prop[c]  BY <1>3, PropChanges DEF Objects
  <2>2. docker[c] # "running" => docker'[c] # "running"
    BY <1>3, StartsRunning DEF Work
  <2>3. docker[c] = "running" => docker'[c] = "running" \/ c \in noticed'
    BY <1>3, StopsRunning DEF Work
  <2>4. CASE ~ IsStored(c)
    <3>1. c \in unborn  BY <2>4, ComesStored
    <3>2. prop[c] # "Running" /\ docker[c] # "running"
      BY <2>4, <3>1 DEF FoundOK, FindContainer, Present
    <3> QED  BY <2>1, <2>2, <3>2 DEF Agrees
  <2>5. CASE IsStored(c)
    <3>1. Agrees(c) \/ Due(c) \/ AtStep(Sending, c)  BY <1>1, <2>5 DEF SaidOK
    <3>2. CASE Agrees(c)
      BY <2>1, <2>2, <2>3, <3>2 DEF Agrees, Due
    <3>3. CASE Due(c)
      <4>1. CASE TakeEvent
        <5>1. Due(c)' \/ AtStep({"fetch"}, c)'  BY <3>3, <4>1, DueTaken
        <5> QED  BY <5>1 DEF AtStep, Sending
      <4> QED  BY <1>1, <2>5, <3>3, <4>1, DueStays
    <3>4. CASE AtStep(Sending, c)
      <4>1. todo # <<>> /\ Subject = c  BY <3>4 DEF AtStep, Subject
      <4>2. ~ Work /\ ~ Disconnected  BY <1>1, <1>3, <4>1 DEF Disconnected
      <4>3. Apart  BY <1>1, <4>1, <4>2, OthersWait
      <4> QED  BY <3>4, <4>3 DEF Apart, serviceVars, AtStep
    <3> QED  BY <3>1, <3>2, <3>3, <3>4
  <2> QED  BY <2>4, <2>5
<1> QED  BY <1>2, <1>3

-----------------------------------------------------------------------------
(* The theorems.                                                           *)

Told == Ordered /\ FoundOK /\ UpOK /\ HeadOK /\ SaidOK

LEMMA ToldInit ==
  ASSUME Init
  PROVE  Told
<1>1. /\ todo = <<>> /\ phase = "boot" /\ unborn = Objects \ Known
      /\ \A c \in Containers : docker[c] = "absent"
      /\ \A c \in Containers : db.cont[c] = IF c \in Known THEN "Published" ELSE "none"
      /\ \A c \in Containers : prop[c] \in {"unset", "Received"}
  <2>1. \A c \in Containers : db.cont[c] = IF c \in Known THEN "Published" ELSE "none"
    BY DEF Init, NoRows
  <2>2. \A c \in Containers : prop[c] = IF c \notin Known THEN "unset" ELSE "Received"
    BY DEF Init, Objects
  <2> QED  BY <2>1, <2>2 DEF Init
<1>2. Fresh(todo)  BY <1>1, NoneFresh
<1>3. Ordered  BY <1>2 DEF Fresh, Ordered
<1>4. FoundOK  BY <1>1, NoSteps DEF FoundOK, Present
<1>5. UpOK  BY <1>1 DEF UpOK, PubPhases
<1>6. HeadOK  BY <1>1 DEF HeadOK, AtStep
<1>7. SaidOK  BY <1>1 DEF SaidOK, Agrees
<1> QED  BY <1>3, <1>4, <1>5, <1>6, <1>7 DEF Told

LEMMA ToldNext ==
  ASSUME Typed, Typed', Kept', Serviced, Serviced', Told, [Next]_vars
  PROVE  Told'
<1>1. Worked /\ Filed /\ Filed' /\ StoreStep  BY StoreSteps DEF Serviced
<1>2. Ordered /\ FoundOK /\ UpOK /\ HeadOK /\ SaidOK  BY DEF Told
<1>3. Ordered'  BY <1>1, <1>2, OrderedNext
<1>4. FoundOK'  BY <1>1, <1>2, FoundNext
<1>5. UpOK'  BY <1>1, <1>2, UpNext
<1>6. HeadOK'  BY <1>1, <1>2, HeadNext
<1>7. SaidOK'  BY <1>1, <1>2, SaidNext
<1> QED  BY <1>3, <1>4, <1>5, <1>6, <1>7 DEF Told

(* What is left to do of a container comes in order: a call to Docker, then*)
(* the property that records it (Container::create, start, stop, delete);  *)
(* and what was created or started has its row, with nothing missing.      *)
THEOREM ToldAlways == Spec => []Told
<1>1. Init => Told  BY ToldInit
<1>2. Typed /\ Typed' /\ Kept' /\ Serviced /\ Serviced' /\ Told /\ [Next]_vars => Told'
  BY ToldNext
<1> QED  BY <1>1, <1>2, Wellformed, OwnershipKept, ServicedAlways, PTL DEF Spec

(* PropertyIsTrue: the property of a container agrees with Docker when the *)
(* service has nothing left to do and nothing has failed, even if the      *)
(* container exits or is removed behind its back (Resource::fetch,         *)
(* handle_container), for any containers and deployments.                  *)
THEOREM PropertyCorrect == Spec => []PropertyIsTrue
<1>1. Typed /\ Told => PropertyIsTrue
  <2> SUFFICES ASSUME Typed, Told, Settled, faults = 0, crashes = 0,
                      NEW c \in Containers, IsStored(c)
               PROVE  prop[c] = "Running" <=> docker[c] = "running"
    BY DEF PropertyIsTrue
  <2>1. Agrees(c) \/ Due(c) \/ AtStep(Sending, c)  BY DEF Told, SaidOK
  <2>2. queue = <<>> /\ noticed = {} /\ todo = <<>>
    BY DEF Settled, Typed, OpOK
  <2>3. DOMAIN queue = {}
    <3>1. Len(queue) = 0 /\ DOMAIN queue = 1..Len(queue)  BY <2>2
    <3> QED  BY <3>1
  <2>4. ~ Due(c) /\ ~ AtStep(Sending, c)  BY <2>2, <2>3 DEF Due, AtStep
  <2> QED  BY <2>1, <2>4 DEF Agrees
<1> QED  BY <1>1, Wellformed, ToldAlways, PTL

=============================================================================
