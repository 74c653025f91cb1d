-------------------------- MODULE ForwarderProofs --------------------------
(***************************************************************************)
(* Proofs about Forwarder, for every value of its constants: any number of *)
(* sessions and tokens, requests, capacities and failures.                 *)
(***************************************************************************)
EXTENDS Forwarder, FiniteSetTheorems, TLAPS

-----------------------------------------------------------------------------
(* Type correctness.                                                       *)

Says == {"response", "other", None}

(* What is written to a connection has its type.                           *)
LEMMA BecomesType ==
  ASSUME TypeOK, NEW s \in Sessions, NEW id \in Ids,
         NEW at \in {"none", "run", "open", "closing", "done"}, NEW says \in Says,
         Becomes(s, id, at, says)
  PROVE  cons' \in [Sessions -> [Ids -> Connections]]
<1> DEFINE new == [at |-> at, says |-> says,
                   inq |-> IF at \in {"open", "closing"} THEN cons[s][id].inq ELSE 0]
<1>1. new \in Connections
  <2>1. cons[s][id] \in Connections  BY DEF TypeOK
  <2>2. cons[s][id].inq \in 0..ConCapacity  BY <2>1 DEF Connections
  <2>3. 0 \in 0..ConCapacity  BY ForwarderAssumption
  <2>4. new.inq \in 0..ConCapacity  BY <2>2, <2>3
  <2> QED  BY <2>4 DEF Connections, Says
<1>2. cons' = [cons EXCEPT ![s][id] = new]  BY DEF Becomes, TypeOK
<1> HIDE DEF new
<1> QED  BY <1>1, <1>2 DEF TypeOK

(* Goto keeps the types of the session and of its manager.                 *)
LEMMA GotoType ==
  ASSUME TypeOK, NEW s \in Sessions, NEW place \in Places, Goto(s, place)
  PROVE  /\ pc' \in [Sessions -> Places]
         /\ waits' \in [Sessions -> Ids \cup {None}]
         /\ out' \in [Sessions -> Seq(Messages)]
         /\ \A r \in Sessions : Len(out'[r]) <= WsCapacity
         /\ cons' \in [Sessions -> [Ids -> Connections]]
         /\ owed' \in [Sessions -> [Ids -> Int]]
<1>1. pc' \in [Sessions -> Places]  BY DEF Goto, TypeOK
<1>2. CASE place = "unset"
  <2>1. NoConnection \in Connections
    BY ForwarderAssumption DEF NoConnection, Connections
  <2>2. NoConnections \in [Ids -> Connections]  BY <2>1 DEF NoConnections
  <2>3. NothingOwed \in [Ids -> Int]  BY DEF NothingOwed
  <2>4. /\ waits' = [waits EXCEPT ![s] = None]
        /\ out' = [out EXCEPT ![s] = <<>>]
        /\ cons' = [cons EXCEPT ![s] = NoConnections]
        /\ owed' = [owed EXCEPT ![s] = NothingOwed]
    BY <1>2 DEF Goto
  <2>5. /\ cons' \in [Sessions -> [Ids -> Connections]]
        /\ owed' \in [Sessions -> [Ids -> Int]]
        /\ waits' \in [Sessions -> Ids \cup {None}]
    BY <2>2, <2>3, <2>4 DEF TypeOK
  <2>6. out' \in [Sessions -> Seq(Messages)]
    BY <2>4 DEF TypeOK
  <2>7. \A r \in Sessions : Len(out'[r]) <= WsCapacity
    BY <2>4, ForwarderAssumption DEF TypeOK
  <2> QED  BY <1>1, <2>5, <2>6, <2>7
<1>3. CASE place # "unset"
  BY <1>1, <1>3 DEF Goto, managerVars, TypeOK
<1> QED  BY <1>2, <1>3

LEMMA FaultType ==
  ASSUME TypeOK, Fault
  PROVE  faults' \in 0..MaxFaults
BY ForwarderAssumption DEF Fault, TypeOK

(* SessionState::send.                                                     *)
LEMMA ReportType ==
  ASSUME TypeOK, NEW s \in Sessions, NEW status \in Status,
         NEW next \in Places, NEW otherwise \in Places,
         Report(s, status, next, otherwise),
         UNCHANGED <<phase, cancelled, received, data>>
  PROVE  TypeOK'
<1>1. TokenOf[s] \in Tokens  BY DEF Tokens
<1>2. CASE /\ prop' = [prop EXCEPT ![TokenOf[s]] = status]
           /\ stale' = stale \ {TokenOf[s]}
           /\ Goto(s, next)
           /\ UNCHANGED faults
  <2>1. prop' \in [Tokens -> Status] /\ stale' \subseteq Tokens
    BY <1>1, <1>2 DEF TypeOK
  <2> QED  BY <1>2, <2>1, GotoType DEF TypeOK
<1>3. CASE /\ Fault
           /\ stale' = stale \cup {TokenOf[s]}
           /\ Goto(s, otherwise)
           /\ UNCHANGED prop
  <2>1. prop' \in [Tokens -> Status] /\ stale' \subseteq Tokens
    BY <1>1, <1>3 DEF TypeOK
  <2> QED  BY <1>3, <2>1, GotoType, FaultType DEF TypeOK
<1> QED  BY <1>2, <1>3 DEF Report

(* A frame goes to a connection, or the manager waits.                     *)
LEMMA TakeFrameType ==
  ASSUME TypeOK, NEW s \in Sessions, NEW id \in Ids, TakeFrame(s, id)
  PROVE  /\ waits' \in [Sessions -> Ids \cup {None}]
         /\ cons' \in [Sessions -> [Ids -> Connections]]
<1>1. waits' \in [Sessions -> Ids \cup {None}]
  BY DEF TakeFrame, GoesOn, WaitsFor, TypeOK
<1>2. CASE UNCHANGED cons  BY <1>1, <1>2 DEF TypeOK
<1>3. CASE cons[s][id].inq < ConCapacity /\ PutFrame(s, id)
  <2> DEFINE new == [cons[s][id] EXCEPT !.inq = @ + 1]
  <2>1. cons[s][id] \in Connections  BY DEF TypeOK
  <2>2. cons[s][id].inq + 1 \in 0..ConCapacity
    BY <1>3, <2>1, ForwarderAssumption DEF Connections
  <2>3. new \in Connections  BY <2>1, <2>2 DEF Connections
  <2>4. cons' = [cons EXCEPT ![s][id] = new]  BY <1>3 DEF PutFrame, TypeOK
  <2> HIDE DEF new
  <2> QED  BY <1>1, <2>3, <2>4 DEF TypeOK
<1> QED  BY <1>2, <1>3 DEF TakeFrame

(* TypeOK: the channels stay within their capacities, also while a task    *)
(* waits for room (Connection::task, ConnectionHandle::send).              *)
THEOREM TypeCorrect == Spec => []TypeOK
<1>1. Init => TypeOK
  <2> SUFFICES ASSUME Init PROVE TypeOK  OBVIOUS
  <2>1. NoConnection \in Connections
    BY ForwarderAssumption DEF NoConnection, Connections
  <2>2. cons \in [Sessions -> [Ids -> Connections]]
    BY <2>1 DEF Init, NoConnections
  <2>3. owed \in [Sessions -> [Ids -> Int]]
    BY DEF Init, NothingOwed
  <2>4. /\ out \in [Sessions -> Seq(Messages)]
        /\ \A s \in Sessions : Len(out[s]) <= WsCapacity
    BY ForwarderAssumption DEF Init, NoMessages
  <2>5. /\ pc \in [Sessions -> Places]
        /\ waits \in [Sessions -> Ids \cup {None}]
        /\ prop \in [Tokens -> Status]
    BY DEF Init, NoTasks, NotWaiting, Places, Status
  <2>6. cancelled \in BOOLEAN /\ phase \in {"init", "loop", "off"} /\ stale \subseteq Tokens
    BY Zenon DEF Init
  <2>7. received \in 0..MaxReceived /\ data \in 0..MaxData /\ faults \in 0..MaxFaults
    BY ForwarderAssumption DEF Init
  <2> QED  BY <2>2, <2>3, <2>4, <2>5, <2>6, <2>7 DEF TypeOK
<1>2. TypeOK /\ [Next]_vars => TypeOK'
  <2> SUFFICES ASSUME TypeOK, [Next]_vars PROVE TypeOK'  OBVIOUS
  <2>1. CASE UNCHANGED vars
    BY <2>1 DEF vars, managerVars, boundVars, TypeOK
  <2>2. CASE UnsetAll
    <3>1. phase' \in {"init", "loop", "off"} /\ stale' \subseteq Tokens
      BY <2>2 DEF UnsetAll
    <3>2. faults' \in 0..MaxFaults
      BY <2>2, FaultType DEF UnsetAll, TypeOK
    <3>3. prop' \in [Tokens -> Status]
      BY <2>2 DEF UnsetAll, TypeOK, Status
    <3> QED  BY <2>2, <3>1, <3>2, <3>3 DEF UnsetAll, managerVars, TypeOK
  <2>3. CASE Cancel
    <3>1. cancelled' \in BOOLEAN  BY Zenon, <2>3 DEF Cancel
    <3> QED  BY <2>3, <3>1 DEF Cancel, managerVars, boundVars, TypeOK
  <2>4. CASE Restart
    <3>1. NoConnection \in Connections
      BY ForwarderAssumption DEF NoConnection, Connections
    <3>2. cons' \in [Sessions -> [Ids -> Connections]]
      BY <2>4, <3>1 DEF Restart, NoConnections
    <3>3. owed' \in [Sessions -> [Ids -> Int]]
      BY <2>4 DEF Restart, NothingOwed
    <3>4. /\ out' \in [Sessions -> Seq(Messages)]
          /\ \A s \in Sessions : Len(out'[s]) <= WsCapacity
      BY <2>4, ForwarderAssumption DEF Restart, NoMessages
    <3>5. /\ pc' \in [Sessions -> Places]
          /\ waits' \in [Sessions -> Ids \cup {None}]
      BY <2>4 DEF Restart, NoTasks, NotWaiting, Places
    <3>6. cancelled' \in BOOLEAN /\ phase' \in {"init", "loop", "off"}
      BY Zenon, <2>4 DEF Restart
    <3> QED
      BY <2>4, <3>2, <3>3, <3>4, <3>5, <3>6 DEF Restart, boundVars, TypeOK
  <2>5. ASSUME NEW s \in Sessions, RequestSession(s) PROVE TypeOK'
    <3>1. pc' \in [Sessions -> Places]
      BY <2>5 DEF RequestSession, TypeOK, Places
    <3> QED
      BY <2>5, <3>1 DEF RequestSession, managerVars, boundVars, TypeOK
  <2>6. ASSUME NEW s \in Sessions, SessionStep(s) PROVE TypeOK'
    <3>0. UNCHANGED <<phase, cancelled, received, data>>
      BY <2>6 DEF SessionStep
    <3>1. CASE HandleSession(s)
      <4>1. CASE Report(s, "Connecting", "connect", "none")
        BY <3>0, <4>1, ReportType DEF Status, Places
      <4>2. CASE BackOff(s)
        <5>1. PICK place \in {"connected", "unset"} : Goto(s, place)
          BY <4>2 DEF BackOff
        <5>2. place \in Places  BY DEF Places
        <5> QED  BY <3>0, <4>2, <5>1, <5>2, GotoType DEF BackOff, TypeOK
      <4>3. CASE Report(s, "Connected", "serve", "unset")
        BY <3>0, <4>3, ReportType DEF Status, Places
      <4>4. CASE Report(s, "Connecting", "reconnect", "unset")
        BY <3>0, <4>4, ReportType DEF Status, Places
      <4>5. CASE Report(s, "unset", "ending", "ending")
        BY <3>0, <4>5, ReportType DEF Status, Places
      <4> QED  BY <3>1, <4>1, <4>2, <4>3, <4>4, <4>5 DEF HandleSession
    <3>2. CASE Finished(s)
      <4>1. "none" \in Places  BY DEF Places
      <4> QED  BY <3>0, <3>2, <4>1, GotoType DEF Finished, TypeOK
    <3>3. CASE HandleFrame(s)
      <4>1. waits[s] \in Ids  BY <3>3 DEF HandleFrame, TypeOK
      <4>2. TakeFrame(s, waits[s])  BY <3>3 DEF HandleFrame
      <4> QED
        BY <3>0, <3>3, <4>1, <4>2, TakeFrameType DEF HandleFrame, TypeOK
    <3>4. CASE SendToWs(s)
      <4>1. out[s] \in Seq(Messages) /\ out[s] # <<>> /\ Len(out[s]) <= WsCapacity
        BY <3>4 DEF SendToWs, TypeOK
      <4>2. /\ Tail(out[s]) \in Seq(Messages) /\ Len(Tail(out[s])) <= WsCapacity
            /\ Head(out[s]) \in Messages
        BY <4>1, ForwarderAssumption
      <4>3. /\ out' \in [Sessions -> Seq(Messages)]
            /\ \A r \in Sessions : Len(out'[r]) <= WsCapacity
        BY <3>4, <4>2 DEF SendToWs, TypeOK
      <4>4. owed' \in [Sessions -> [Ids -> Int]]
        BY <3>4, <4>2 DEF SendToWs, TypeOK, Messages
      <4>5. pc' \in [Sessions -> Places] /\ faults' \in 0..MaxFaults
        BY <3>4, FaultType DEF SendToWs, Lose, Places, TypeOK
      <4> QED  BY <3>0, <3>4, <4>3, <4>4, <4>5 DEF SendToWs, TypeOK
    <3>5. CASE StopServing(s)
      <4>1. "unset" \in Places  BY DEF Places
      <4> QED  BY <3>0, <3>5, <4>1, GotoType DEF StopServing, TypeOK
    <3> QED  BY <2>6, <3>1, <3>2, <3>3, <3>4, <3>5 DEF SessionStep
  <2>7. ASSUME NEW s \in Sessions, Disconnect(s) PROVE TypeOK'
    <3>0. UNCHANGED <<phase, cancelled, prop, stale, received, data>>
      BY <2>7 DEF Disconnect
    <3>1. CASE Goto(s, "unset") /\ UNCHANGED faults
      <4>1. "unset" \in Places  BY DEF Places
      <4> QED  BY <3>0, <3>1, <4>1, GotoType DEF TypeOK
    <3>2. CASE Lose(s) /\ UNCHANGED managerVars
      <4>1. pc' \in [Sessions -> Places] /\ faults' \in 0..MaxFaults
        BY <3>2, FaultType DEF Lose, Places, TypeOK
      <4> QED  BY <3>0, <3>2, <4>1 DEF managerVars, TypeOK
    <3> QED  BY <2>7, <3>1, <3>2 DEF Disconnect
  <2>8. ASSUME NEW s \in Sessions, NEW id \in Ids, ReceiveRequest(s, id)
        PROVE  TypeOK'
    <3>1. received' \in 0..MaxReceived
      BY <2>8, ForwarderAssumption DEF ReceiveRequest, TypeOK
    <3>2. [NoConnection EXCEPT !.at = "run"] \in Connections
      BY ForwarderAssumption DEF NoConnection, Connections
    <3>3. CASE UNCHANGED <<cons, owed>>
      BY <2>8, <3>1, <3>3 DEF ReceiveRequest, TypeOK
    <3>4. CASE /\ cons' = [cons EXCEPT ![s][id] = [NoConnection EXCEPT !.at = "run"]]
               /\ owed' = [owed EXCEPT ![s][id] = @ + 1]
      <4> DEFINE new == [NoConnection EXCEPT !.at = "run"]
      <4>1. cons' = [cons EXCEPT ![s][id] = new]  BY <3>4
      <4> HIDE DEF new
      <4>2. cons' \in [Sessions -> [Ids -> Connections]]
        BY <3>2, <4>1 DEF TypeOK, new
      <4>3. owed' \in [Sessions -> [Ids -> Int]]
        BY <3>4 DEF TypeOK
      <4> QED  BY <2>8, <3>1, <4>2, <4>3 DEF ReceiveRequest, TypeOK
    <3> QED  BY <2>8, <3>3, <3>4 DEF ReceiveRequest
  <2>9. ASSUME NEW s \in Sessions, NEW id \in Ids, ReceiveFrame(s, id)
        PROVE  TypeOK'
    <3>1. received' \in 0..MaxReceived
      BY <2>9, ForwarderAssumption DEF ReceiveFrame, TypeOK
    <3> QED  BY <2>9, <3>1, TakeFrameType DEF ReceiveFrame, TypeOK
  <2>10. ASSUME NEW s \in Sessions, NEW id \in Ids, ConnectionStep(s, id)
         PROVE  TypeOK'
    <3>0. UNCHANGED <<phase, cancelled, pc, prop, stale, waits, owed, received, data, faults>>
      BY <2>10 DEF ConnectionStep, boundVars
    <3>1. cons[s][id] \in Connections  BY DEF TypeOK
    <3>2. CASE Say(s, id)
      <4>1. cons' \in [Sessions -> [Ids -> Connections]]
        BY <3>1, <3>2, BecomesType DEF Say, Connections, Says
      <4>2. [id |-> id, what |-> cons[s][id].says] \in Messages
        BY <3>1, <3>2 DEF Say, Connections, Messages
      <4>3. /\ out' \in [Sessions -> Seq(Messages)]
            /\ \A r \in Sessions : Len(out'[r]) <= WsCapacity
        BY <3>2, <4>2, ForwarderAssumption DEF Say, TypeOK
      <4> QED  BY <3>0, <4>1, <4>3 DEF TypeOK
    <3>3. CASE UNCHANGED out /\ cons' \in [Sessions -> [Ids -> Connections]]
      BY <3>0, <3>3 DEF TypeOK
    <3>4. CASE Answer(s, id)
      BY <3>3, <3>4, BecomesType DEF Answer, Says
    <3>5. CASE Build(s, id)
      BY <3>3, <3>5, BecomesType DEF Build, Says
    <3>6. CASE End(s, id)
      BY <3>3, <3>6, BecomesType DEF End, Says
    <3>7. CASE Write(s, id)
      <4>1. CASE Becomes(s, id, "done", "other")
        BY <3>3, <3>7, <4>1, BecomesType DEF Write, Says
      <4>2. CASE cons' = [cons EXCEPT ![s][id].inq = @ - 1]
        <5> DEFINE new == [cons[s][id] EXCEPT !.inq = @ - 1]
        <5>1. cons[s][id].inq - 1 \in 0..ConCapacity
          BY <3>1, <3>7, ForwarderAssumption DEF Write, Connections
        <5>2. new \in Connections  BY <3>1, <5>1 DEF Connections
        <5>3. cons' = [cons EXCEPT ![s][id] = new]  BY <4>2 DEF TypeOK
        <5> HIDE DEF new
        <5>4. cons' \in [Sessions -> [Ids -> Connections]]
          BY <5>2, <5>3 DEF TypeOK
        <5> QED  BY <3>3, <3>7, <5>4 DEF Write
      <4> QED  BY <3>7, <4>1, <4>2 DEF Write
    <3> QED
      BY <2>10, <3>2, <3>4, <3>5, <3>6, <3>7 DEF ConnectionStep
  <2>11. ASSUME NEW s \in Sessions, NEW id \in Ids, Read(s, id)
         PROVE  TypeOK'
    <3>1. cons' \in [Sessions -> [Ids -> Connections]]
      BY <2>11, BecomesType DEF Read, Says
    <3>2. data' \in 0..MaxData
      BY <2>11, ForwarderAssumption DEF Read, TypeOK
    <3> QED  BY <2>11, <3>1, <3>2 DEF Read, TypeOK
  <2> QED
    BY <2>1, <2>2, <2>3, <2>4, <2>5, <2>6, <2>7, <2>8, <2>9, <2>10, <2>11 DEF Next
<1> QED  BY <1>1, <1>2, PTL DEF Spec

-----------------------------------------------------------------------------
(* The properties of the sessions.  A property that is shown is some       *)
(* session's to unset.                                                     *)

Visible == {"connect", "connected", "serve", "lost", "reconnect", "unset"}
Open == {"serve", "lost", "unset"}

ShownBySome ==
    \A t \in Tokens :
        phase = "loop" /\ t \notin stale /\ prop[t] # "unset" =>
            \E s \in Sessions : TokenOf[s] = t /\ pc[s] \in Visible

SessionInv == TypeOK /\ ShownBySome /\ ConnectedIsOpen

(* A session that goes on without a word to Astarte.                       *)
LEMMA Moves ==
  ASSUME SessionInv, NEW s \in Sessions, NEW place,
         pc' = [pc EXCEPT ![s] = place],
         UNCHANGED <<phase, prop, stale>>,
         pc[s] \in Visible => place \in Visible,
         pc[s] \in Open => place \in Open
  PROVE  ShownBySome' /\ ConnectedIsOpen'
<1> USE DEF SessionInv
<1>1. \A r \in Sessions : pc[r] \in Visible => pc'[r] \in Visible
  BY DEF TypeOK
<1>2. \A r \in Sessions : pc[r] \in Open => pc'[r] \in Open
  BY DEF TypeOK
<1>3. ShownBySome'  BY <1>1 DEF ShownBySome
<1>4. ConnectedIsOpen'  BY <1>2 DEF ConnectedIsOpen, Open
<1> QED  BY <1>3, <1>4

(* A session that reports.                                                 *)
LEMMA Reports ==
  ASSUME SessionInv, NEW s \in Sessions, NEW status \in Status,
         NEW next, NEW otherwise,
         Report(s, status, next, otherwise), UNCHANGED phase,
         status # "unset" => next \in Visible,
         status = "Connected" => next \in Open
  PROVE  ShownBySome' /\ ConnectedIsOpen'
<1> USE DEF SessionInv
<1>1. TokenOf[s] \in Tokens  BY DEF Tokens
<1>2. \A r \in Sessions : TokenOf[r] # TokenOf[s] => pc'[r] = pc[r]
  BY DEF Report, Goto, TypeOK
<1>3. \A t \in Tokens : t # TokenOf[s] =>
        prop'[t] = prop[t] /\ (t \in stale' <=> t \in stale)
  BY <1>1 DEF Report, TypeOK
<1>4. CASE /\ prop' = [prop EXCEPT ![TokenOf[s]] = status]
           /\ stale' = stale \ {TokenOf[s]}
           /\ Goto(s, next)
  <2>1. prop'[TokenOf[s]] = status /\ pc'[s] = next
    BY <1>1, <1>4 DEF Goto, TypeOK
  <2>2. ShownBySome'
    BY <1>2, <1>3, <2>1 DEF ShownBySome
  <2>3. ConnectedIsOpen'
    BY <1>2, <1>3, <2>1 DEF ConnectedIsOpen, Open
  <2> QED  BY <2>2, <2>3
<1>5. CASE stale' = stale \cup {TokenOf[s]}
  <2>1. ShownBySome'
    BY <1>2, <1>3, <1>5 DEF ShownBySome
  <2>2. ConnectedIsOpen'
    BY <1>2, <1>3, <1>5 DEF ConnectedIsOpen
  <2> QED  BY <2>1, <2>2
<1> QED  BY <1>4, <1>5 DEF Report

(* Everything in which SessionInv is invariant.                            *)
THEOREM SessionCorrect == Spec => []SessionInv
<1>1. Init => ShownBySome /\ ConnectedIsOpen
  BY DEF Init, ShownBySome, ConnectedIsOpen
<1>2. SessionInv /\ [Next]_vars => ShownBySome' /\ ConnectedIsOpen'
  <2> SUFFICES ASSUME SessionInv, [Next]_vars
               PROVE  ShownBySome' /\ ConnectedIsOpen'
    OBVIOUS
  <2>0. CASE UNCHANGED <<phase, prop, stale, pc>>
    BY <2>0 DEF SessionInv, ShownBySome, ConnectedIsOpen
  <2>1. CASE UNCHANGED vars
    BY <2>0, <2>1 DEF vars
  <2>2. CASE UnsetAll
    <3>1. \A t \in Tokens : phase' = "loop" => prop'[t] = "unset"
      BY <2>2 DEF UnsetAll
    <3> QED  BY <3>1 DEF ShownBySome, ConnectedIsOpen
  <2>3. CASE Cancel
    BY <2>0, <2>3 DEF Cancel
  <2>4. CASE Restart
    BY <2>4 DEF Restart, ShownBySome, ConnectedIsOpen
  <2>5. ASSUME NEW s \in Sessions, RequestSession(s)
        PROVE  ShownBySome' /\ ConnectedIsOpen'
    <3>1. pc' = [pc EXCEPT ![s] = "connecting"] /\ pc[s] = "none"
      BY <2>5 DEF RequestSession
    <3> QED  BY <2>5, <3>1, Moves DEF RequestSession, Visible, Open
  <2>6. ASSUME NEW s \in Sessions, SessionStep(s)
        PROVE  ShownBySome' /\ ConnectedIsOpen'
    <3>0. UNCHANGED phase
      BY <2>6 DEF SessionStep
    <3>1. CASE HandleSession(s)
      <4>1. CASE Report(s, "Connecting", "connect", "none")
        BY <3>0, <4>1, Reports DEF Status, Visible
      <4>2. CASE pc[s] \in {"connect", "reconnect"} /\ BackOff(s)
        <5>1. PICK place \in {"connected", "unset"} : Goto(s, place)
          BY <4>2 DEF BackOff
        <5>2. pc' = [pc EXCEPT ![s] = place]  BY <5>1 DEF Goto
        <5>3. place \in Visible /\ pc[s] \notin Open
          BY <4>2 DEF Visible, Open
        <5> QED  BY <3>0, <4>2, <5>2, <5>3, Moves DEF BackOff
      <4>3. CASE Report(s, "Connected", "serve", "unset")
        BY <3>0, <4>3, Reports DEF Status, Visible, Open
      <4>4. CASE Report(s, "Connecting", "reconnect", "unset")
        BY <3>0, <4>4, Reports DEF Status, Visible
      <4>5. CASE Report(s, "unset", "ending", "ending")
        BY <3>0, <4>5, Reports DEF Status
      <4> QED  BY <3>1, <4>1, <4>2, <4>3, <4>4, <4>5 DEF HandleSession
    <3>2. CASE Finished(s)
      <4>1. pc' = [pc EXCEPT ![s] = "none"] /\ pc[s] = "ending"
        BY <3>2 DEF Finished, Goto
      <4> QED  BY <3>0, <3>2, <4>1, Moves DEF Finished, Visible, Open
    <3>3. CASE HandleFrame(s)
      BY <2>0, <3>0, <3>3 DEF HandleFrame
    <3>4. CASE SendToWs(s)
      <4>1. CASE Lose(s)
        <5>1. pc' = [pc EXCEPT ![s] = "lost"]  BY <4>1 DEF Lose
        <5> QED  BY <3>0, <3>4, <5>1, Moves DEF SendToWs, Visible, Open
      <4>2. CASE UNCHANGED pc
        BY <2>0, <3>0, <3>4, <4>2 DEF SendToWs
      <4> QED  BY <3>4, <4>1, <4>2 DEF SendToWs
    <3>5. CASE StopServing(s)
      <4>1. pc' = [pc EXCEPT ![s] = "unset"]
        BY <3>5 DEF StopServing, Goto
      <4> QED  BY <3>0, <3>5, <4>1, Moves DEF StopServing, Visible, Open
    <3> QED  BY <2>6, <3>1, <3>2, <3>3, <3>4, <3>5 DEF SessionStep
  <2>7. ASSUME NEW s \in Sessions, Disconnect(s)
        PROVE  ShownBySome' /\ ConnectedIsOpen'
    <3>1. PICK place \in {"unset", "lost"} : pc' = [pc EXCEPT ![s] = place]
      BY <2>7 DEF Disconnect, Goto, Lose
    <3>2. place \in Visible /\ place \in Open
      BY DEF Visible, Open
    <3> QED  BY <2>7, <3>1, <3>2, Moves DEF Disconnect
  <2>8. ASSUME NEW s \in Sessions, NEW id \in Ids,
               ReceiveRequest(s, id) \/ ReceiveFrame(s, id)
               \/ ConnectionStep(s, id) \/ Read(s, id)
        PROVE  ShownBySome' /\ ConnectedIsOpen'
    BY <2>0, <2>8 DEF ReceiveRequest, ReceiveFrame, ConnectionStep, Read
  <2> QED
    BY <2>1, <2>2, <2>3, <2>4, <2>5, <2>6, <2>7, <2>8 DEF Next
<1> QED  BY <1>1, <1>2, TypeCorrect, PTL DEF Spec, SessionInv

(* ConnectedIsOpen, with any number of sessions on one token (connect).    *)
THEOREM ConnectedIsOpenAlways == Spec => []ConnectedIsOpen
<1>1. SessionInv => ConnectedIsOpen  BY DEF SessionInv
<1> QED  BY <1>1, SessionCorrect, PTL

(* UnsetWhenOver: the last session to end leaves the property unset        *)
(* (handle_session, Actor::init).                                          *)
THEOREM UnsetWhenOverAlways == Spec => []UnsetWhenOver
<1>1. SessionInv => UnsetWhenOver
  BY DEF SessionInv, ShownBySome, UnsetWhenOver, Visible, TypeOK
<1> QED  BY <1>1, SessionCorrect, PTL

-----------------------------------------------------------------------------
(* The answers in a channel.                                               *)

AnswerTo(id) == [id |-> id, what |-> "response"]
At(q, m) == {n \in DOMAIN q : q[n] = m}
Count(q, m) == Cardinality(At(q, m))

LEMMA AtFinite ==
  ASSUME NEW q \in Seq(Messages), NEW m
  PROVE  IsFiniteSet(At(q, m)) /\ Count(q, m) \in Nat
<1>1. IsFiniteSet(1..Len(q))  BY FS_Interval
<1>2. At(q, m) \subseteq 1..Len(q)  BY DEF At
<1>3. IsFiniteSet(At(q, m))  BY <1>1, <1>2, FS_Subset
<1> QED  BY <1>3, FS_CardinalityType DEF Count

LEMMA CountAppend ==
  ASSUME NEW q \in Seq(Messages), NEW x \in Messages, NEW m
  PROVE  Count(Append(q, x), m) = Count(q, m) + (IF x = m THEN 1 ELSE 0)
<1>1. /\ DOMAIN Append(q, x) = 1..(Len(q) + 1)
      /\ \A n \in 1..Len(q) : Append(q, x)[n] = q[n]
      /\ Append(q, x)[Len(q) + 1] = x
      /\ DOMAIN q = 1..Len(q)
      /\ Len(q) \in Nat
  OBVIOUS
<1>2. CASE x = m
  <2>1. At(Append(q, x), m) = At(q, m) \cup {Len(q) + 1}
    BY <1>1, <1>2 DEF At
  <2>2. Len(q) + 1 \notin At(q, m)
    BY <1>1 DEF At
  <2> QED  BY <1>2, <2>1, <2>2, AtFinite, FS_AddElement DEF Count
<1>3. CASE x # m
  <2>1. At(Append(q, x), m) = At(q, m)
    BY <1>1, <1>3 DEF At
  <2> QED  BY <1>3, <2>1, AtFinite DEF Count
<1> QED  BY <1>2, <1>3

LEMMA CountTail ==
  ASSUME NEW q \in Seq(Messages), q # <<>>, NEW m
  PROVE  Count(Tail(q), m) = Count(q, m) - (IF Head(q) = m THEN 1 ELSE 0)
<1> DEFINE rest == {n \in 2..Len(q) : q[n] = m}
           f == [n \in At(Tail(q), m) |-> n + 1]
<1>1. /\ DOMAIN Tail(q) = 1..(Len(q) - 1)
      /\ \A n \in 1..(Len(q) - 1) : Tail(q)[n] = q[n + 1]
      /\ DOMAIN q = 1..Len(q)
      /\ Len(q) \in Nat \ {0}
      /\ Head(q) = q[1]
      /\ Tail(q) \in Seq(Messages)
  OBVIOUS
<1>2. f \in Bijection(At(Tail(q), m), rest)
  <2>1. f \in [At(Tail(q), m) -> rest]
    BY <1>1 DEF At
  <2>2. \A a, b \in At(Tail(q), m) : f[a] = f[b] => a = b
    BY <1>1 DEF At
  <2>3. \A n \in rest : \E a \in At(Tail(q), m) : f[a] = n
    <3> SUFFICES ASSUME NEW n \in rest
                 PROVE  \E a \in At(Tail(q), m) : f[a] = n
      OBVIOUS
    <3>1. n - 1 \in At(Tail(q), m) /\ (n - 1) + 1 = n
      BY <1>1 DEF At
    <3> QED  BY <3>1
  <2>4. DOMAIN f = At(Tail(q), m)
    OBVIOUS
  <2> HIDE DEF f, rest
  <2>5. f \in Injection(At(Tail(q), m), rest)
    BY <2>1, <2>2, <2>4 DEF Injection, IsInjective
  <2>6. f \in Surjection(At(Tail(q), m), rest)
    BY <2>1, <2>3 DEF Surjection
  <2> QED  BY <2>5, <2>6 DEF Bijection
<1>3. IsFiniteSet(rest) /\ Cardinality(rest) = Count(Tail(q), m)
  <2> HIDE DEF f, rest
  <2>1. IsFiniteSet(At(Tail(q), m))  BY <1>1, AtFinite
  <2>2. ExistsBijection(At(Tail(q), m), rest)
    BY <1>2 DEF ExistsBijection
  <2> QED  BY <2>1, <2>2, FS_Bijection DEF Count
<1>4. CASE Head(q) = m
  <2>1. At(q, m) = rest \cup {1} /\ 1 \notin rest
    BY <1>1, <1>4 DEF At
  <2> HIDE DEF rest
  <2>2. Count(q, m) = Cardinality(rest) + 1
    BY <1>3, <2>1, FS_AddElement DEF Count
  <2>3. Cardinality(rest) \in Nat  BY <1>1, <1>3, AtFinite
  <2> QED  BY <1>3, <1>4, <2>2, <2>3
<1>5. CASE Head(q) # m
  <2>1. At(q, m) = rest
    BY <1>1, <1>5 DEF At
  <2> HIDE DEF rest
  <2>2. Cardinality(rest) \in Nat  BY <1>1, <1>3, AtFinite
  <2> QED  BY <1>3, <1>5, <2>1, <2>2 DEF Count
<1> QED  BY <1>4, <1>5

LEMMA CountEmpty == \A m : Count(<<>>, m) = 0
BY FS_EmptySet DEF Count, At

-----------------------------------------------------------------------------
(* Every accepted request has its one answer underway.                     *)

(* The task of the connection is at work on the answer to its request.     *)
Answering(con) ==
    con.says = "response" \/ (con.at = "run" /\ con.says = None)

Owes(s, id) ==
    owed[s][id] = Count(out[s], AnswerTo(id))
                  + (IF Answering(cons[s][id]) THEN 1 ELSE 0)

AllOwe == \A s \in Sessions, id \in Ids : Owes(s, id)

(* A connection that is still built has nothing to say.                    *)
BuiltFirst ==
    \A s \in Sessions, id \in Ids :
        cons[s][id].at = "run" => cons[s][id].says = None

OwedInv == TypeOK /\ AllOwe /\ BuiltFirst

(* What Becomes writes, and that it writes nothing else.                   *)
LEMMA BecomesOnly ==
  ASSUME TypeOK, NEW s \in Sessions, NEW id \in Ids, NEW at, NEW says,
         Becomes(s, id, at, says)
  PROVE  /\ cons'[s][id].at = at /\ cons'[s][id].says = says
         /\ \A r \in Sessions, i \in Ids :
               r # s \/ i # id => cons'[r][i] = cons[r][i]
BY DEF Becomes, TypeOK

(* Steps that touch neither the channel nor what is owed.                  *)
LEMMA SameAnswers ==
  ASSUME OwedInv, UNCHANGED <<out, owed>>,
         \A r \in Sessions, i \in Ids :
            /\ Answering(cons'[r][i]) <=> Answering(cons[r][i])
            /\ cons'[r][i].at = "run" => cons'[r][i].says = None
  PROVE  AllOwe' /\ BuiltFirst'
BY DEF OwedInv, AllOwe, BuiltFirst, Owes

(* When a session ends its manager and everything it owes is gone.         *)
LEMMA GotoAnswers ==
  ASSUME OwedInv, NEW s \in Sessions, NEW place, Goto(s, place)
  PROVE  AllOwe' /\ BuiltFirst'
<1>1. CASE place = "unset"
  <2>1. /\ out' = [out EXCEPT ![s] = <<>>]
        /\ cons' = [cons EXCEPT ![s] = NoConnections]
        /\ owed' = [owed EXCEPT ![s] = NothingOwed]
    BY <1>1 DEF Goto
  <2>2. \A id \in Ids : /\ out'[s] = <<>>
                        /\ cons'[s][id] = NoConnection
                        /\ owed'[s][id] = 0
    BY <2>1 DEF OwedInv, TypeOK, NoConnections, NothingOwed
  <2>3. \A r \in Sessions : r # s => /\ out'[r] = out[r]
                                     /\ cons'[r] = cons[r]
                                     /\ owed'[r] = owed[r]
    BY <2>1 DEF OwedInv, TypeOK
  <2>4. NoConnection.at = "none" /\ NoConnection.says = None
    BY DEF NoConnection
  <2>5. ~Answering(NoConnection)
    BY <2>4, ForwarderAssumption DEF Answering
  <2>6. BuiltFirst'
    BY <2>2, <2>3, <2>4 DEF OwedInv, BuiltFirst
  <2>7. ASSUME NEW r \in Sessions, NEW id \in Ids PROVE Owes(r, id)'
    <3>1. CASE r = s
      BY <2>2, <2>5, <3>1, CountEmpty DEF Owes
    <3>2. CASE r # s
      BY <2>3, <3>2 DEF OwedInv, AllOwe, Owes
    <3> QED  BY <3>1, <3>2
  <2> QED  BY <2>6, <2>7 DEF AllOwe
<1>2. CASE UNCHANGED managerVars
  BY <1>2, SameAnswers DEF managerVars, OwedInv, BuiltFirst
<1> QED  BY <1>1, <1>2 DEF Goto

(* A frame for a connection is no answer.                                  *)
LEMMA TakeFrameAnswers ==
  ASSUME OwedInv, NEW s \in Sessions, NEW id \in Ids,
         TakeFrame(s, id), UNCHANGED <<out, owed>>
  PROVE  AllOwe' /\ BuiltFirst'
<1>1. \A r \in Sessions, i \in Ids :
        cons'[r][i].at = cons[r][i].at /\ cons'[r][i].says = cons[r][i].says
  <2>1. CASE UNCHANGED cons  BY <2>1
  <2>2. CASE PutFrame(s, id)
    <3>1. cons[s][id] \in Connections
      BY DEF OwedInv, TypeOK
    <3> QED  BY <2>2, <3>1 DEF PutFrame, OwedInv, TypeOK, Connections
  <2> QED  BY <2>1, <2>2 DEF TakeFrame
<1> QED  BY <1>1, SameAnswers DEF OwedInv, BuiltFirst, Answering

(* The manager hands a message to the WebSocket.                           *)
LEMMA SendAnswers ==
  ASSUME OwedInv, NEW s \in Sessions, SendToWs(s)
  PROVE  AllOwe' /\ BuiltFirst'
<1> DEFINE x == Head(out[s])
<1>1. out[s] \in Seq(Messages) /\ out[s] # <<>>
  BY DEF SendToWs, OwedInv, TypeOK
<1>2. x \in Messages
  BY <1>1
<1>3. /\ UNCHANGED cons
      /\ out' = [out EXCEPT ![s] = Tail(out[s])]
      /\ owed' = IF x.what = "response"
                 THEN [owed EXCEPT ![s][x.id] = @ - 1] ELSE owed
  BY DEF SendToWs
<1> HIDE DEF x
<1>4. BuiltFirst'
  BY <1>3 DEF OwedInv, BuiltFirst
<1>5. \A id \in Ids : x = AnswerTo(id) <=> x.what = "response" /\ x.id = id
  BY <1>2 DEF AnswerTo, Messages
<1>6. ASSUME NEW r \in Sessions, NEW id \in Ids PROVE Owes(r, id)'
  <2>1. Owes(r, id) /\ owed[r][id] \in Int
    BY DEF OwedInv, AllOwe, TypeOK
  <2>2. CASE r = s
    <3>1. Count(out'[s], AnswerTo(id))
            = Count(out[s], AnswerTo(id)) - (IF x = AnswerTo(id) THEN 1 ELSE 0)
      BY <1>1, <1>3, CountTail DEF x, OwedInv, TypeOK
    <3>2. owed'[s][id] = owed[s][id] - (IF x = AnswerTo(id) THEN 1 ELSE 0)
      BY <1>2, <1>3, <1>5 DEF OwedInv, TypeOK, Messages
    <3>3. Count(out[s], AnswerTo(id)) \in Nat
      BY <1>1, AtFinite
    <3> QED  BY <1>3, <2>1, <2>2, <3>1, <3>2, <3>3 DEF Owes
  <2>3. CASE r # s
    <3>1. out'[r] = out[r] /\ owed'[r][id] = owed[r][id]
      BY <1>2, <1>3, <2>3 DEF OwedInv, TypeOK, Messages
    <3> QED  BY <1>3, <2>1, <3>1 DEF Owes
  <2> QED  BY <2>2, <2>3
<1> QED  BY <1>4, <1>6 DEF AllOwe

(* A connection hands its message to the manager.                          *)
LEMMA SayAnswers ==
  ASSUME OwedInv, NEW s \in Sessions, NEW id \in Ids,
         Say(s, id), UNCHANGED owed
  PROVE  AllOwe' /\ BuiltFirst'
<1> DEFINE x == [id |-> id, what |-> cons[s][id].says]
<1>0. TypeOK /\ cons[s][id] \in Connections /\ out[s] \in Seq(Messages)
  BY DEF OwedInv, TypeOK
<1>1. x \in Messages
  BY <1>0 DEF Say, Connections, Messages
<1>2. /\ cons'[s][id].at = cons[s][id].at /\ cons'[s][id].says = None
      /\ \A r \in Sessions, i \in Ids :
            r # s \/ i # id => cons'[r][i] = cons[r][i]
  BY <1>0, BecomesOnly DEF Say
<1>3. out' = [out EXCEPT ![s] = Append(out[s], x)]
  BY DEF Say
<1>4. cons[s][id].says # None /\ cons[s][id].at # "run"
  BY DEF Say, OwedInv, BuiltFirst
<1>5. \A i \in Ids : x = AnswerTo(i) <=> i = id /\ cons[s][id].says = "response"
  BY DEF AnswerTo
<1> HIDE DEF x
<1>6. BuiltFirst'
  BY <1>2 DEF OwedInv, BuiltFirst
<1>7. ASSUME NEW r \in Sessions, NEW i \in Ids PROVE Owes(r, i)'
  <2>1. Owes(r, i)
    BY DEF OwedInv, AllOwe
  <2>2. CASE r = s
    <3>1. Count(out'[s], AnswerTo(i))
            = Count(out[s], AnswerTo(i)) + (IF x = AnswerTo(i) THEN 1 ELSE 0)
      BY <1>0, <1>1, <1>3, CountAppend DEF TypeOK
    <3>2. Count(out[s], AnswerTo(i)) \in Nat
      BY <1>0, AtFinite
    <3>3. CASE i = id
      <4>1. Answering(cons[s][id]) <=> cons[s][id].says = "response"
        BY <1>4 DEF Answering
      <4>2. ~Answering(cons'[s][id])
        BY <1>2, <1>4, ForwarderAssumption DEF Answering
      <4> QED  BY <1>5, <2>1, <2>2, <3>1, <3>2, <3>3, <4>1, <4>2 DEF Owes
    <3>4. CASE i # id
      BY <1>2, <1>5, <2>1, <2>2, <3>1, <3>2, <3>4 DEF Owes
    <3> QED  BY <3>3, <3>4
  <2>3. CASE r # s
    <3>1. out'[r] = out[r] /\ cons'[r][i] = cons[r][i]
      BY <1>0, <1>2, <1>3, <2>3 DEF TypeOK
    <3> QED  BY <2>1, <3>1 DEF Owes
  <2> QED  BY <2>2, <2>3
<1> QED  BY <1>6, <1>7 DEF AllOwe

(* A request that is accepted is owed an answer.                           *)
LEMMA RequestAnswers ==
  ASSUME OwedInv, NEW s \in Sessions, NEW id \in Ids, ReceiveRequest(s, id)
  PROVE  AllOwe' /\ BuiltFirst'
<1> DEFINE new == [NoConnection EXCEPT !.at = "run"]
<1>0. TypeOK /\ UNCHANGED out
  BY DEF OwedInv, ReceiveRequest
<1>1. CASE UNCHANGED <<cons, owed>>
  BY <1>0, <1>1, SameAnswers DEF OwedInv, BuiltFirst
<1>2. CASE /\ Over(cons[s][id])
           /\ cons' = [cons EXCEPT ![s][id] = new]
           /\ owed' = [owed EXCEPT ![s][id] = @ + 1]
  <2>1. new.at = "run" /\ new.says = None
    BY DEF NoConnection
  <2> HIDE DEF new
  <2>2. cons'[s][id] = new /\ owed'[s][id] = owed[s][id] + 1
    BY <1>0, <1>2 DEF TypeOK
  <2>3. \A r \in Sessions, i \in Ids : r # s \/ i # id =>
          cons'[r][i] = cons[r][i] /\ owed'[r][i] = owed[r][i]
    BY <1>0, <1>2 DEF TypeOK
  <2>4. Answering(new)
    BY <2>1 DEF Answering
  <2>5. ~Answering(cons[s][id])
    BY <1>2, ForwarderAssumption DEF Over, Answering
  <2>6. BuiltFirst'
    BY <2>1, <2>2, <2>3 DEF OwedInv, BuiltFirst
  <2>7. ASSUME NEW r \in Sessions, NEW i \in Ids PROVE Owes(r, i)'
    <3>1. Owes(r, i)  BY DEF OwedInv, AllOwe
    <3>2. CASE r = s /\ i = id
      <4>1. Count(out[s], AnswerTo(id)) \in Nat
        BY <1>0, AtFinite DEF TypeOK
      <4> QED  BY <1>0, <2>2, <2>4, <2>5, <3>1, <3>2, <4>1 DEF Owes
    <3>3. CASE r # s \/ i # id
      BY <1>0, <2>3, <3>1, <3>3 DEF Owes
    <3> QED  BY <3>2, <3>3
  <2> QED  BY <2>6, <2>7 DEF AllOwe
<1> QED  BY <1>1, <1>2 DEF ReceiveRequest

(* A step of a connection by which its answer stays underway.              *)
LEMMA BecomesAnswers ==
  ASSUME OwedInv, NEW s \in Sessions, NEW id \in Ids, NEW at, NEW says,
         Becomes(s, id, at, says), UNCHANGED <<out, owed>>, at # "run",
         Answering(cons[s][id]) <=> says = "response"
  PROVE  AllOwe' /\ BuiltFirst'
<1>1. TypeOK  BY DEF OwedInv
<1>2. /\ cons'[s][id].at = at /\ cons'[s][id].says = says
      /\ \A r \in Sessions, i \in Ids :
            r # s \/ i # id => cons'[r][i] = cons[r][i]
  BY <1>1, BecomesOnly
<1>3. \A r \in Sessions, i \in Ids :
        /\ Answering(cons'[r][i]) <=> Answering(cons[r][i])
        /\ cons'[r][i].at = "run" => cons'[r][i].says = None
  BY <1>2 DEF OwedInv, BuiltFirst, Answering
<1> QED  BY <1>3, SameAnswers

(* OwedIsUnderway: no answer is dropped or sent twice, however ids are     *)
(* used again and the WebSocket is lost (Http::next, reconnect).           *)
THEOREM OwedIsUnderwayAlways == Spec => []OwedIsUnderway
<1>1. Init => AllOwe /\ BuiltFirst
  <2> SUFFICES ASSUME Init PROVE AllOwe /\ BuiltFirst  OBVIOUS
  <2>1. \A s \in Sessions, id \in Ids :
          /\ out[s] = <<>> /\ owed[s][id] = 0
          /\ cons[s][id].at = "none" /\ cons[s][id].says = None
    BY DEF Init, NoMessages, NothingOwed, NoConnections, NoConnection
  <2>2. \A s \in Sessions, id \in Ids : ~Answering(cons[s][id])
    BY <2>1, ForwarderAssumption DEF Answering
  <2> QED  BY <2>1, <2>2, CountEmpty DEF AllOwe, Owes, BuiltFirst
<1>2. OwedInv /\ [Next]_vars => AllOwe' /\ BuiltFirst'
  <2> SUFFICES ASSUME OwedInv, [Next]_vars PROVE AllOwe' /\ BuiltFirst'
    OBVIOUS
  <2>0. CASE UNCHANGED managerVars
    BY <2>0, SameAnswers DEF managerVars, OwedInv, BuiltFirst
  <2>1. CASE UNCHANGED vars \/ UnsetAll \/ Cancel
    BY <2>0, <2>1 DEF vars, UnsetAll, Cancel
  <2>2. CASE Restart
    <3>1. \A s \in Sessions, id \in Ids :
            /\ out'[s] = <<>> /\ owed'[s][id] = 0
            /\ cons'[s][id].at = "none" /\ cons'[s][id].says = None
      BY <2>2 DEF Restart, NoMessages, NothingOwed, NoConnections, NoConnection
    <3>2. \A s \in Sessions, id \in Ids : ~Answering(cons'[s][id])
      BY <3>1, ForwarderAssumption DEF Answering
    <3> QED  BY <3>1, <3>2, CountEmpty DEF AllOwe, Owes, BuiltFirst
  <2>3. ASSUME NEW s \in Sessions, RequestSession(s)
        PROVE  AllOwe' /\ BuiltFirst'
    BY <2>0, <2>3 DEF RequestSession
  <2>4. ASSUME NEW s \in Sessions, SessionStep(s)
        PROVE  AllOwe' /\ BuiltFirst'
    <3>1. CASE \E place : Goto(s, place)
      BY <3>1, GotoAnswers
    <3>2. CASE HandleSession(s)
      BY <3>1, <3>2 DEF HandleSession, Report, BackOff
    <3>3. CASE Finished(s) \/ StopServing(s)
      BY <3>1, <3>3 DEF Finished, StopServing
    <3>4. CASE HandleFrame(s)
      <4>1. waits[s] \in Ids
        BY <3>4 DEF HandleFrame, OwedInv, TypeOK
      <4> QED  BY <3>4, <4>1, TakeFrameAnswers DEF HandleFrame
    <3>5. CASE SendToWs(s)
      BY <3>5, SendAnswers
    <3> QED  BY <2>4, <3>2, <3>3, <3>4, <3>5 DEF SessionStep
  <2>5. ASSUME NEW s \in Sessions, Disconnect(s)
        PROVE  AllOwe' /\ BuiltFirst'
    BY <2>0, <2>5, GotoAnswers DEF Disconnect
  <2>6. ASSUME NEW s \in Sessions, NEW id \in Ids, ReceiveRequest(s, id)
        PROVE  AllOwe' /\ BuiltFirst'
    BY <2>6, RequestAnswers
  <2>7. ASSUME NEW s \in Sessions, NEW id \in Ids, ReceiveFrame(s, id)
        PROVE  AllOwe' /\ BuiltFirst'
    BY <2>7, TakeFrameAnswers DEF ReceiveFrame
  <2>8. ASSUME NEW s \in Sessions, NEW id \in Ids, ConnectionStep(s, id)
        PROVE  AllOwe' /\ BuiltFirst'
    <3>0. UNCHANGED owed
      BY <2>8 DEF ConnectionStep
    <3>1. CASE Say(s, id)
      BY <3>0, <3>1, SayAnswers
    <3>2. CASE Answer(s, id)
      BY <3>0, <3>2, BecomesAnswers DEF Answer, Answering
    <3>3. CASE Build(s, id)
      BY <3>0, <3>3, BecomesAnswers DEF Build, Answering
    <3>4. CASE End(s, id)
      BY <3>0, <3>4, BecomesAnswers, ForwarderAssumption DEF End, Answering
    <3>5. CASE Write(s, id)
      <4>1. CASE Becomes(s, id, "done", "other")
        BY <3>0, <3>5, <4>1, BecomesAnswers, ForwarderAssumption
           DEF Write, Answering
      <4>2. CASE cons' = [cons EXCEPT ![s][id].inq = @ - 1]
        <5>1. cons[s][id] \in Connections
          BY DEF OwedInv, TypeOK
        <5>2. \A r \in Sessions, i \in Ids :
                /\ cons'[r][i].at = cons[r][i].at
                /\ cons'[r][i].says = cons[r][i].says
          BY <4>2, <5>1 DEF OwedInv, TypeOK, Connections
        <5> QED
          BY <3>0, <3>5, <5>2, SameAnswers
             DEF Write, Answering, OwedInv, BuiltFirst
      <4> QED  BY <3>5, <4>1, <4>2 DEF Write
    <3> QED  BY <2>8, <3>1, <3>2, <3>3, <3>4, <3>5 DEF ConnectionStep
  <2>9. ASSUME NEW s \in Sessions, NEW id \in Ids, Read(s, id)
        PROVE  AllOwe' /\ BuiltFirst'
    <3>1. PICK at \in {"open", "closing", "done"} : Becomes(s, id, at, "other")
      BY <2>9 DEF Read
    <3>2. ~Answering(cons[s][id])
      BY <2>9, ForwarderAssumption DEF Read, Answering
    <3> QED  BY <2>9, <3>1, <3>2, BecomesAnswers DEF Read
  <2> QED
    BY <2>1, <2>2, <2>3, <2>4, <2>5, <2>6, <2>7, <2>8, <2>9 DEF Next
<1>3. AllOwe => OwedIsUnderway
  BY DEF AllOwe, Owes, OwedIsUnderway, Count, At, AnswerTo, Answering
<1> QED
  BY <1>1, <1>2, <1>3, TypeCorrect, PTL DEF Spec, OwedInv
=============================================================================
