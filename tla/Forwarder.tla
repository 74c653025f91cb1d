----------------------------- MODULE Forwarder -----------------------------
(***************************************************************************)
(* The forwarder: remote sessions that tunnel HTTP requests and WebSockets *)
(* of local services to Edgehog.                                           *)
(*                                                                         *)
(*   Forwarder           src/src/forwarder.rs, an actor that spawns one    *)
(*                       task for every session the server asks for        *)
(*   ConnectionsManager  src/edgehog-device-runtime-forwarder/src/         *)
(*                       connections_manager.rs, in the task of a session: *)
(*                       the one end of the WebSocket to Edgehog           *)
(*   Connection          connection/mod.rs, http.rs, websocket.rs, a task  *)
(*                       for every request that Edgehog sends              *)
(*                                                                         *)
(* The connections share the channel out to their manager; each WebSocket  *)
(* has a channel of its own in the other direction, of which only the      *)
(* length matters.                                                         *)
(***************************************************************************)
EXTENDS Integers, Sequences, FiniteSets

CONSTANTS
    Sessions,     \* the SessionInfos: host, port, token, secure
    TokenOf,      \* the session token, which names the property
    Ids,          \* the ids that Edgehog gives to requests
    WebSockets,   \* those that are requests to upgrade
    None,         \* no id, no message
    WsCapacity,   \* CHANNEL_SIZE, connections_manager.rs:44
    ConCapacity,  \* WS_CHANNEL_SIZE, connection/mod.rs:43
    MaxReceived,  \* bound: requests and frames of Edgehog
    MaxData,      \* bound: WebSocket frames of local services
    MaxFaults     \* bound: failures of Astarte or of the WebSocket to Edgehog

ASSUME ForwarderAssumption ==
    /\ WebSockets \subseteq Ids
    /\ None \notin Ids \cup {"response", "other"}
    /\ {WsCapacity, ConCapacity} \subseteq Nat \ {0}
    /\ {MaxReceived, MaxData, MaxFaults} \subseteq Nat

VARIABLES
    \* Forwarder
    phase,      \* "init", then "loop"; "off" when init failed
    cancelled,  \* the token of the runtime
    pc,         \* where the task of a session is; "none" without a task
    prop,       \* the property of a token, in Astarte
    \* ConnectionsManager
    waits,      \* the connection a frame waits for in handle_ws, or None
    out,        \* rx_ws, what the connections send to Edgehog
    \* Connection
    cons,       \* the connections of a session
    \* history
    owed,       \* how many answers a session owes to an id
    stale,      \* tokens of which the last report failed
    \* bounds
    received, data, faults

managerVars == <<waits, out, cons, owed>>
boundVars   == <<received, data, faults>>
vars == <<phase, cancelled, pc, prop, stale, managerVars, boundVars>>

Tokens == {TokenOf[s] : s \in Sessions}

Status == {"unset", "Connecting", "Connected"}

(* "ending" is a task that has nothing left to do and is not finished.     *)
Places == {"none", "connecting", "connect", "connected", "serve", "lost",
           "reconnect", "unset", "ending"}

(* "other" is a frame, or the Bad Gateway of an upgraded WebSocket.        *)
Messages == [id : Ids, what : {"response", "other"}]

(* at: the connection is built, is open, has sent its last frame, or is    *)
(* over.  says: what it sends to the manager before that.  inq: how many   *)
(* frames are in its channel.                                              *)
Connections == [at : {"none", "run", "open", "closing", "done"},
                says : {"response", "other", None},
                inq : 0..ConCapacity]

NoConnection == [at |-> "none", says |-> None, inq |-> 0]

TypeOK ==
    /\ phase \in {"init", "loop", "off"}
    /\ cancelled \in BOOLEAN
    /\ pc \in [Sessions -> Places]
    /\ prop \in [Tokens -> Status]
    /\ stale \subseteq Tokens
    /\ waits \in [Sessions -> Ids \cup {None}]
    /\ out \in [Sessions -> Seq(Messages)]
    /\ \A s \in Sessions : Len(out[s]) <= WsCapacity
    /\ cons \in [Sessions -> [Ids -> Connections]]
    /\ owed \in [Sessions -> [Ids -> Int]]
    /\ received \in 0..MaxReceived
    /\ data \in 0..MaxData /\ faults \in 0..MaxFaults

(* The values without a task, and of a session without a manager.          *)
NoTasks == [s \in Sessions |-> "none"]
NotWaiting == [s \in Sessions |-> None]
NoMessages == [s \in Sessions |-> <<>>]
NoConnections == [id \in Ids |-> NoConnection]
NothingOwed == [id \in Ids |-> 0]

Init ==
    /\ phase = "init"
    /\ cancelled = FALSE
    /\ pc = NoTasks
    /\ waits = NotWaiting /\ out = NoMessages
    /\ cons = [s \in Sessions |-> NoConnections]
    /\ owed = [s \in Sessions |-> NothingOwed]
    /\ prop = [t \in Tokens |-> "unset"]
    /\ stale = {}
    /\ received = 0 /\ data = 0 /\ faults = 0

-----------------------------------------------------------------------------
(* The actor.                                                              *)

Fault == faults < MaxFaults /\ faults' = faults + 1

(* Actor::init: the properties an earlier run left are unset.  The         *)
(* forwarder is not required: when that fails the runtime goes on without. *)
UnsetAll ==
    /\ phase = "init"
    /\ \/ /\ phase' = "loop"
          /\ prop' = [t \in Tokens |-> "unset"]
          /\ UNCHANGED faults
       \/ /\ phase' = "off"
          /\ Fault
          /\ \E done \in SUBSET Tokens :
                prop' = [t \in Tokens |-> IF t \in done THEN "unset" ELSE prop[t]]
    /\ stale' = {}
    /\ UNCHANGED <<cancelled, pc, managerVars, received, data>>

(* handle_sessions: a task is spawned unless there is one for this         *)
(* SessionInfo that is not finished; a request for that one is ignored.    *)
RequestSession(s) ==
    /\ phase = "loop" /\ ~cancelled
    /\ pc[s] = "none"
    /\ pc' = [pc EXCEPT ![s] = "connecting"]
    /\ UNCHANGED <<phase, cancelled, prop, stale, managerVars, boundVars>>

Cancel ==
    /\ ~cancelled
    /\ cancelled' = TRUE
    /\ UNCHANGED <<phase, pc, prop, stale, managerVars, boundVars>>

(* Nobody waits for the tasks of the sessions: the runtime may also exit   *)
(* before they are done.                                                   *)
Restart ==
    /\ phase' = "init"
    /\ cancelled' = FALSE
    /\ pc' = NoTasks
    /\ waits' = NotWaiting /\ out' = NoMessages
    /\ cons' = [s \in Sessions |-> NoConnections]
    /\ owed' = [s \in Sessions |-> NothingOwed]
    /\ UNCHANGED <<prop, stale, boundVars>>

-----------------------------------------------------------------------------
(* The task of a session: handle_session and connect.                      *)

(* connect() returns on the way to "unset": the manager and its channel    *)
(* are dropped, and the connections go on without anyone to talk to.       *)
Goto(s, place) ==
    /\ pc' = [pc EXCEPT ![s] = place]
    /\ IF place = "unset"
       THEN /\ waits' = [waits EXCEPT ![s] = None]
            /\ out' = [out EXCEPT ![s] = <<>>]
            /\ cons' = [cons EXCEPT ![s] = NoConnections]
            /\ owed' = [owed EXCEPT ![s] = NothingOwed]
       ELSE UNCHANGED managerVars

(* SessionState::send, then on to the next place, or to another one if     *)
(* Astarte fails.                                                          *)
Report(s, status, next, otherwise) ==
    \/ /\ prop' = [prop EXCEPT ![TokenOf[s]] = status]
       /\ stale' = stale \ {TokenOf[s]}
       /\ Goto(s, next)
       /\ UNCHANGED faults
    \/ /\ Fault
       /\ stale' = stale \cup {TokenOf[s]}
       /\ Goto(s, otherwise)
       /\ UNCHANGED prop

(* Mutant: the session is over when the connection is given up.            *)
BackOffSilently(s) ==
    /\ \E place \in {"connected", "ending"} : Goto(s, place)
    /\ UNCHANGED <<prop, stale, faults>>

(* The back-off succeeds, gives up, or meets a permanent error.  It does   *)
(* not look at the cancellation.                                           *)
BackOff(s) ==
    /\ \E place \in {"connected", "unset"} : Goto(s, place)
    /\ UNCHANGED <<prop, stale, faults>>

(* handle_session and connect.                                             *)
HandleSession(s) ==
    \/ /\ pc[s] = "connecting"
       /\ Report(s, "Connecting", "connect", "none")
    \/ pc[s] \in {"connect", "reconnect"} /\ BackOff(s)
    \/ pc[s] = "connected" /\ Report(s, "Connected", "serve", "unset")
    \/ pc[s] = "lost" /\ Report(s, "Connecting", "reconnect", "unset")
    \/ pc[s] = "unset" /\ Report(s, "unset", "ending", "ending")

(* The handle of the task says that it is finished.                        *)
Finished(s) ==
    /\ pc[s] = "ending"
    /\ Goto(s, "none")
    /\ UNCHANGED <<prop, stale, faults>>

-----------------------------------------------------------------------------
(* The manager: handle_connections.                                        *)

(* remove_terminated: what is over leaves the collection.                  *)
Over(con) == con.at \in {"none", "done"} /\ con.says = None

(* The receiver of its channel is there.                                   *)
Listens(id, con) == id \in WebSockets /\ con.at \in {"run", "open", "closing"}

(* run_until_cancelled gives up select_ws_event when the token is          *)
(* cancelled.  An event that is there together with the cancellation may   *)
(* still be taken, once; as nothing else a session or a connection does    *)
(* depends on the token, that is the event taken before the cancellation.  *)
Selects(s) == pc[s] = "serve" /\ waits[s] = None /\ ~cancelled

(* handle_http: a request that is malformed, or whose id is in use, is     *)
(* dropped, and not answered.                                              *)
ReceiveRequest(s, id) ==
    /\ Selects(s)
    /\ received < MaxReceived
    /\ received' = received + 1
    /\ \/ /\ Over(cons[s][id])
          /\ cons' = [cons EXCEPT ![s][id] = [NoConnection EXCEPT !.at = "run"]]
          /\ owed' = [owed EXCEPT ![s][id] = @ + 1]
       \/ UNCHANGED <<cons, owed>>
    /\ UNCHANGED <<phase, cancelled, pc, prop, stale, waits, out, data, faults>>

GoesOn(s) == waits' = [waits EXCEPT ![s] = None]
WaitsFor(s, id) == waits' = [waits EXCEPT ![s] = id]
PutFrame(s, id) == cons' = [cons EXCEPT ![s][id].inq = @ + 1]

(* Mutants: the frames that do not fit are kept all the same; a connection *)
(* that is over is waited for.                                             *)
TakeFrameUnbounded(s, id) ==
    \/ ~Listens(id, cons[s][id]) /\ GoesOn(s) /\ UNCHANGED cons
    \/ Listens(id, cons[s][id]) /\ GoesOn(s) /\ PutFrame(s, id)
TakeFrameDeaf(s, id) ==
    \/ /\ Listens(id, cons[s][id]) /\ cons[s][id].inq < ConCapacity
       /\ GoesOn(s) /\ PutFrame(s, id)
    \/ /\ ~Listens(id, cons[s][id]) \/ cons[s][id].inq = ConCapacity
       /\ WaitsFor(s, id) /\ UNCHANGED cons

(* ConnectionHandle::send fails when nobody will take the frame, and waits *)
(* for room in the channel.  This is not cancelled.                        *)
TakeFrame(s, id) ==
    \/ /\ ~Listens(id, cons[s][id])
       /\ GoesOn(s) /\ UNCHANGED cons
    \/ /\ Listens(id, cons[s][id]) /\ cons[s][id].inq < ConCapacity
       /\ GoesOn(s) /\ PutFrame(s, id)
    \/ /\ Listens(id, cons[s][id]) /\ cons[s][id].inq = ConCapacity
       /\ WaitsFor(s, id) /\ UNCHANGED cons

ReceiveFrame(s, id) ==
    /\ Selects(s)
    /\ received < MaxReceived
    /\ received' = received + 1
    /\ TakeFrame(s, id)
    /\ UNCHANGED <<phase, cancelled, pc, prop, stale, out, owed, data, faults>>

(* handle_ws goes on: there is room, or the connection is over.            *)
HandleFrame(s) ==
    /\ pc[s] = "serve" /\ waits[s] # None
    /\ TakeFrame(s, waits[s])
    /\ UNCHANGED <<pc, out, owed, prop, stale, faults>>

(* Mutant: it reconnects without a word to Astarte.                        *)
LoseSilently(s) == Fault /\ pc' = [pc EXCEPT ![s] = "reconnect"]

(* Disconnected: the WebSocket is lost, and reconnecting may mend it.      *)
Lose(s) == Fault /\ pc' = [pc EXCEPT ![s] = "lost"]

(* send_to_ws; a message that cannot be sent is lost with the WebSocket.   *)
SendToWs(s) ==
    /\ Selects(s)
    /\ out[s] # <<>>
    /\ out' = [out EXCEPT ![s] = Tail(@)]
    /\ owed' = IF Head(out[s]).what = "response"
               THEN [owed EXCEPT ![s][Head(out[s]).id] = @ - 1] ELSE owed
    /\ \/ UNCHANGED <<pc, faults>>
       \/ Lose(s)
    /\ UNCHANGED <<cons, waits, prop, stale>>

(* Mutant: the token is looked at when there is nothing left to send.      *)
StopServingIdle(s) ==
    /\ pc[s] = "serve" /\ waits[s] = None /\ cancelled
    /\ \A id \in Ids : Over(cons[s][id])
    /\ Goto(s, "unset")
    /\ UNCHANGED <<prop, stale, faults>>

(* The token is looked at before every event.                              *)
StopServing(s) ==
    /\ pc[s] = "serve" /\ waits[s] = None /\ cancelled
    /\ Goto(s, "unset")
    /\ UNCHANGED <<prop, stale, faults>>

(* The WebSocket closes in order, or with an error that reconnecting would *)
(* not mend; or it is lost.                                                *)
Disconnect(s) ==
    /\ Selects(s)
    /\ \/ Goto(s, "unset") /\ UNCHANGED faults
       \/ Lose(s) /\ UNCHANGED managerVars
    /\ UNCHANGED <<phase, cancelled, prop, stale, received, data>>

-----------------------------------------------------------------------------
(* The task of a connection: spawn_inner and task.                         *)

Becomes(s, id, at, says) ==
    cons' = [cons EXCEPT ![s][id] =
               [at |-> at, says |-> says,
                inq |-> IF at \in {"open", "closing"} THEN @.inq ELSE 0]]

(* tx_ws.send waits for room.                                              *)
Say(s, id) ==
    /\ cons[s][id].says # None
    /\ Len(out[s]) < WsCapacity
    /\ out' = [out EXCEPT ![s] = Append(@, [id |-> id, what |-> cons[s][id].says])]
    /\ Becomes(s, id, cons[s][id].at, None)

(* Mutant: the request is not taken out of the connection.                 *)
AnswerAgain(s, id) ==
    /\ id \notin WebSockets
    /\ cons[s][id].at = "run" /\ cons[s][id].says = None
    /\ \E at \in {"run", "done"} : Becomes(s, id, at, "response")
    /\ UNCHANGED out

(* Http::next takes the request; its answer may be a Bad Gateway.          *)
Answer(s, id) ==
    /\ id \notin WebSockets
    /\ cons[s][id].at = "run" /\ cons[s][id].says = None
    /\ Becomes(s, id, "done", "response")
    /\ UNCHANGED out

(* WebSocketBuilder::build; what fails is answered with a Bad Gateway.     *)
Build(s, id) ==
    /\ id \in WebSockets
    /\ cons[s][id].at = "run" /\ cons[s][id].says = None
    /\ \E at \in {"open", "done"} : Becomes(s, id, at, "response")
    /\ UNCHANGED out

(* handle_ws_write; an error ends the task with a Bad Gateway, and after   *)
(* the last frame there is nothing but errors.                             *)
Write(s, id) ==
    /\ cons[s][id].at \in {"open", "closing"} /\ cons[s][id].says = None
    /\ cons[s][id].inq > 0
    /\ \/ /\ cons[s][id].at = "open"
          /\ cons' = [cons EXCEPT ![s][id].inq = @ - 1]
       \/ Becomes(s, id, "done", "other")
    /\ UNCHANGED out

(* The stream of the local service is over: next() returns None.           *)
End(s, id) ==
    /\ cons[s][id].at = "closing" /\ cons[s][id].says = None
    /\ Becomes(s, id, "done", None)
    /\ UNCHANGED out

(* handle_ws_read: a frame, the last frame (a close frame of the service,  *)
(* or of the device for a connection that was reset), or an error.         *)
Read(s, id) ==
    /\ cons[s][id].at = "open" /\ cons[s][id].says = None
    /\ \/ /\ data < MaxData
          /\ data' = data + 1
          /\ Becomes(s, id, "open", "other")
       \/ /\ \/ Becomes(s, id, "closing", "other")
             \/ Becomes(s, id, "done", "other")
          /\ UNCHANGED data
    /\ UNCHANGED <<phase, cancelled, pc, prop, stale, waits, out, owed,
                   received, faults>>

-----------------------------------------------------------------------------
SessionStep(s) ==
    /\ \/ HandleSession(s) \/ Finished(s)
       \/ HandleFrame(s) \/ SendToWs(s) \/ StopServing(s)
    /\ UNCHANGED <<phase, cancelled, received, data>>

ConnectionStep(s, id) ==
    /\ \/ Say(s, id) \/ Answer(s, id) \/ Build(s, id)
       \/ Write(s, id) \/ End(s, id)
    /\ UNCHANGED <<phase, cancelled, pc, prop, stale, waits, owed, boundVars>>

Next ==
    \/ UnsetAll \/ Cancel \/ Restart
    \/ \E s \in Sessions :
        \/ RequestSession(s) \/ SessionStep(s) \/ Disconnect(s)
        \/ \E id \in Ids :
            \/ ReceiveRequest(s, id) \/ ReceiveFrame(s, id)
            \/ ConnectionStep(s, id) \/ Read(s, id)

Spec == Init /\ [][Next]_vars

(* The manager waits for Edgehog, without a timeout: for the answer to an  *)
(* attempt to connect (the back-off limits only the time between two       *)
(* attempts), or for it to take a message.  A cancellation ends the second *)
(* but not the first.                                                      *)
AwaitsEdgehog(s) ==
    \/ pc[s] \in {"connect", "reconnect"}
    \/ Selects(s) /\ out[s] # <<>>

(* A connection waits for its local service, without a timeout either: to  *)
(* answer the request, or to accept the upgrade.                           *)
Unanswered(s, id) == cons[s][id].at = "run" /\ cons[s][id].says = None

(* The manager waits for a service that does not take its frames.          *)
AwaitsService(s) ==
    /\ waits[s] # None
    /\ cons[s][waits[s]].inq = ConCapacity
    /\ cons[s][waits[s]].says = None

(* The tasks run; nothing is assumed of Edgehog or of local services.  Of  *)
(* the steps of a connection only Say needs nobody outside.                *)
Fairness ==
    /\ \A s \in Sessions : WF_vars(~AwaitsEdgehog(s) /\ SessionStep(s))
    /\ \A s \in Sessions, id \in Ids :
            WF_vars(cons[s][id].says # None /\ ConnectionStep(s, id))

FairSpec == Spec /\ Fairness

-----------------------------------------------------------------------------
(* Once the last session of a token is over, Astarte shows none, unless    *)
(* the report itself failed (handle_session, Actor::init).                 *)
UnsetWhenOver ==
    \A t \in Tokens :
        (/\ phase = "loop" /\ t \notin stale
         /\ \A s \in Sessions : TokenOf[s] = t => pc[s] \in {"none", "ending"})
        => prop[t] = "unset"

(* Where Astarte shows Connected a session has its WebSocket, or has lost  *)
(* it and is about to say so (connect).                                    *)
ConnectedIsOpen ==
    \A t \in Tokens :
        phase = "loop" /\ t \notin stale /\ prop[t] = "Connected" =>
            \E s \in Sessions :
                TokenOf[s] = t /\ pc[s] \in {"serve", "lost", "unset"}

(* Every request that was accepted is owed one answer, and for every       *)
(* answer that is owed there is one task at work on it or one message in   *)
(* the channel: none is dropped, and none is sent twice, also when an id   *)
(* is used again and when the WebSocket is lost (Http::next, reconnect).   *)
OwedIsUnderway ==
    \A s \in Sessions, id \in Ids :
        owed[s][id] = Cardinality({n \in DOMAIN out[s] :
                                     out[s][n] = [id |-> id, what |-> "response"]})
            + (IF cons[s][id].says = "response"
                  \/ (cons[s][id].at = "run" /\ cons[s][id].says = None)
               THEN 1 ELSE 0)

(* The manager waits for a connection, and that one for the manager: the   *)
(* channels are full in both directions.                                   *)
Stuck(s) ==
    /\ waits[s] # None
    /\ cons[s][waits[s]].inq = ConCapacity
    /\ cons[s][waits[s]].says # None
    /\ Len(out[s]) = WsCapacity

(* Every request is answered in the end, or its answer is lost with the    *)
(* WebSocket or the session, unless the session is stuck, if only Edgehog  *)
(* lets the manager go on, the service of the request answers, and none    *)
(* that the manager waits for refuses to read for ever.  A service that    *)
(* does not answer holds up no other request (event_loop, spawn_inner).    *)
RequestAnswered ==
    \A s \in Sessions, id \in Ids :
        []<>~AwaitsEdgehog(s) /\ []<>~AwaitsService(s) /\ []<>~Unanswered(s, id)
        => (owed[s][id] > 0 ~> owed[s][id] = 0 \/ Stuck(s))

(* A cancellation ends every session, whether Edgehog takes what is sent   *)
(* and local services answer or not (event_loop, send_to_ws).  It does not *)
(* end one that is stuck, one whose attempt to connect is never answered   *)
(* (ws_connect), and one that waits for a service that does not read       *)
(* (handle_ws).                                                            *)
CancelEnds ==
    \A s \in Sessions :
        []<>~AwaitsEdgehog(s) /\ []<>~AwaitsService(s)
        => (cancelled ~> ~cancelled \/ pc[s] = "none" \/ Stuck(s))
=============================================================================
