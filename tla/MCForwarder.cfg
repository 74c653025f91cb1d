\* Two sessions of one token, an HTTP request and a WebSocket.
SPECIFICATION FairSpec
CONSTANTS
    s1 = s1
    s2 = s2
    h = h
    w = w
    token = token
    Sessions = {s1, s2}
    TokenOf <- MCTokenOf
    Ids = {h, w}
    WebSockets = {w}
    None = None
    WsCapacity = 1
    ConCapacity = 1
    MaxReceived = 3
    MaxData = 1
    MaxFaults = 1
INVARIANTS
    TypeOK
    UnsetWhenOver
    ConnectedIsOpen
    OwedIsUnderway
PROPERTIES
    RequestAnswered
    CancelEnds
\* The server need not ask for a session again once all have ended.
CHECK_DEADLOCK FALSE
