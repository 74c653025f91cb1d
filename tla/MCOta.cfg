SPECIFICATION Spec
CONSTANTS
    a = a
    b = b
    u = u
    Slots = {s1, s2}
    Uuids = {a, b}
    Base = Base
    None = None
    Urls = {u}
    NoUrl = NoUrl
    Torn = Torn
    Requests <- MCRequests
    Streaming = FALSE
    ExternalReboot = FALSE
    MaxOtaOperation = 1
    PubCapacity = 1
    MaxAttempts = 2
    MaxUpdates = 2
    MaxFaults = 2
CHECK_DEADLOCK FALSE
SYMMETRY Symmetry
INVARIANTS
    TypeOK
    NeverInconsistent
    FlagCoversTask
    CurrentIsLive
    CancelStopsUpdate
    RebootIsRecorded
    SuccessIsInstalled
    CleanWhenIdle
PROPERTIES
    ImplementsAttempt
