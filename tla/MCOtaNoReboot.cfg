SPECIFICATION Spec
CONSTANTS
    a = a
    b = b
    u = u
    Slots = {s1, s2}
    Uuids = {a, b}
    Base = Base
    None = None
    Urls = {u}
    NoUrl = NoUrl
    Torn = Torn
    Requests <- MCRequests
    Streaming = TRUE
    ExternalReboot = TRUE
    MaxOtaOperation = 1
    PubCapacity = 1
    MaxAttempts = 1
    MaxUpdates = 2
    MaxFaults = 1
CHECK_DEADLOCK FALSE
PROPERTIES
    NoRebootDuringOta
