\* One file, three requests, one restart or lost message.  The device may have
\* nothing left to do, so that a behaviour may end.
SPECIFICATION Spec
CONSTANTS
    Ids = {f}
    NoJob = NoJob
    Requests <- MCRequests
    Encodings = {"plain", "gz", "tar"}
    MaxRequests = 3
    MaxFaults = 1
INVARIANTS
    TypeOK
    OwedIsQueued
    AnsweredOnce
    InProgressIsHeld
    DoneIsWhole
PROPERTY SyncListsAll
CHECK_DEADLOCK FALSE
