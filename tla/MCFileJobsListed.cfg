\* A file is deleted between its download and the message that lists it.
SPECIFICATION Spec
CONSTANTS
    Ids = {f}
    NoJob = NoJob
    Requests <- MCRequests
    Encodings = {"plain", "gz", "tar"}
    MaxRequests = 2
    MaxFaults = 0
INVARIANT ListedIsStored
CHECK_DEADLOCK FALSE
