\* check_dir takes a directory that was left half extracted for a whole one.
SPECIFICATION Spec
CONSTANTS
    Ids = {f}
    NoJob = NoJob
    Requests <- MCRequests
    Encodings = {"plain", "gz", "tar"}
    MaxRequests = 2
    MaxFaults = 0
INVARIANT ExistsMeansExtracted
CHECK_DEADLOCK FALSE
