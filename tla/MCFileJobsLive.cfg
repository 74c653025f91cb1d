\* Two requests, under the fairness of the scheduler.
SPECIFICATION FairSpec
CONSTANTS
    Ids = {f}
    NoJob = NoJob
    Requests <- MCTtlRequests
    Encodings = {"plain"}
    MaxRequests = 2
    MaxFaults = 1
PROPERTIES
    EveryRequestAnswered
    DueIsTaken
CHECK_DEADLOCK FALSE
