SPECIFICATION FairSpec
CONSTANTS
    Endpoints = {e1, e2}
    Requests = {r1}
    Slow = {e2}
    MaxAttempts = 3
    ListLimit = 2
    Batch = 2
    MaxOps = 2
    MaxFaults = 1
    MaxRows = 10
PROPERTIES RetryFires
CHECK_DEADLOCK FALSE
