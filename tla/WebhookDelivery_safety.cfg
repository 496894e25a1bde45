SPECIFICATION Spec
CONSTANTS
    Endpoints = {e1}
    Requests = {r1, r2}
    Slow = {}
    MaxAttempts = 3
    ListLimit = 2
    Batch = 2
    MaxOps = 2
    MaxFaults = 2
    MaxRows = 10
INVARIANTS NoEventLost SingleChain EditsKept
PROPERTIES AckedOnce
SYMMETRY MCSymmetry
CHECK_DEADLOCK FALSE
