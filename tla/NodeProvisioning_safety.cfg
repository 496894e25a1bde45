SPECIFICATION Spec
CONSTANTS
    Procs = {p1, p2}
    Elsewhere = other_node
    Writers = {p1, p2, other_node}
    Targets = {"keep", "online"}
    MaxMints = 4
    MaxOps = 3
    MaxFaults = 1
INVARIANTS OnlinePaired StoredKeyUsable TransportKept
SYMMETRY MCSymmetry
CHECK_DEADLOCK FALSE
