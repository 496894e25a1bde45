SPECIFICATION Spec
CONSTANTS
    n1 = n1  n2 = n2  h1 = h1  h2 = h2  i1 = i1  i2 = i2  i3 = i3  u1 = u1  u2 = u2
    Nodes = {n1, n2}
    Users = {u1}
    Hosts = {h1, h2}
    Inbounds = {i1, i2, i3}
    NilKey = nil
    Keys = {u1, nil}
    MaxQueue = 2
    NodeOf <- MCNodeOf
    InlineInbounds = {i1}
    CredValues = {c1, c2}
    Rows <- MCRows
    Procs = {p1, p2}
    InitUsers = {u1}
    InitInbounds = {i1, i2}
    InitEndpoints <- MCEndpoints
    Ops = {"create_user", "update_user", "delete_user", "create_inbound",
           "update_inbound", "delete_inbound", "write_credential", "write_host"}
    MaxOps = 2
    MaxFaults = 1
    MaxBoots = 1
INVARIANTS BuffersBounded StaleNodeExplained FlushReadsHold
SYMMETRY MCSymmetry
CHECK_DEADLOCK FALSE
