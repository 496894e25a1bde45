SPECIFICATION FairSpec
CONSTANTS
    n1 = n1  n2 = n2  h1 = h1  h2 = h2  i1 = i1  i2 = i2  i3 = i3  u1 = u1  u2 = u2
    Nodes = {n1}
    Users = {u1, u2}
    Hosts = {h1}
    Inbounds = {i1}
    NilKey = nil
    Keys = {u1, u2, nil}
    MaxQueue = 2
    NodeOf <- MCNodeOf1
    InlineInbounds = {i1}
    CredValues = {c1}
    Rows <- OnRows
    Procs = {p1, p2, p3}
    InitUsers = {u1}
    InitInbounds = {i1}
    InitEndpoints <- MCEndpoints1
    Ops = {"create_user", "update_inbound"}
    MaxOps = 4
    MaxFaults = 1
    MaxBoots = 1
PROPERTIES StaleNodeRefreshed RequestsReturn
CHECK_DEADLOCK FALSE
