CONSTANTS
    Parts = {"connectivity"}
    r1 = r1
    r2 = r2
    pa = pa
    pb = pb
    edge_connections = 3
    MaxInbound = 2
    Callback <- MCCallback
    RlPath = {pa, pb}
    RlHops <- MCHops
    RlExpiry = {1, 2}
    RlMaxLife = 2
    RlMaxTime = 3
    TaRemote = {"x", "y", "z"}
    TaFamily = {"v4", "v6"}
    TaSpace = 16
    TaSize = 5
    TaSearch = 8
    TaExisting <- MCExisting
    TaReserved <- MCReserved
    TaHint <- MCHint
    TaKeep = 1
    c1 = c1
    c2 = c2
    c3 = c3
    q1 = q1
    PmRemotes = {r1}
    PmPortsOf = {1, 2}
    PmApps = {pa, pb}
    PmRing = 2
    PmSlots = {c1, c2, c3}
    PmNone = PmNone
    PmMaxConns = 1
    DnSlots = {q1}
    DnQueries <- MCDnQueries
    DnUpstream = TRUE
    DnPlain = 1
    DnEdns = 2
    DnTcp = 9
    DnSrvs = {0, 1, 3}
    CfLines <- MCCfLines
    CfMaxLines = 3
    CfSwitches = {"hidden", "key", "listen", "ip", "port", "rpc", "data", "elsewhere"}
    a1 = a1
    a2 = a2
    SnAddr = {a1, a2}
    SnLookup = {"l1", "l2"}
    SnAsk = 3
    SnMaxPaths = 4
SPECIFICATION MCSpec
INVARIANT OneTimeIsOnce
CHECK_DEADLOCK FALSE
