CONSTANTS
    Parts = {"nodedb"}
    c1 = c1
    c2 = c2
    c3 = c3
    r1 = r1
    r2 = r2
    r3 = r3
    s1 = s1
    s2 = s2
    None = None
    Relay <- MCRelay
    Conn <- MCConn
    Unstable = {2}
    NdRelay = {r1, r2, r3}
    NdOld = {r1, r2}
    NdNew = {r2, r3}
    NdInbound = {s1}
    NdOutbound = {s2}
    NdBoots = 1
    NdMinActive = 2
    NdMaxChains = 2
    NdLookup = {1}
    RcRid = {"a", "b"}
    RcContent = {"x", "y"}
    RcMinAge = 1
    RcLifetime = 2
    RcMaxTime = 3
    RcMaxQueue = 2
    ZtMax = 2
    ZtMaxIds = 3
    ZtMaxStarts = 2
SPECIFICATION MCSpec
PROPERTY RoundsGoOn
CHECK_DEADLOCK FALSE
