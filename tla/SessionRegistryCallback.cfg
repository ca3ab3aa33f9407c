CONSTANTS
    Parts = {"registry"}
    relay = relay
    client = client
    s1 = s1
    s2 = s2
    c1 = c1
    r1 = r1
    r2 = r2
    r3 = r3
    None = None
    Remote <- MCRemote
    Relay <- MCRelay
    Session <- MCSession
    Callback <- MCCallback
    MaxTag = 2
    CcRelay = {r1, r2}
    CcRanking <- MCRanks
    CcLocations = 2
    CcLifetime = 2
    CcMaxTime = 2
    CcIntroLife = 1
    CcMaxSigned = 2
    LcAlive = 1
    LcMaxHalts = 2
SPECIFICATION MCSpec
INVARIANT ExactlyOneCallback
CHECK_DEADLOCK FALSE
