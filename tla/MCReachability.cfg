CONSTANTS
    Parts = {"reachability", "incoming", "gossip", "oxend", "tcp"}
    r1 = r1
    r2 = r2
    c1 = c1
    a = a
    b = b
    c = c
    Relay <- MCRelay
    Chain <- MCChain
    MAX_RETESTS_PER_TICK = 1
    RETEST_BACKOFF = 1
    RETEST_NOISE <- MCNoise
    RETEST_MAX = 1
    MaxFails = 1
    MaxLate = 2
    MAX_TIME_WITHOUT_PING = 2
    MAX_TIME_INITIAL = 15
    WHINING_INTERVAL = 5
    MaxAge = 16
    GsPeer = {"p", "q"}
    GsOrigin = "o"
    GsOutdated = 2
    GsMaxLag = 1
    OxRelays = {a, b, c}
    OxStored = {a, c}
    OxLists <- MCOxLists
    OxMaxTries = 2
    TtMaxIds = 2
    TtUnits = 3
    TtAlarm = 1
    TtClear = 0
    TtWindow = 1
    TtIdle = 2
    TtMaxTime = 3
SPECIFICATION MCSpec
INVARIANTS RelayDuties_TypeOK NoRetestLost NothingTruncated
PROPERTIES RecoveryNoticed SilenceIsReported ContentsReachAll ListFollowsChain PairsEnd
CHECK_DEADLOCK FALSE
