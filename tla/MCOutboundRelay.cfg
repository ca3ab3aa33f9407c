CONSTANTS
    Parts = {"relay", "hops", "inbound", "client", "handshake"}
    p1 = p1
    p2 = p2
    r1 = r1
    r2 = r2
    r3 = r3
    r4 = r4
    h1 = h1
    h2 = h2
    None = None
    Path <- MCPath
    BACKOFF_THRESHOLD = 2
    max_missed_pings = 1
    MaxPings = 1
    target_paths = 2
    HopRelay = {r1, r2, r3, r4}
    HopNet <- MCHopNet
    HopNumHops = {3, 4}
    HopBuildLength = 4
    HopChances = 2
    HopMaxTimeouts = 2
    IpRelay = {r1, r2, r3}
    IpReuse = 1
    IpTarget = 3
    IpMaxSlots = 2
    IpSlot = 2
    IpFuzz = 1
    IpMany = 10
    IpMaxTime = 3
    CpRelays = {r1, r2}
    CpKnown = {r1}
    CpHops = {h1, h2}
    CpIds = {1, 2}
    CpTarget = 2
    CpNone = CpNone
    CpDead = CpDead
    HsClient = {c1}
    HsMaxInit = 3
    HsMaxTag = 2
    HsMaxData = 2
SPECIFICATION MCSpec
INVARIANTS Paths_TypeOK ContextAgrees CurrentIsRoutedOrDead HopsKeptApart ExpiriesSpread KeysAgree
PROPERTIES OnlyLateBuildsStray LeavingContextIsDeath SessionHeals KeepsHandlerContract
CHECK_DEADLOCK FALSE
