CONSTANTS
    Lookups = {"x", "y"}
    MaxBuilds = 3
    Setups <- ThreeSetups
    Dests <- ThreeDests
    Protos = {"none", "bt"}
    Judges = {1, 2}
    Answers <- FoundOrNot
    CacheCap = 1
    RuleThreshold = 1
    MaxJudged = 3
    MaxAnswers = 1
    Users = {u1}
    IPs = {i1, i2}
    Conns = {c1, c2, c3}
    Limits = {0, 1}
    PanelCounts = {0, 1}
    MinOnline = 1
    MaxTraffic = 1
    Uids = {id1, id2}
    Versions = {absent, v1}
    Absent = absent
    Configs = {cfg1, cfg2}
    None = none
    CompactLen = 2
    MaxRev = 4
    MaxCrashes = 2
    MigrationMayFail = FALSE
    Ids = {1, 2, 3}
    Payloads <- ThreePayloads
    NoUser = nouser
    InPlaceLimit = 2
    MaxUpdates = 2
    MaxRemoved = 2
    Bursts <- ThreeBursts
    MaxEntries = 2
    MaxBytes = 3
    MaxPacket = 3
    MaxDups = 1
    Flows = {1, 2}
    MaxIds = 2
    SessionCap = 1
    CreateCap = 1
    PoolMax = 1
    PerSession = 1
    KeepIdle = 1
    Pipes = {"f", "g"}
    Kind <- StreamAndMessage
    SpeedLimits = {0, 1, 2}
    BurstSeconds = 1
    MinChunk = 1
    MaxRead = 2
    MaxDatagram = 1
    InitialData = {0, 1}
    MaxDebt = 0
    Streams <- SixStreams
    FilterCount = 2
    SessCap = 3
    LenMod = 3
SPECIFICATION TablesSpec
SYMMETRY Symmetry
CHECK_DEADLOCK FALSE
INVARIANT TrackedExactly
INVARIANT StoreConsistent
INVARIANT DeltasAgree
INVARIANT ReassemblySafe
INVARIANT RouterSafe
INVARIANT ResolverSafe
INVARIANT DecisionsJustified
PROPERTY LimitRespected
PROPERTY Implements
INVARIANT RateHeld
INVARIANT VisionSafe
