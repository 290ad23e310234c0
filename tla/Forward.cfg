CONSTANTS
    Dirs = {1, 2}
    Input <- ThreeBytes
    BaseSize = 2
    BulkSize = 3
    PingDirs = {1}
    Assocs = {"a", "b"}
    Forwarders = {1, 2}
    MaxDials = 2
    MaxSessions = 2
    PacketCap = 1
    Flows = {1}
    MaxIds = 2
    SessionCap = 1
    CreateCap = 1
    PoolMax = 1
    PerSession = 1
    KeepIdle = 1
    UploadPlans <- TwoPlans
    MaxBuffered = 1
    ReapAfter = 0
    IdleAfter = 1
    MaxXhttpSessions = 2
    MaxGets = 2
    MaxPolls = 1
    Peers = {"p", "q"}
    IpOf <- OneIp
    Convs = {1, 2}
    MaxTable = 2
    MaxPerIp = 1
    QueueCap = 1
    MaxGen = 3
    MaxPackets = 3
SPECIFICATION ForwardSpec
CHECK_DEADLOCK FALSE
INVARIANT RelaySafe
INVARIANT UdpSessionsSafe
INVARIANT XhttpSafe
INVARIANT KcptunSafe
PROPERTY HalfCloseReclaimed
PROPERTY UdpForwardingGoesOn
PROPERTY SilentIsReclaimedUnlessStuck
PROPERTY XhttpGoesOn
PROPERTY KcptunReclaims
