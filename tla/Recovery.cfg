CONSTANTS
    n1 = n1
    u1 = u1
    c1 = c1
    c2 = c2
    App = App
    None = None
    Nodes = {n1}
    Users = {u1}
    Conns = {c1}
    Units = {b1, b2}
    Flushers = {}
    Owner <- OneConn
    MinTraffic = 1
    MaxBill = 2
    MaxStops = 1
    LossyReply = TRUE
    IoErrors = TRUE
    Churn = TRUE
    Generations <- PlainGenerations
    Addresses <- PlainAddresses
    Protocols = {"vless", "ss"}
    Lists = {l1, l2}
    NoGraph = nograph
    ReusePort = FALSE
    MaxFaults = 3
    MaxRequests = 3
    Streams = {"s", "t"}
    MaxStreams = 1
    MaxSniff = 2
    MaxSent = 3
    Pipes = {"f", "g"}
    Kind <- StreamAndMessage
    SpeedLimits = {0, 1, 2}
    BurstSeconds = 1
    MinChunk = 1
    MaxRead = 2
    MaxDatagram = 1
    InitialData = {0}
    MaxDebt = 0
SPECIFICATION RecoverySpec
CHECK_DEADLOCK FALSE
INVARIANT SettledNotReplayed
INVARIANT GraphSafe
PROPERTY EventuallyBilled
PROPERTY NodeRecovers
INVARIANT StreamsServed
PROPERTY StreamsEnd
PROPERTY RateServes
