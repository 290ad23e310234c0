CONSTANTS
    MuxSessions = {"A", "B"}
    MuxStreams = {"s1", "s3"}
    SessionOf <- OneStreamEach
    BudgetMax <- TightFirst
    FrameLengths = {1}
    QueueFrames = 1
    MaxFrames = 3
    StreamIds = {1, 2}
    StreamLimit = 1
    OutCapacity = 2
    MaxPayloads <- Payloads
    MaxWrites <- Writes
    AnyIds = {1, 2}
    MaxOpens = 2
    AnyLimit = 1
    InCapacity = 1
    AnyOutCap = 1
    MaxData = 1
    Numberings <- ReusedOrNew
SPECIFICATION Spec
CHECK_DEADLOCK FALSE
INVARIANT BudgetSafe
INVARIANT StreamPromise
INVARIANT AnySafe
PROPERTY Delivery
PROPERTY SessionPromise
PROPERTY RecvGoesOn
