CONSTANTS
    Generations <- CombinedGenerations
    Addresses <- CombinedAddresses
    Protocols = {"vless", "naive"}
    Lists = {l1}
    NoGraph = nograph
    ReusePort = TRUE
    MaxFaults = 1
    MaxRequests = 1
SPECIFICATION GraphSpec
CHECK_DEADLOCK FALSE
INVARIANT PartialStartAborted
