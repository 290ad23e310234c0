CONSTANTS
    n1 = n1
    u1 = u1
    c1 = c1
    c2 = c2
    App = App
    None = None
    Nodes = {n1}
    Users = {u1}
    Conns = {c1}
    Units = {b1, b2}
    Flushers = {f1}
    Owner <- OneConn
    MinTraffic = 1
    MaxBill = 3
    MaxStops = 0
    LossyReply = FALSE
    IoErrors = FALSE
    Churn = FALSE
SPECIFICATION Spec
SYMMETRY UnitSymmetry
INVARIANT ShutdownKeepsTraffic
CHECK_DEADLOCK FALSE
