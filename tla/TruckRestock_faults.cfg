SPECIFICATION TruckSpec
CONSTANTS
    s1 = s1
    c1 = c1
    c2 = c2
    r1 = r1
    r2 = r2
    r3 = r3
    g1 = g1
    g2 = g2
    NoOrder = NoOrder
    Header = Header
    Orders = {s1}
    Restocks = {s1}
    Metrics = {s1, c1, c2}
    Robots = {r1, r2, r3}
    Slots = {g1, g2}
    Threshold = 2
    MaxDispatch = 1
    Lines = 2
    WorkFor <- MCNoWork
    Faults = {"loss", "crash", "redis", "expiry"}
    TruckFaults = {"db", "rpc", "crash"}
    AnalyticsFaults = {"drop", "disk", "crash"}
INVARIANT
    TruckTypeOK
    WorkIsRecorded
    CompletedIsStocked
    LoggedOnce
    OneHeader
    FinalizedAtMostOnce
SYMMETRY TruckSymmetry
CHECK_DEADLOCK FALSE
