SPECIFICATION Spec
CONSTANTS
    c1 = c1
    s1 = s1
    r1 = r1
    r2 = r2
    r3 = r3
    g1 = g1
    g2 = g2
    NoOrder = NoOrder
    Orders = {c1, s1}
    Restocks = {s1}
    Robots = {r1, r2, r3}
    Slots = {g1, g2}
    Threshold = 3
    MaxDispatch = 1
    Lines = 2
    WorkFor <- MCWorkFor
    Faults = {"loss", "lookup", "service", "crash", "redis", "expiry"}
INVARIANTS
    TypeOK
    FinalizedAfterAllReports
PROPERTY
    ImplementsOnce
CHECK_DEADLOCK FALSE
