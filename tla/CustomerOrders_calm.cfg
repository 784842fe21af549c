SPECIFICATION OrdersFairSpec
CONSTANTS
    c1 = c1
    c2 = c2
    r1 = r1
    r2 = r2
    g1 = g1
    g2 = g2
    k1 = k1
    k2 = k2
    x1 = x1
    x2 = x2
    NoOrder = NoOrder
    Orders = {c1}
    Restocks = {}
    Robots = {r1, r2}
    Slots = {g1, g2}
    Threshold = 2
    MaxDispatch = 2
    Lines = 0
    WorkFor <- MCNoWork
    Confirms = {k1, k2}
    Cancels = {x1, x2}
    Patient = TRUE
    Faults = {}
    OrderingFaults = {}
INVARIANT
    NeverStranded
PROPERTIES
    CompletedForGood
    ImplementsLifecycle
CHECK_DEADLOCK FALSE
