SPECIFICATION SessionSpec
CONSTANTS
    p1 = p1
    p2 = p2
    d1 = d1
    d2 = d2
    e1 = e1
    e2 = e2
    w1 = w1
    w2 = w2
    None = None
    Pages = {p1, p2}
    Devices = {d1, d2}
    Emails = {e1, e2}
    Passwords = {w1, w2}
    TooLong = {w2}
    AccessLife = 3
    RefreshLife = 4
    Timeout = 1
    MaxTime = 6
    SessionFaults = {"loss", "db", "cache"}
INVARIANTS
    SessionTypeOK
    RegisteredCanLogin
    OneSessionPerPage
    SessionEnds
    RefusedOnlyAtTheEnd
SYMMETRY SessionSymmetry
CHECK_DEADLOCK FALSE
