SPECIFICATION Spec
CONSTANTS
    a = a
    b = b
    m1 = m1
    m2 = m2
    Nobody = Nobody
    Skus = {a, b}
    Manifests = {m1, m2}
    Units <- MCUnits
    Cost <- MCCost
    MaxSold = 0
    Faults = {}
INVARIANT
    LatestUnitCost
CHECK_DEADLOCK FALSE
