SPECIFICATION FairSpec
CONSTANTS
    a = a
    b = b
    m1 = m1
    m2 = m2
    Nobody = Nobody
    Skus = {a, b}
    Manifests = {m1, m2}
    Units <- MCUnits
    Cost <- MCCost
    MaxSold = 1
    Faults = {"statement", "push", "crash"}
INVARIANTS
    TypeOK
    PricedFromStoredLine
    PriceFollowsStock
    BilledUnlessPushing
PROPERTY
    EventuallyPriced
CHECK_DEADLOCK FALSE
