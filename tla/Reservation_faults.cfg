SPECIFICATION Spec
CONSTANTS
    a = a
    b = b
    k1 = k1
    k2 = k2
    k3 = k3
    Skus = {a, b}
    Calls = {k1, k2, k3}
    Want <- MCWant
    InitStock <- MCStock
    MaxQuantity = 4
    MaxRestock = 3
    Faults = {"statement", "rows"}
INVARIANTS
    TypeOK
    Conserved
PROPERTY
    ImplementsAtomic
CHECK_DEADLOCK FALSE
