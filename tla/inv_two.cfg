CONSTANTS
    r1 = r1
    r2 = r2
    w1 = w1
    w2 = w2
    Requests = {r1, r2}
    Warehouses = {w1}
    Kinds <- AllKinds
    Quantities = {1}
    Points = {0, 2}
    Maxima = {}
    DefaultPoint = 1
    Apart = FALSE
    Faults = TRUE
    Cap = 2
SYMMETRY OneWarehouse
SPECIFICATION Spec
INVARIANTS
    TypeOK
    
