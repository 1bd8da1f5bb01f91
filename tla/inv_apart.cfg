CONSTANTS
    r1 = r1
    r2 = r2
    w1 = w1
    w2 = w2
    Requests = {r1, r2}
    Warehouses = {w1, w2}
    Kinds <- AllKinds
    Quantities = {1, 2}
    Points = {0}
    Maxima = {2}
    DefaultPoint = 1
    Apart = TRUE
    Faults = FALSE
    Cap = 2
SYMMETRY Interchangeable
SPECIFICATION Spec
INVARIANTS
    TrailMatchesLevel
    ActiveAlertIsDue
PROPERTY
    ImplementsWarehouseLedger
