SPECIFICATION ExclusiveSpec
CONSTANTS
    o1 = o1
    o2 = o2
    o3 = o3
    u1 = u1
    a = a
    b = b
    c = c
    Orders = {o1, o2, o3}
    Units = {u1}
    Procs = {a, b, c}
    Cleaners = {c}
    UnitOf <- MCUnitOf
    Qty <- MCQty
    MaxQty = 2
    InitialStock <- MCInitialStock
    Adjustments <- Deliveries
    MaxAdjusts = 2
INVARIANTS TypeOK VersionCountsCommits NoOversell StockIsUnsold
PROPERTY ImplementsLedger
SYMMETRY Symmetry
CHECK_DEADLOCK FALSE
