SPECIFICATION FairOrderSpec
CONSTANTS
    o1 = o1
    o3 = o3
    u1 = u1
    a = a
    b = b
    d = d
    c = c
    Orders = {o1, o3}
    Units = {u1}
    Procs = {a, c}
    Cleaners = {c}
    UnitOf <- MCUnitOf
    Qty <- MCQty
    MaxQty = 2
    InitialStock <- MCInitialStock
    Adjustments <- NoAdjustments
    MaxAdjusts = 0
    Targets <- CancelOnly
PROPERTIES ExpiredIsReleased CancelledStockReturns
CHECK_DEADLOCK FALSE
