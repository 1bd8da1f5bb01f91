SPECIFICATION OneByOneSpec
CONSTANTS
    o1 = o1
    o3 = o3
    u1 = u1
    a = a
    b = b
    d = d
    c = c
    Orders = {o1, o3}
    Units = {u1}
    Procs = {a, b, c}
    Cleaners = {c}
    UnitOf <- MCUnitOf
    Qty <- MCQty
    MaxQty = 2
    InitialStock <- MCInitialStock
    Adjustments <- Deliveries
    MaxAdjusts = 1
    Targets <- ShipmentOrCancel
INVARIANTS  ReservedIsHeld
CHECK_DEADLOCK FALSE
