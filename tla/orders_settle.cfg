SPECIFICATION OrderSpec
CONSTANTS
    o1 = o1
    o3 = o3
    u1 = u1
    a = a
    b = b
    d = d
    c = c
    Orders = {o1}
    Units = {u1}
    Procs = {a, b, d, c}
    Cleaners = {c}
    UnitOf <- MCUnitOf
    Qty <- MCQty
    MaxQty = 2
    InitialStock <- MCInitialStock
    Adjustments <- NoAdjustments
    MaxAdjusts = 0
    Targets <- ShipmentOrCancel
INVARIANTS OrderTypeOK SoldIsPaid PaidInTimeIsSold SettledIsOver
PROPERTY ImplementsReservation
SYMMETRY Handlers
CHECK_DEADLOCK FALSE
