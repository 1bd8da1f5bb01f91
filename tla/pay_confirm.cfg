SPECIFICATION SerialSpec
CONSTANTS
    pay1 = pay1
    a = a
    b = b
    Payments = {pay1}
    Procs = {a, b}
    Amount = 1
INVARIANT CapturedConfirms
CHECK_DEADLOCK FALSE
SYMMETRY Handlers
