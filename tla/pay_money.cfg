SPECIFICATION Spec
CONSTANTS
    pay1 = pay1
    a = a
    b = b
    Payments = {pay1}
    Procs = {a, b}
    Amount = 1
INVARIANTS TypeOK BookedIsReceived  HandledOnce
CHECK_DEADLOCK FALSE
SYMMETRY Handlers
