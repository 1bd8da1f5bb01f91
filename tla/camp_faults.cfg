SPECIFICATION Spec
CONSTANTS
    Phones = {a}
    Customers = {}
    Senders = {s1, s2}
    Editors = {e1}
    NewStatuses = {"draft"}
    Attempts = 2
    BatchSize = 1
INVARIANTS TypeOK SentIsDelivered DeliveredWithinAttempts
CHECK_DEADLOCK FALSE
