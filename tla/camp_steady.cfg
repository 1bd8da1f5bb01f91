SPECIFICATION SteadySpec
CONSTANTS
    Phones = {a, b, c}
    Customers = {}
    Senders = {s1}
    Editors = {}
    NewStatuses = {"draft"}
    Attempts = 2
    BatchSize = 2
INVARIANTS CompletedIsProcessed MessagedOnce
PROPERTIES AllProcessed CampaignCompletes
CHECK_DEADLOCK FALSE
