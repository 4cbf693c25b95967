SPECIFICATION Spec
CONSTANTS
    a1 = a1
    Units = {1, 2}
    Accounts = {a1}
    Redundancy = 1
    SpotChecks = TRUE
    InflightCap = 2
    ReadyPoolSize = 1
    LowWatermark = 1
    RefillBatchSize = 1
    FlushBatchSize = 2
    CooldownsEnd = FALSE
    Flusher = flusher
    Rare = {"dbError", "giveBack", "noSlot", "leafDemand"}
    MaxRare = 1
CHECK_DEADLOCK FALSE
INVARIANTS
    TypeOK
    FlushSettles
