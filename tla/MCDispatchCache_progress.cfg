SPECIFICATION FairSpec
CONSTANTS
    a1 = a1
    Units = {1}
    Accounts = {a1}
    Redundancy = 1
    SpotChecks = TRUE
    InflightCap = 1
    ReadyPoolSize = 1
    LowWatermark = 1
    RefillBatchSize = 1
    FlushBatchSize = 1
    CooldownsEnd = TRUE
    Flusher = flusher
    Rare = {"lostReply", "elsewhere", "dbError", "slowCount", "giveBack", "crash", "invalidate", "noSlot", "leafDemand", "unbuildable"}
    MaxRare = 1
CHECK_DEADLOCK FALSE
PROPERTIES
    GhostCopiesReturn
    NoUnitForgotten
