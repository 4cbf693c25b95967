SPECIFICATION Spec
CONSTANTS
    v1 = v1
    v2 = v2
    v3 = v3
    t1 = t1
    t2 = t2
    o1 = o1
    o2 = o2
    o3 = o3
    Volunteers = {v1, v2, v3}
    Threads = {t1, t2}
    Subject <- Siblings
    Trusted = {v1, v2}
    Outputs = {o1, o2}
    Unreadable = {}
    Truth = o3
    Versions = {1}
    Standings = {"OK"}
    Holds = {FALSE}
    Leaf <- LeafPair
    TrustGate = TRUE
    DefaultK = 1
    EmissionCap = FALSE
    LockHonored = TRUE
    MaxRows = 1
    Budget <- CoreEvents
    Apart = {}
SYMMETRY SiblingsSymmetric
CHECK_DEADLOCK FALSE
INVARIANTS
    TypeOK
    NoPendingUnderTerminal
PROPERTIES
    AcceptsAreSound
    ImplementsLifecycle
