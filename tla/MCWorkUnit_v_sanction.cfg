SPECIFICATION Spec
CONSTANTS
    v1 = v1
    v2 = v2
    v3 = v3
    t1 = t1
    t2 = t2
    o1 = o1
    o2 = o2
    o3 = o3
    Volunteers = {v1, v2, v3}
    Threads = {t1, t2}
    Subject <- SubjectIsSelf
    Trusted = {}
    Outputs = {o1, o2}
    Unreadable = {}
    Truth = o1
    Versions = {1}
    Standings = {"OK"}
    Holds = {FALSE}
    Leaf <- LeafMajority
    TrustGate = FALSE
    DefaultK = 0
    EmissionCap = FALSE
    LockHonored = TRUE
    MaxRows = 1
    Budget <- EnforceCrash
    Apart = {}
SYMMETRY OutputsAsymmetric
CHECK_DEADLOCK FALSE
INVARIANTS
    HonestNotSanctioned
