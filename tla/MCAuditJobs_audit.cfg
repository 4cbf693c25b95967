SPECIFICATION FairSpec
CONSTANTS
    r1 = r1
    r2 = r2
    r3 = r3
    c1 = c1
    c2 = c2
    h1 = h1
    h2 = h2
    accepted = accepted
    unreadable = unreadable
    w1 = w1
    w2 = w2
    Runners = {r1, r2, r3}
    HRClass <- ClassOf
    Pinned = none
    Accepted = accepted
    Unreadable = unreadable
    Wrong = {w1, w2}
    Enforcement = TRUE
    MaxAttempts = 2
    MaxConfirmationAttempts = 2
    Heads = {h1, h2}
    None = none
    MaxOriginals = 1
    MaxRows = 3
    Rare = {"lost", "gone", "crash", "registry", "failover"}
    MaxRare = 1
CHECK_DEADLOCK FALSE
INVARIANTS
    TypeOK
    TwoRunnersRefuted
    ConfirmersAreFresh
PROPERTIES
    RootsResolve
