SPECIFICATION FairSpec
CONSTANTS
    u1 = u1
    s1 = s1
    s2 = s2
    Units = {u1}
    Slots = {s1, s2}
    QueueDepth = 1
    Rare = {"crash", "quit", "stop", "pause", "restart", "abort", "lost", "final", "again", "unfit", "failure", "late", "detached"}
    MaxRare = 2
INVARIANTS
    TypeOK
    FinishedSurvives
    HeldOnce
PROPERTIES
    HeldNotReaped
    CopiesConclude
