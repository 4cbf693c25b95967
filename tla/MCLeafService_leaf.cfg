SPECIFICATION FairSpec
CONSTANTS
    r1 = r1
    r2 = r2
    q1 = q1
    q2 = q2
    Replicas = {r1, r2}
    Requests = {q1, q2}
    ServedBy <- OneEach
    Staging = {r1}
    Trials = 3
    LazyBatchSize = 2
    LazyThreshold = 1
    MaxFaults = 1
    MaxRequests = 2
CHECK_DEADLOCK FALSE
INVARIANTS
    TypeOK TrialsOnce ExhaustedIsDone
PROPERTIES
    GenerationFinishes SnapshotsConverge
