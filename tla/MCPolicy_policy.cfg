SPECIFICATION Spec
CONSTANTS
    Leafs <- SmallLeafs
    Gate = TRUE
    DefaultTrust = 1
    MaxCeiling = 6
    Refunds <- SomeRefunds
    Snapshots <- SmallSnapshots
INVARIANTS
    PolicyParity
    DeadLetterExecutes
    WaitsForSomething
