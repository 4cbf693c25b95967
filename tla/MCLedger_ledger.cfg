SPECIFICATION FairSpec
CONSTANTS
    r1 = r1
    r2 = r2
    r3 = r3
    Results = {r1, r2, r3}
    Audited = {r1, r3}
    Truthful = {r3}
    Account <- OneCheat
    Unmatured = {r2}
    Amount = 2
    Capped = TRUE
    MaxFaults = 2
    MaxClaws = 1
CHECK_DEADLOCK FALSE
INVARIANTS
    NetNeverNegative
    FraudUnpaid
    RACUnwound
PROPERTIES
    AttestedNetSettles
    EnforcedInTheEnd
