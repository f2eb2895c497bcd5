CONSTANTS
    Calls = {c1}
    Parties = {p1, p2}
    Jobs = {j1}
    Workers = {w1, w2}
    MaxAttempts = 3
    MaxFaults = 2
    NoCall = NoCall
    NoJob = NoJob
SPECIFICATION FairSpec
CHECK_DEADLOCK FALSE
INVARIANTS
    FailedWhenExhausted
    CompletedWasSwept
    OnlyOldTokensReenter
PROPERTIES
    JobsSettle
