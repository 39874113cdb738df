SPECIFICATION LiveSpec
CONSTANTS
    Candidate = {c1,c2}
    Role = {r1,r2}
    Job <- RunJobs
    Critique <- RunCritiques
    MaxConcurrent = 1
    FailurePolicy = "fail_open"
    InputEstimate <- TwoEach
    InputUsage = {1, 3}
    RetryLimit = 1
    HasFallback = TRUE
    MaxTotalInput = 6
    MaxCalls = 4
    CriticCalls = 1
    MaxRetryAttempts = 1
    Timed = TRUE
    NoRequest = NoRequest
CHECK_DEADLOCK FALSE
INVARIANTS
    PoolKept
    RefusalNeverPublishes
    RefusalEndsPartial
PROPERTIES
    ImplementsLedger
    RunEnds
