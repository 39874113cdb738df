SPECIFICATION PassSpec
CONSTANTS
    Candidate = {1, 2}
    Role = {"unified", "security", "correctness"}
    Job <- RunJobs
    Critique <- RunCritiques
    MaxConcurrent = 2
    FailurePolicy = "hold_for_review"
    InputEstimate <- TwoEach
    InputUsage = {1, 3}
    RetryLimit = 0
    HasFallback = TRUE
    MaxTotalInput = 7
    MaxCalls = 4
    CriticCalls = 1
    MaxRetryAttempts = 1
    Timed = TRUE
    NoRequest = NoRequest
CHECK_DEADLOCK FALSE
INVARIANTS
    EscalationsOnlyAdd
