SPECIFICATION FairSpec
CONSTANTS
    Attempt = {a1, a2}
    Pub = {p1, p2, p3}
    NoPub = NoPub
    Commit = {h1, h2}
    RunHead = h1
    Mode = {"publish"}
    PlanOutcome = {"planned", "skipped_no_findings"}
    Fault = {"write_rejected"}
    FaultClass = {"retryable"}
    MaxCrashes = 2
CHECK_DEADLOCK FALSE
INVARIANTS
    NoOrphanReview
    AtMostOneReview
PROPERTIES
    ImplementsPublishOnce
    EveryAttemptEnds
    RecoveryCompletes
