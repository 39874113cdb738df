SPECIFICATION Spec
CONSTANTS
    Attempt = {a1, a2}
    Pub = {p1, p2, p3}
    NoPub = NoPub
    Commit = {h1, h2}
    RunHead = h1
    Mode = {"publish", "dry_run"}
    PlanOutcome = {"planned", "skipped_no_findings", "disabled"}
    Fault = {"read_error", "write_rejected", "response_lost", "slow_attempt"}
    FaultClass = {"retryable"}
    MaxCrashes = 1
CHECK_DEADLOCK FALSE
SYMMETRY Symmetry
INVARIANTS
    OneCanonicalRow
    PublishedIsBacked
    WrittenAsPlanned
