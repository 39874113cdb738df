SPECIFICATION Spec
CONSTANTS
    Call = {c1, c2, c3}
    Model = {cheap, dear, unpriced}
    cheap = cheap
    dear = dear
    unpriced = unpriced
    Unpriced = Unpriced
    Rate <- Prices
    NoLimit = NoLimit
    NoRequest = NoRequest
    Limit <- TightLimit
    TierTotal = 2
    TierReserve = 1
    RepositoryCalls = 5
    MaxRetries = 1
    Timed = TRUE
    Estimate <- Estimates
    Usage <- Usages
CHECK_DEADLOCK FALSE
SYMMETRY Symmetry
INVARIANTS
    LedgerExact
    CeilingHeld
    RefusalIsReported
    ReserveIsKept
