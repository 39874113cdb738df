SPECIFICATION FairSpec
CONSTANTS
    PullRequest = {p, q}
    Nothing = Nothing
    MaxRetries = 1
    MaxCommits = 2
    MaxChains = 2
    MaxFaults = 2
INVARIANTS
    OneCheckPerHead
    CheckTellsOutcome
    StaleOnlyIfReplaced
PROPERTY EveryCheckCompletes
CHECK_DEADLOCK FALSE
