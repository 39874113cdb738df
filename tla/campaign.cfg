SPECIFICATION Spec
CONSTANTS
    Repo = {r1}
    Run = {u1, u2, u3}
    Nothing = Nothing
    MaxCommits = 2
    MaxFaults = 1
    Policy <- ManualApproval
    Evidence = {"fresh", "stale"}
    Outcomes = {"verified"}
CHECK_DEADLOCK FALSE
SYMMETRY Symmetry
INVARIANTS
    OnePull
    ResolvedIsEarned
PROPERTY VersionTellsChange
