SPECIFICATION FeedbackSpec
CONSTANTS
    Comment = {c1}
    Reaction = {r1, r2}
    Reply = {p1}
    On <- OnFirst
    Hint <- Negative
    Sync = {s1, s2}
    MaxChanges = 3
SYMMETRY SyncSymmetry
INVARIANTS
    FeedbackMirrorsGitHub
