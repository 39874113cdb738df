\* The decisions that are functions, over every small input.  After its choice
\* of an input the system stops.
CONSTANT
    SchemaDepth = 8
INIT Init
NEXT Next
CHECK_DEADLOCK FALSE
INVARIANTS
    NothingIsLost
    WorseEvidenceNeverHelps
    LimitsHold
