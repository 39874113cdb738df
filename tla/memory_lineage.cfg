SPECIFICATION Spec
CONSTANTS
    Task = {t1, t2, t3}
    Commit = {c1, c2}
    BaseCommit = base
    base = base
    c1 = c1
    c2 = c2
    c3 = c3
    Unit = {load, top}
    Region = {top}
    load = load
    top = top
    FileOf <- OneFile
    Rank <- Priority
    Body <- Bodies
    NoBody = NoBody
    Ancestor <- History
    Model = {m1}
    ModelOf <- OneModel
    MaxCandidates = 2
    MaxCrashes = 1
CHECK_DEADLOCK FALSE
SYMMETRY Symmetry
INVARIANTS
    OneSucceededPerIdentity
    GenerationsMatchRuns
    SkippedCodeWasOffered
    SymbolFindingsAreTracked
PROPERTIES
    SucceededIsFinal
    ResolvedAfterALook
