SPECIFICATION Spec
CONSTANTS
    Finding = {f1}
    Head = {h1, h2, h3}
    Call = {a1, a2}
    MaxActive = 1
    MaxPerFinding = 2
    HasVerifier = TRUE
    HasCritic = TRUE
    MaxDeaths = 1
SYMMETRY Symmetry
INVARIANTS
    AttemptsAreKept
