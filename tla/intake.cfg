SPECIFICATION Spec
CONSTANTS
    Installation = {i1, i2}
    Established = {i1}
    Nobody = Nobody
    AllowlistMode = TRUE
    MaxMessages = 3
    MaxCrashes = 1
    DailyLimit = 1
CHECK_DEADLOCK FALSE
INVARIANTS
    AdmittedOnce
    InstallationSynced
    StoredIsCurrent
PROPERTIES
    AllowlistHolds
