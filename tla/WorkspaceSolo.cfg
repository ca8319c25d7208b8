SPECIFICATION FairSpec
CONSTANTS
    Clients = {c1}
    Contents = {1, 2, 3}
    None = None
    Keep = 1
    MaxAttempts = 50
    MaxEvents = 3
    MaxCrashes = 2
    MaxForeign = 1
    Overlap = FALSE
    MaxFaults = 0
    TempFiles = TRUE
INVARIANTS
    Revertible
    JournalNumbered
    RecoverableHonest
    ReadsRight
PROPERTIES
    VersionStoreSpec
    GCKeepsBudget
    PushAnswered
