SPECIFICATION Spec
SYMMETRY ClientSymmetry
CONSTANTS
    Clients = {c1, c2}
    Contents = {1, 2}
    None = None
    Keep = 0
    MaxAttempts = 2
    MaxEvents = 2
    MaxCrashes = 0
    MaxForeign = 0
    Overlap = FALSE
    MaxFaults = 1
    TempFiles = TRUE
INVARIANTS
    ObjectJournaled
