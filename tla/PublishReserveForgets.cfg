SPECIFICATION Spec
CONSTANTS
    Kinds = {"invenio"}
    Keys = {1}
    Contents = {1, 2}
    None = None
    Pending = Pending
    NoDraft = NoDraft
    MaxRecords = 3
    MaxVersions = 2
    MaxReserves = 1
    MaxEdits = 2
    MaxCrashes = 0
    MaxFaults = 0
    MaxTroubles = 1
    MaxForeign = 0
    Overlap = FALSE
    Forces = {FALSE}
    Unverified = {}
    Reserves = {TRUE, FALSE}
INVARIANTS
    ReservedGoesLive
