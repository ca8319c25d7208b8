SPECIFICATION PullSpec
SYMMETRY ContentSymmetry
CONSTANTS
    Kinds = {"invenio", "figshare", "dataverse"}
    Keys = {1, 2}
    a = a
    b = b
    Contents = {a, b}
    None = None
    Pending = Pending
    NoDraft = NoDraft
    MaxRecords = 2
    MaxVersions = 2
    MaxReserves = 0
    MaxEdits = 2
    MaxCrashes = 1
    MaxFaults = 1
    MaxTroubles = 1
    MaxForeign = 1
    Overlap = FALSE
    Forces = {TRUE, FALSE}
    Unverified = {2}
    Reserves = {FALSE}
    MaxPulls = 1
    Latests = {TRUE, FALSE}
INVARIANTS
    PublishedIsLocal
    PinNamesVersionUndisturbed
    PinsServed
    InSyncIsPublished
    OneRecord
    FailureDiscards
PROPERTIES
    GateHolds
