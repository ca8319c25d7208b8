SPECIFICATION FairSpec
CONSTANTS
    Kinds = {"invenio", "figshare", "dataverse"}
    Keys = {1}
    Contents = {1, 2}
    None = None
    Pending = Pending
    NoDraft = NoDraft
    MaxRecords = 4
    MaxVersions = 2
    MaxReserves = 1
    MaxEdits = 1
    MaxCrashes = 1
    MaxFaults = 1
    MaxTroubles = 2
    MaxForeign = 1
    Overlap = TRUE
    Forces = {TRUE, FALSE}
    Unverified = {1}
    Reserves = {TRUE, FALSE}
PROPERTIES
    Converges
