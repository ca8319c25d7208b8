SPECIFICATION FairSpec
CONSTANTS
    Files = {1}
    Wikis = {2}
    a = a
    b = b
    Contents = {a, b}
    None = None
    Partial = Partial
    Commands = {"sync", "put"}
    Forces = {FALSE}
    Resolves = {""}
    Blinds = {FALSE}
    Conflicts = {"elsewhere"}
    MaxVersions = 2
    MaxEdits = 1
    MaxForeign = 1
    MaxDeletes = 1
    MaxCrashes = 1
    MaxFaults = 0
    MaxUnreadable = 1
    MaxTroubles = 1
    EditsOverlap = TRUE
    ForeignOverlap = TRUE
PROPERTIES
    SyncEnds
