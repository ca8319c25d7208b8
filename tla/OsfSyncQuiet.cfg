SPECIFICATION Spec
SYMMETRY ContentSymmetry
CONSTANTS
    Files = {1}
    Wikis = {2}
    a = a
    b = b
    c = c
    Contents = {a, b, c}
    None = None
    Partial = Partial
    Commands = {"sync", "push", "pull"}
    Forces = {TRUE, FALSE}
    Resolves = {"", "ours", "theirs"}
    Blinds = {FALSE}
    Conflicts = {"skip"}
    MaxVersions = 3
    MaxEdits = 1
    MaxForeign = 1
    MaxDeletes = 0
    MaxCrashes = 1
    MaxFaults = 1
    MaxUnreadable = 1
    MaxTroubles = 1
    EditsOverlap = FALSE
    ForeignOverlap = FALSE
INVARIANTS
    InSyncIsSame
    PinTrue
    SyncSettles
PROPERTIES
    LocalWorkKept
    NewerNotBuried
