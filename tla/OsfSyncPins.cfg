SPECIFICATION Spec
SYMMETRY ContentSymmetry
CONSTANTS
    Files = {1}
    Wikis = {}
    a = a
    b = b
    c = c
    Contents = {a, b, c}
    None = None
    Partial = Partial
    Commands = {"sync", "push", "pull", "put", "get"}
    Forces = {TRUE, FALSE}
    Resolves = {""}
    Blinds = {TRUE, FALSE}
    Conflicts = {"skip", "overwrite"}
    MaxVersions = 3
    MaxEdits = 2
    MaxForeign = 2
    MaxDeletes = 1
    MaxCrashes = 0
    MaxFaults = 1
    MaxUnreadable = 1
    MaxTroubles = 1
    EditsOverlap = TRUE
    ForeignOverlap = TRUE
INVARIANTS
    PinTrue
    NoTruncatedVersion
