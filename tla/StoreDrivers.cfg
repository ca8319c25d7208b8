SPECIFICATION Spec
SYMMETRY Symmetric
CONSTANTS
    Drivers = {"dir", "sftp", "s3"}
    Posix = {TRUE, FALSE}
    Rooted = {TRUE, FALSE}
    Together = {"dir", "s3"}
    Names <- OneObject
    Longer <- ShortLong
    short = short
    long = long
    a = a
    b = b
    Contents = {a, b}
    None = None
    Torn = Torn
    v = v
    w = w
    Writers = {v, w}
    MaxTemps = 3
    MaxLeft = 1
    MaxCrashes = 1
    MaxFaults = 1
INVARIANTS
    TypeOK
    ListingsClean
PROPERTIES
    ObjectStoreSpec
