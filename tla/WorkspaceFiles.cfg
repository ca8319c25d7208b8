SPECIFICATION FairSpec
CONSTANTS
    Users = {u, v}
    Keys = {1, 2}
    a = a
    b = b
    Contents = {a, b}
    None = None
    Author = u
    Original = a
    u = u
    v = v
    Keep = 0
    MaxEvents = 2
    MaxEdits = 1
    EditsOverlap = FALSE
    MaxFaults = 1
PROPERTIES
    PullKeepsWork
    PushKeepsNewer
    RemedyWorks
    UsersSettle
