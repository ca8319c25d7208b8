SPECIFICATION MigrateSpec
CONSTANTS
    p1 = p1
    p2 = p2
    Procs = {p1, p2}
    None = None
    Own = Own
    Paths <- McPaths
    Remotes <- McRemotes
    Pages <- McPages
    Projects <- McProjects
    Slugs <- McSlugs
    PageSlug <- McPageSlug
    Archives = {"archive", "workspace"}
    Worlds <- McWorlds
    Commands <- McAll
    Root = "P"
    NodeSlug <- McNodeSlug
    ItemPath <- McItemPath
    PageName <- McPageName
    Groupings <- McGroupings
    MaxVersions = 2
    MaxCommands = 2
    MaxDisturbances = 1
    RepoSlug = "proj"
    Typed <- McTyped
    Targets <- McTargets
    Busy <- McBusy
SYMMETRY McSymmetry
INVARIANTS PinServed OneRecordUnlessOverlapped
PROPERTIES RecordsKept StillLoads NothingLeftBehind
CHECK_DEADLOCK FALSE
