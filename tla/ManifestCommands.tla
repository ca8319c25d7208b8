-------------------------- MODULE ManifestCommands --------------------------
(***************************************************************************)
(* The commands that change the manifest, run by several processes in one  *)
(* repository: `init`, `add`, `wiki add`, `onboard`, the legacy            *)
(* `onboard --osf`, `sync`, bare `push`, `publish`, the `push` and `pull`  *)
(* of one path on OSF, and the `pull` of a dataset.  Each of them loads    *)
(* the manifest, works on its copy for as long as the network or the user  *)
(* takes, and renames a new file over the old one.  Nothing locks, nothing *)
(* compares: a save replaces whatever was saved since the load.            *)
(*                                                                         *)
(* The transfers of one run are one step here; what happens between its    *)
(* scan and its last transfer is OsfSync's subject, and the publishing     *)
(* transaction is Publish's.  Bytes are named by the version that holds    *)
(* them, <<project, name, number>>; Own stands for bytes only this         *)
(* directory has.  A process that dies is one that takes no more steps.    *)
(***************************************************************************)
EXTENDS Manifest, Sequences

CONSTANTS
    Procs,
    Paths,          \* local paths
    Projects,       \* OSF project GUIDs
    Remotes, Pages, \* paths on OSF Storage, names of wiki pages
    Slugs,          \* the slugs, pairs <<name, n>>, under which datasets are published
    Own,
    Worlds,         \* how a repository and its projects may stand: [disk, legacy, local, server]
    Commands,       \* the commands users run
    PageSlug,       \* the slug of a page's name
    Archives,       \* remotes a project may name as its defaults
    RepoSlug,       \* the slug of the repository's directory
    Typed,          \* slugs users type instead
    Targets,        \* pairs of a local path and a path on OSF users name
    Busy,           \* pairs of a project and a name others upload to
    MaxVersions, MaxCommands,
    MaxDisturbances \* edits, uploads by others and faults, together

Names == Remotes \union Pages
Version == Projects \X Names \X (1..MaxVersions)
Bytes == Version \union {Own, None}

ASSUME PathsAssumption == Remotes \subseteq Paths /\ Remotes \cap Pages = {}
ASSUME TargetsAssumption == Targets \subseteq Paths \X Remotes /\ Busy \subseteq Projects \X Names
ASSUME BytesAssumption == None # Own /\ {None, Own} \cap Version = {} /\ None \notin Projects
ASSUME ProcsAssumption == IsFiniteSet(Procs)
ASSUME WorldsAssumption ==
    \A w \in Worlds : /\ w.local \in [Paths -> Bytes]
                      /\ w.server \in [Projects -> [Names -> 0..MaxVersions]]
                      /\ w.disk # NoManifest => Loads(w.disk) \/ w.disk.schema > SchemaMax

(* A manifest some datapin wrote before: its entries belong to a project   *)
(* and are pinned to versions that project has, and nothing in it is       *)
(* published yet.  The legacy program knew no datasets (manifest.go:16).   *)
IsEntry(e) ==
    /\ DOMAIN e = {"local", "remote", "project", "pin"}
    /\ e.remote \in Names /\ e.project \in Projects \union {None} /\ e.pin.version \in Nat
Written(m, w) ==
    /\ DOMAIN m = DOMAIN Empty /\ m.id \in Projects \union {None}
    /\ \A e \in m.files \union m.wikis :
         /\ IsEntry(e) /\ Home(e, m) \in Projects
         /\ e.pin.version <= w.server[Home(e, m)][e.remote]
    /\ \A d \in m.sets : d = NewSet(d.slug, d.locals, d.reviewed)
ASSUME WrittenAssumption ==
    \A w \in Worlds : /\ w.disk # NoManifest => Written(w.disk, w)
                      /\ w.legacy # NoManifest => Written(w.legacy, w) /\ w.legacy.sets = {}
ASSUME BoundsAssumption ==
    {MaxVersions, MaxCommands, MaxDisturbances} \subseteq Nat

VARIABLES
    disk,      \* .datapin/datapin.toml
    legacy,    \* .gosf/gosf.toml, which no command ever writes
    local,     \* the bytes at each path
    server,    \* server[p][n]: number of versions of that file or page
    archive,   \* archive[slug]: the records published for it, as numbers of versions
    proc,      \* the running commands
    overlap,   \* history: some save replaced a manifest its command never saw
    rehomed,   \* history: the manifest's project was changed
    astray,    \* history: <<path, pin>> of each tracked file that was pushed somewhere else
    commands, edits, foreign, faults

counters == <<edits, foreign, faults>>
Undisturbed == edits + foreign + faults < MaxDisturbances
world == <<local, server, archive>>
vars == <<disk, legacy, local, server, archive, proc, overlap, rehomed, astray, commands, counters>>

Idle == [cmd |-> "none", pc |-> "idle", next |-> "idle", m |-> Empty, base |-> NoManifest,
         path |-> "new", plan |-> {}]
At(p, cmd, pc) == proc[p].cmd = cmd /\ proc[p].pc = pc
Mine(p) == proc[p].m

(* The process goes on at pc with m, and at `next` once m is saved. *)
Goes(p, m, pc, next) ==
    proc' = [proc EXCEPT ![p] = [@ EXCEPT !.m = m, !.pc = pc, !.next = next]]
ToSave(p, m) == Goes(p, m, "save", "idle")
Ends(p) == proc' = [proc EXCEPT ![p] = Idle]

Tip(q, n) == IF server[q][n] = 0 THEN NoVersion
             ELSE [version |-> server[q][n], md5 |-> <<q, n, server[q][n]>>]
History(q, n) == {[version |-> i, md5 |-> <<q, n, i>>] : i \in 1..server[q][n]}

(* FindManifest: the new name wins over the legacy one. *)
Found == IF disk # NoManifest THEN disk ELSE legacy
FoundPath == IF disk = NoManifest /\ legacy # NoManifest THEN "legacy" ELSE "new"

Init ==
    /\ \E w \in Worlds : disk = w.disk /\ legacy = w.legacy /\ local = w.local /\ server = w.server
    /\ archive = [s \in Slugs |-> << >>]
    /\ proc = [p \in Procs |-> Idle]
    /\ overlap = FALSE /\ rehomed = FALSE /\ astray = {}
    /\ commands = 0 /\ edits = 0 /\ foreign = 0 /\ faults = 0

-----------------------------------------------------------------------------
(* Starting a command. *)

Starts(p, cmd, m, base, path) ==
    /\ cmd \in Commands /\ proc[p].pc = "idle" /\ commands < MaxCommands
    /\ commands' = commands + 1
    /\ proc' = [proc EXCEPT ![p] = [Idle EXCEPT !.cmd = cmd, !.pc = "loaded", !.m = m,
                                                !.base = base, !.path = path]]
    /\ UNCHANGED <<disk, legacy, world, overlap, rehomed, astray, counters>>

(* A command that works on a manifest loads it, and needs what it asks of it. *)
Ready(cmd, m) ==
    /\ cmd \in {"sync", "push"} => m.id # None
    /\ cmd \in {"publish", "pull dataset"} => m.sets # {}

Load(p, cmd) ==
    /\ Found # NoManifest /\ Loads(Found) /\ Ready(cmd, Found)
    /\ Starts(p, cmd, Found, Found, FoundPath)

(* manifest.Init: whatever is there is taken as it is, without validation, *)
(* and only under the new name.                                            *)
Inits(p, cmd, id) ==
    /\ cmd \in Commands /\ proc[p].pc = "idle" /\ commands < MaxCommands
    /\ commands' = commands + 1
    /\ proc' = [proc EXCEPT ![p] = [Idle EXCEPT
           !.cmd = cmd, !.pc = "save", !.base = disk,
           !.next = IF cmd = "init" THEN "idle" ELSE "created",
           !.m = [(IF disk = NoManifest THEN Empty ELSE disk) EXCEPT !.id = id]]]
    /\ UNCHANGED <<disk, legacy, world, overlap, rehomed, astray, counters>>

InitProject(p) == \E id \in Projects : Inits(p, "init", id)

(* Where the user names the project and there is no manifest, `add`, `wiki *)
(* add` and the transfers of one path make one.                            *)
NewFor(p, cmd, path) ==
    \E id \in Projects : Starts(p, cmd, [Empty EXCEPT !.id = id], NoManifest, path)

AddCreates(p, cmd) == Found = NoManifest /\ NewFor(p, cmd, "new")

(* A manifest that is there and does not load: push goes on without        *)
(* tracking, pull starts a new one in its place.                           *)
PathUnloaded(p) ==
    /\ Found # NoManifest /\ ~Loads(Found)
    /\ NewFor(p, "push path", "none") \/ NewFor(p, "pull path", "new")

(* The project a new manifest was made for, or any. *)
Named(p) == IF proc[p].base = NoManifest THEN {Mine(p).id} ELSE Projects

(* ensurePublishManifest, ensureManifest: nothing there yet. *)
OnboardCreates(p, cmd) ==
    /\ Found = NoManifest
    /\ \E id \in IF cmd = "onboard" THEN {None} ELSE Projects : Inits(p, cmd, id)

Created(p) ==
    /\ proc[p].pc = "created"
    /\ IF disk # NoManifest /\ Loads(disk)
       THEN proc' = [proc EXCEPT ![p].m = disk, ![p].base = disk, ![p].pc = "loaded"]
       ELSE Ends(p)
    /\ UNCHANGED <<disk, legacy, world, overlap, rehomed, astray, commands, counters>>

(* Save: the schema is stamped; a legacy path is refused. *)
Save(p) ==
    LET m == [Mine(p) EXCEPT !.schema = SchemaMax]
    IN  /\ proc[p].pc = "save" /\ proc[p].path = "new"
        /\ disk' = m
        /\ overlap' = (overlap \/ disk # proc[p].base)
        /\ rehomed' = (rehomed \/ (disk # NoManifest /\ disk.id \notin {None, m.id}))
        /\ IF proc[p].next = "idle" THEN Ends(p)
           ELSE proc' = [proc EXCEPT ![p].m = m, ![p].base = m, ![p].pc = proc[p].next]
        /\ UNCHANGED <<legacy, world, astray, commands, counters>>

SaveRefused(p) ==
    /\ proc[p].pc = "save" /\ proc[p].path = "legacy"
    /\ Ends(p)
    /\ UNCHANGED <<disk, legacy, world, overlap, rehomed, astray, commands, counters>>

Working == UNCHANGED <<disk, legacy, overlap, rehomed, astray, commands, edits, foreign>>
Offline == Working /\ UNCHANGED <<world, faults>>

-----------------------------------------------------------------------------
(* add and wiki add.  The entry names its project unless it is the         *)
(* manifest's own; it is pinned to the remote's latest when that could be  *)
(* looked up, and left unpinned when it is not there or the lookup failed. *)

EntryAtHome(m, l, n, q, pin) ==
    [local |-> l, remote |-> n, project |-> None, pin |-> pin]
Entry(m, l, n, q, pin) ==
    [local |-> l, remote |-> n, project |-> IF q = m.id THEN None ELSE q, pin |-> pin]

LookedUp(q, n, pin) ==
    \/ pin = Tip(q, n) /\ UNCHANGED faults
    \/ pin = NoVersion /\ Undisturbed /\ faults' = faults + 1

Add(p) ==
    /\ At(p, "add", "loaded")
    /\ \E l \in Paths, n \in Remotes, q \in Named(p) :
         \E pin \in {NoVersion, Tip(q, n)} :
             /\ <<l, n>> \in Targets /\ l \notin LocalsOf(Mine(p).files)
             /\ LookedUp(q, n, pin)
             /\ ToSave(p, [Mine(p) EXCEPT !.files = @ \union {Entry(Mine(p), l, n, q, pin)}])
    /\ Working /\ UNCHANGED world

(* A directory: every file under it, mirrored, nothing looked up. *)
AddDirectory(p) ==
    LET here == {l \in Remotes : local[l] # None}
    IN  /\ At(p, "add", "loaded")
        /\ here # {} /\ here \cap LocalsOf(Mine(p).files) = {}
        /\ \E q \in Named(p) :
             ToSave(p, [Mine(p) EXCEPT !.files =
                 @ \union {Entry(Mine(p), l, l, q, NoVersion) : l \in here}])
        /\ Offline

WikiAdd(p) ==
    /\ At(p, "wiki add", "loaded")
    /\ \E l \in Paths \ (LocalsOf(Mine(p).files) \union LocalsOf(Mine(p).wikis)),
          n \in Pages, q \in Named(p) :
         \E pin \in {NoVersion, Tip(q, n)} :
             /\ LookedUp(q, n, pin)
             /\ ToSave(p, [Mine(p) EXCEPT !.wikis = @ \union {Entry(Mine(p), l, n, q, pin)}])
    /\ Working /\ UNCHANGED world

-----------------------------------------------------------------------------
(* sync and bare push: classify and decide every entry, refuse the run if  *)
(* one is blocked, then transfer and pin, and save if any pin moved.       *)

StateOf(e, m) == Classify(e.pin, local[e.local], History(Home(e, m), e.remote))
DecisionOf(cmd, e, m) == Decision(cmd, StateOf(e, m), local[e.local] # None, FALSE, "")

Pushed(e, m) == [version |-> server[Home(e, m)][e.remote] + 1,
                 md5 |-> <<Home(e, m), e.remote, server[Home(e, m)][e.remote] + 1>>]

(* The entries a run brings together, and the pin each gets; a pull that   *)
(* finds nothing on the remote is skipped.                                 *)
Transfers(cmd, entries, m) ==
    {e \in entries : \/ DecisionOf(cmd, e, m) \in {"pin", "push"}
                     \/ DecisionOf(cmd, e, m) = "pull" /\ History(Home(e, m), e.remote) # {}}

Repin(cmd, e, m) ==
    [e EXCEPT !.pin = IF DecisionOf(cmd, e, m) = "push" THEN Pushed(e, m)
                      ELSE Tip(Home(e, m), e.remote)]

Reconcile(p, cmd, entries) ==
    LET m == Mine(p)
        moved == Transfers(cmd, entries, m)
        push == {e \in moved : DecisionOf(cmd, e, m) = "push"}
        pinned(S) == (S \ moved) \union {Repin(cmd, e, m) : e \in S \cap moved}
    IN  /\ \A e \in entries : DecisionOf(cmd, e, m) # "blocked"
        /\ \A e \in push : server[Home(e, m)][e.remote] < MaxVersions
        /\ server' = [q \in Projects |-> [n \in Names |->
               IF \E e \in push : Home(e, m) = q /\ e.remote = n
               THEN server[q][n] + 1 ELSE server[q][n]]]
        /\ local' = [l \in Paths |->
               IF \E e \in moved : e.local = l
               THEN Repin(cmd, CHOOSE e \in moved : e.local = l, m).pin.md5 ELSE local[l]]
        /\ IF moved = {} THEN Ends(p)
           ELSE ToSave(p, [m EXCEPT !.files = pinned(@), !.wikis = pinned(@)])
        /\ UNCHANGED archive

Refused(p, cmd, entries) ==
    /\ \E e \in entries : DecisionOf(cmd, e, Mine(p)) = "blocked"
    /\ Ends(p) /\ UNCHANGED world

Sync(p) ==
    LET entries == Mine(p).files \union Mine(p).wikis
    IN  /\ At(p, "sync", "loaded")
        /\ Reconcile(p, "sync", entries) \/ Refused(p, "sync", entries)
        /\ Working /\ UNCHANGED faults

Push(p) ==
    /\ At(p, "push", "loaded")
    /\ Reconcile(p, "push", Mine(p).files) \/ Refused(p, "push", Mine(p).files)
    /\ Working /\ UNCHANGED faults

-----------------------------------------------------------------------------
(* publish <slug>: a reviewed dataset whose files are all here goes out as *)
(* a first record, or as the next version of the record the manifest names *)
(* unless somebody published one this manifest has not seen.               *)

Publishable(d) == d.reviewed /\ d.locals # {} /\ \A l \in d.locals : local[l] # None
Unseen(d) == d.record > 0 /\ archive[d.slug][d.record] > d.version

PublishedUnrecorded(d) == [d EXCEPT !.version = @ + 1]
Published(d) ==
    IF d.record = 0
    THEN [d EXCEPT !.record = Len(archive[d.slug]) + 1, !.version = 1]
    ELSE [d EXCEPT !.version = @ + 1]

Publish(p) ==
    /\ At(p, "publish", "loaded")
    /\ \E d \in Mine(p).sets :
         /\ Publishable(d) /\ ~Unseen(d) /\ d.slug \in Slugs /\ d.version < MaxVersions
         /\ archive' = [archive EXCEPT ![d.slug] =
                IF d.record = 0 THEN Append(@, 1) ELSE [@ EXCEPT ![d.record] = d.version + 1]]
         /\ ToSave(p, [Mine(p) EXCEPT !.sets = (@ \ {d}) \union {Published(d)}])
    /\ Working /\ UNCHANGED <<local, server, faults>>

(* What is here is what the record has already: at most the checksums of   *)
(* the files are pinned again.                                             *)
PublishNothing(p) ==
    /\ At(p, "publish", "loaded")
    /\ \E d \in Mine(p).sets : Publishable(d) /\ d.record > 0 /\ ~Unseen(d)
    /\ Ends(p) \/ ToSave(p, Mine(p))
    /\ Offline

(* pull <slug>, of a published dataset: the version pinned, or with        *)
(* --latest the latest one; the manifest is saved either way.              *)
PullDataset(p) ==
    /\ At(p, "pull dataset", "loaded")
    /\ \E d \in Mine(p).sets :
         /\ d.record > 0
         /\ local' = [l \in Paths |-> IF l \in d.locals /\ local[l] = None THEN Own ELSE local[l]]
         /\ \E v \in {d.version, archive[d.slug][d.record]} :
              ToSave(p, [Mine(p) EXCEPT !.sets = (@ \ {d}) \union {[d EXCEPT !.version = v]}])
    /\ Working /\ UNCHANGED <<server, archive, faults>>

-----------------------------------------------------------------------------
(* push and pull of one path.                                              *)

Elsewhere(m, l, q, n) == \E e \in m.files : Home(e, m) = q /\ e.remote = n /\ e.local # l

Tracked(m, l, n, q, pin) ==
    [m EXCEPT !.files = {e \in @ : e.local # l} \union {Entry(m, l, n, q, pin)}]

(* push finds the entry by its local path alone: one that is there gets    *)
(* the new version and checksum, and keeps the place it is tracked at,     *)
(* wherever the file went.                                                 *)
PushTracked(m, l, n, q, pin) ==
    IF l \notin LocalsOf(m.files)
    THEN [m EXCEPT !.files = @ \union {Entry(m, l, n, q, pin)}]
    ELSE [m EXCEPT !.files = {IF e.local = l THEN [e EXCEPT !.pin = pin] ELSE e : e \in @}]

TrackedOff(m, l, n, q) == \E e \in m.files : e.local = l /\ ~(Home(e, m) = q /\ e.remote = n)

(* pushSession.file: refused where another path is tracked, skipped where  *)
(* the same bytes are.  The entry is pinned to the version the server      *)
(* answers with, if its answer can be read.                                *)
PushPath(p) ==
    LET m == Mine(p)
    IN  /\ At(p, "push path", "loaded")
        /\ \E l \in Paths, n \in Remotes, q \in Named(p) :
             LET new == [version |-> server[q][n] + 1, md5 |-> <<q, n, server[q][n] + 1>>]
             IN  /\ <<l, n>> \in Targets
                 /\ local[l] \notin {None, Tip(q, n).md5} /\ new.version <= MaxVersions
                 /\ proc[p].path = "none" \/ ~Elsewhere(m, l, q, n)
                 /\ server' = [server EXCEPT ![q][n] = new.version]
                 /\ local' = [local EXCEPT ![l] = new.md5]
                 /\ astray' = IF TrackedOff(m, l, n, q) THEN astray \union {<<l, new>>} ELSE astray
                 /\ \/ proc[p].path # "none" /\ ToSave(p, PushTracked(m, l, n, q, new)) /\ UNCHANGED faults
                    \/ proc[p].path = "none" /\ Ends(p) /\ UNCHANGED faults
                    \/ Undisturbed /\ Ends(p) /\ faults' = faults + 1
        /\ UNCHANGED <<disk, legacy, archive, overlap, rehomed, commands, edits, foreign>>

(* pullSession.file, pinFor: any version, or none of the bytes with        *)
(* --track-only.  A file that is tracked elsewhere is downloaded only; one *)
(* whose versions cannot be listed is left unpinned.                       *)
PullPath(p) ==
    LET m == Mine(p)
    IN  /\ At(p, "pull path", "loaded")
        /\ \E l \in Paths, n \in Remotes, q \in Named(p), fetch \in BOOLEAN :
             \E v \in History(q, n) :
               /\ <<l, n>> \in Targets
               /\ local' = IF fetch THEN [local EXCEPT ![l] = v.md5] ELSE local
               /\ IF Elsewhere(m, l, q, n) THEN Ends(p) /\ UNCHANGED faults
                  ELSE \/ ToSave(p, Tracked(m, l, n, q, v)) /\ UNCHANGED faults
                       \/ /\ v = Tip(q, n) /\ Undisturbed /\ faults' = faults + 1
                          /\ ToSave(p, Tracked(m, l, n, q,
                                 [version |-> 0, md5 |-> IF fetch THEN v.md5 ELSE None]))
        /\ Working /\ UNCHANGED <<server, archive>>

-----------------------------------------------------------------------------
(* onboard: one copy of the manifest is held over all the prompts and      *)
(* saved after each phase that changed it.                                 *)

(* ensureArchiveRemote *)
OnboardArchive(p) ==
    /\ At(p, "onboard", "loaded")
    /\ IF "archive" \in Mine(p).defaults THEN Goes(p, Mine(p), "grouping", "idle")
       ELSE Goes(p, [Mine(p) EXCEPT !.defaults = @ \union {"archive"}], "save", "grouping")
    /\ Offline

(* onboardDatasetCandidates *)
DatasetCandidates(m) ==
    {l \in Paths : local[l] # None} \ (LocalsOf(m.files) \union LocalsOf(m.wikis) \union SetLocals(m))

(* ensureDataset: the user selects files, takes the slug offered or types  *)
(* a free one, and answers for the metadata, all of it or leaving some of  *)
(* it for later; or stops there.                                           *)
OnboardDataset(p) ==
    /\ At(p, "onboard", "grouping")
    /\ \/ \E selected \in (SUBSET DatasetCandidates(Mine(p))) \ {{}},
             slug \in {Dedupe(RepoSlug, SlugsOf(Mine(p).sets))} \union (Typed \ SlugsOf(Mine(p).sets)),
             reviewed \in BOOLEAN :
             Goes(p, [Mine(p) EXCEPT !.sets = @ \union {NewSet(slug, selected, reviewed)}],
                  "save", "offering")
       \/ Goes(p, Mine(p), "offering", "idle")
    /\ Offline

(* offerWorkspaceRemote *)
OnboardWorkspace(p) ==
    /\ At(p, "onboard", "offering")
    /\ \/ /\ "workspace" \notin Mine(p).defaults
          /\ ToSave(p, [Mine(p) EXCEPT !.defaults = @ \union {"workspace"}])
       \/ Ends(p)
    /\ Offline

(* runOnboardOSF: a project if there is none, then the files to push.      *)
OsfCandidates(m) == {l \in Paths : local[l] # None} \ LocalsOf(m.files)

OnboardOsfProject(p) ==
    /\ At(p, "onboard --osf", "loaded")
    /\ IF Mine(p).id # None THEN Goes(p, Mine(p), "grouping", "idle")
       ELSE \E id \in Projects : Goes(p, [Mine(p) EXCEPT !.id = id], "save", "grouping")
    /\ Offline

OnboardOsfFiles(p) ==
    LET entry(l) == [local |-> l, remote |-> l, project |-> None, pin |-> NoVersion]
    IN  /\ At(p, "onboard --osf", "grouping")
        /\ \/ \E selected \in (SUBSET (OsfCandidates(Mine(p)) \cap Remotes)) \ {{}} :
                 ToSave(p, [Mine(p) EXCEPT !.files = @ \union {entry(l) : l \in selected}])
           \/ Ends(p)
        /\ Offline

-----------------------------------------------------------------------------
(* By hand: completing a dataset's metadata, changing files; and uploads   *)
(* by others.                                                              *)

Review ==
    /\ disk # NoManifest /\ Undisturbed /\ edits' = edits + 1
    /\ \E d \in disk.sets :
         /\ ~d.reviewed
         /\ disk' = [disk EXCEPT !.sets = (@ \ {d}) \union {[d EXCEPT !.reviewed = TRUE]}]
    /\ UNCHANGED <<legacy, world, proc, overlap, rehomed, astray, commands, foreign, faults>>

EditFile ==
    /\ Undisturbed /\ edits' = edits + 1
    /\ \E l \in Paths, b \in {Own, None} :
         local[l] # b /\ local' = [local EXCEPT ![l] = b]
    /\ UNCHANGED <<disk, legacy, server, archive, proc, overlap, rehomed, astray, commands,
                   foreign, faults>>

ForeignUpload ==
    /\ Undisturbed /\ foreign' = foreign + 1
    /\ \E q \in Projects, n \in Names :
         /\ <<q, n>> \in Busy /\ server[q][n] < MaxVersions
         /\ server' = [server EXCEPT ![q][n] = @ + 1]
    /\ UNCHANGED <<disk, legacy, local, archive, proc, overlap, rehomed, astray, commands,
                   edits, faults>>

Begin(p) ==
    \/ InitProject(p)
    \/ \E cmd \in {"add", "wiki add", "push path", "pull path"} : Load(p, cmd) \/ AddCreates(p, cmd)
    \/ PathUnloaded(p)
    \/ \E cmd \in {"onboard", "onboard --osf"} : Load(p, cmd) \/ OnboardCreates(p, cmd)
    \/ \E cmd \in {"sync", "push", "publish", "pull dataset"} : Load(p, cmd)

Step(p) ==
    \/ Begin(p) \/ Created(p) \/ Save(p) \/ SaveRefused(p)
    \/ Add(p) \/ AddDirectory(p) \/ WikiAdd(p)
    \/ Sync(p) \/ Push(p) \/ Publish(p) \/ PublishNothing(p)
    \/ PullDataset(p) \/ PushPath(p) \/ PullPath(p)
    \/ OnboardArchive(p) \/ OnboardDataset(p) \/ OnboardWorkspace(p)
    \/ OnboardOsfProject(p) \/ OnboardOsfFiles(p)

Around == Review \/ EditFile \/ ForeignUpload

Next == Around \/ \E p \in Procs : Step(p)
Spec == Init /\ [][Next]_vars
=============================================================================
