------------------------------ MODULE Migrate ------------------------------
(***************************************************************************)
(* `datapin migrate` beside the other commands of the repository.          *)
(*                                                                         *)
(* With a GUID it exports a project and, on request, its component into    *)
(* this directory: every file the listing named is downloaded and checked  *)
(* against it, every wiki page is written, and the datasets and pages that *)
(* result are merged into the manifest loaded before it all began.         *)
(* Without one it turns a manifest that tracks OSF into datasets and site  *)
(* pages: classify everything, refuse a diverged entry, fetch what is      *)
(* missing or old, group the files, rewrite.  Both write MIGRATED.md last. *)
(*                                                                         *)
(* The listings of one export are taken together; its items follow in the  *)
(* code's order, the node before its component, files before pages.        *)
(***************************************************************************)
EXTENDS ManifestCommands, FiniteSetsExt

CONSTANTS
    Root,       \* the project exported; the other one is its component
    NodeSlug,   \* the slug of a node's title
    ItemPath,   \* ItemPath[q][n]: where a file or page of node q is exported to
    PageName,   \* PageName[q][n]: the slug of the exported page
    Groupings   \* the groupings users ask for: by top-level directory, or --dataset

ASSUME RootAssumption == Root \in Projects /\ Cardinality(Projects) <= 2
ASSUME ItemPathAssumption == ItemPath \in [Projects -> [Names -> Paths]]

VARIABLE provenance    \* MIGRATED.md is there

mvars == <<vars, provenance>>

MigrateInit == Init /\ provenance = FALSE

-----------------------------------------------------------------------------
(* GUID mode. *)

IsPage(i) == i.name \in Pages
Listing(q) == {[node |-> q, name |-> n, listed |-> Tip(q, n).md5, done |-> FALSE] :
                  n \in {n \in Names : server[q][n] > 0}}

(* A manifest that still tracks OSF belongs to the other mode.  A node     *)
(* whose wikis cannot be listed is exported without them.                  *)
MigrateGuid(p) ==
    /\ disk # NoManifest => Loads(disk) /\ disk.files = {} /\ disk.wikis = {}
    /\ proc[p].pc = "idle" /\ commands < MaxCommands /\ "migrate guid" \in Commands
    /\ commands' = commands + 1
    /\ \E nodes \in {{Root}, Projects} : \E unlisted \in SUBSET nodes :
         /\ unlisted = {} \/ Undisturbed
         /\ faults' = faults + (IF unlisted = {} THEN 0 ELSE 1)
         /\ proc' = [proc EXCEPT ![p] = [Idle EXCEPT
                !.cmd = "migrate guid", !.pc = "exporting", !.base = disk,
                !.m = IF disk = NoManifest THEN Empty ELSE disk,
                !.plan = {i \in UNION {Listing(q) : q \in nodes} :
                             ~(IsPage(i) /\ i.node \in unlisted)}]]
    /\ UNCHANGED <<disk, legacy, world, overlap, rehomed, astray, edits, foreign, provenance>>

Rank(i) == (IF i.node = Root THEN 0 ELSE 2) + (IF IsPage(i) THEN 1 ELSE 0)
NextItems(plan) == {i \in plan : ~i.done /\ \A j \in plan : ~j.done => Rank(i) <= Rank(j)}
PathOf(i) == ItemPath[i.node][i.name]
Checked(p, i) ==
    proc' = [proc EXCEPT ![p].plan = (@ \ {i}) \union {[i EXCEPT !.done = TRUE]}]

Export(p) == Working /\ UNCHANGED <<server, archive, provenance>>

(* fetchFile: skipped when the bytes are here already. *)
ExportFile(p) ==
    /\ At(p, "migrate guid", "exporting")
    /\ \E i \in NextItems(proc[p].plan) :
         /\ ~IsPage(i)
         /\ \/ local[PathOf(i)] = i.listed /\ UNCHANGED local
            \/ /\ local[PathOf(i)] # i.listed /\ Tip(i.node, i.name).md5 = i.listed
               /\ local' = [local EXCEPT ![PathOf(i)] = i.listed]
         /\ Checked(p, i)
    /\ Export(p) /\ UNCHANGED faults

(* What comes is not what was listed: it is removed and the run is over.   *)
ExportChanged(p) ==
    /\ At(p, "migrate guid", "exporting")
    /\ \E i \in NextItems(proc[p].plan) :
         /\ ~IsPage(i) /\ i.listed \notin {local[PathOf(i)], Tip(i.node, i.name).md5}
         /\ local' = [local EXCEPT ![PathOf(i)] = None]
    /\ Ends(p) /\ Export(p) /\ UNCHANGED faults

(* A download refused, or broken off and removed; a page not fetched.      *)
ExportFails(p) ==
    /\ At(p, "migrate guid", "exporting") /\ Undisturbed /\ faults' = faults + 1
    /\ \E i \in NextItems(proc[p].plan) :
         /\ IsPage(i) \/ local[PathOf(i)] # i.listed
         /\ \/ UNCHANGED local
            \/ ~IsPage(i) /\ local' = [local EXCEPT ![PathOf(i)] = None]
    /\ Ends(p) /\ Export(p)

(* exportWikis writes the page as it is now. *)
ExportPage(p) ==
    /\ At(p, "migrate guid", "exporting")
    /\ \E i \in NextItems(proc[p].plan) :
         /\ IsPage(i)
         /\ local' = [local EXCEPT ![PathOf(i)] = Tip(i.node, i.name).md5]
         /\ Checked(p, i)
    /\ Export(p) /\ UNCHANGED faults

(* exportNode: the root's title is slugified first; an export in which the *)
(* component's comes out the same numbers it.                              *)
SlugOf(q) == IF q = Root THEN <<NodeSlug[q], 1>>
             ELSE Dedupe(NodeSlug[q], {<<NodeSlug[Root], 1>>})
ExportedSets(plan) ==
    {NewSet(SlugOf(q), {PathOf(i) : i \in {i \in plan : i.node = q /\ ~IsPage(i)}}, FALSE) :
        q \in {i.node : i \in {i \in plan : ~IsPage(i)}}}
ExportedPages(plan) ==
    FoldSet(LAMBDA i, pages : pages \union
                {[local |-> PathOf(i), slug |-> Dedupe(PageName[i.node][i.name], SlugsOf(pages))]},
            {}, {i \in plan : IsPage(i)})

(* mergeMigratedManifest: a dataset of a slug known before keeps its       *)
(* record, version and metadata, with the files the export found.          *)
CarriedMetadata(d, old) ==
    IF d.slug \notin SlugsOf(old.sets) THEN d
    ELSE [d EXCEPT !.reviewed = Dataset(old, d.slug).reviewed]
Carried(d, old) ==
    IF d.slug \notin SlugsOf(old.sets) THEN d
    ELSE LET o == Dataset(old, d.slug)
         IN  [d EXCEPT !.record = o.record, !.version = o.version, !.reviewed = o.reviewed]

Merge(old, sets, pages) ==
    [old EXCEPT
        !.files = {}, !.wikis = {},
        !.sets = {Carried(d, old) : d \in sets} \union {d \in @ : d.slug \notin SlugsOf(sets)},
        !.pages = pages \union {g \in @ : g.local \notin LocalsOf(pages)}]

MergeExport(p) ==
    /\ At(p, "migrate guid", "exporting")
    /\ NextItems(proc[p].plan) = {}
    /\ Goes(p, Merge(Mine(p), ExportedSets(proc[p].plan), ExportedPages(proc[p].plan)),
            "save", "provenance")
    /\ Offline /\ UNCHANGED provenance

-----------------------------------------------------------------------------
(* Manifest mode. *)

MigrateManifest(p) ==
    /\ Found # NoManifest /\ Found.files \union Found.wikis # {} /\ Found.id # None
    /\ Load(p, "migrate") /\ UNCHANGED provenance

(* migrateEntryAction *)
MigrateActionFetchesOld(state, hasLocal) ==
    CASE state \in {"BEHIND", "REMOTE_NEWER"} -> "fetch"
      [] state = "NOT_PUSHED" -> IF hasLocal THEN "keep" ELSE "drop"
      [] state = "DIVERGED" -> "fail"
      [] OTHER -> "keep"
MigrateAction(state, hasLocal) ==
    CASE state \in {"MISSING", "BEHIND", "REMOTE_NEWER"} -> "fetch"
      [] state = "NOT_PUSHED" -> IF hasLocal THEN "keep" ELSE "drop"
      [] state = "DIVERGED" -> "fail"
      [] OTHER -> "keep"

EntryAction(e, m) == MigrateAction(StateOf(e, m), local[e.local] # None)

MigrateScan(p) ==
    LET m == Mine(p)
        entries == m.files \union m.wikis
    IN  /\ At(p, "migrate", "loaded")
        /\ IF \E e \in entries : EntryAction(e, m) = "fail" THEN Ends(p)
           ELSE proc' = [proc EXCEPT ![p].pc = "fetching", ![p].plan =
                    {[entry |-> e, done |-> EntryAction(e, m) = "keep"] :
                        e \in {e \in entries : EntryAction(e, m) # "drop"}}]
        /\ Offline /\ UNCHANGED provenance

(* A path that is no longer on the remote is skipped; an error ends the    *)
(* run, with nothing but downloads to show for it.                         *)
MigrateFetch(p) ==
    /\ At(p, "migrate", "fetching")
    /\ \E i \in proc[p].plan :
         LET tip == Tip(Home(i.entry, Mine(p)), i.entry.remote)
         IN  /\ ~i.done
             /\ i.entry \in Mine(p).wikis => \A j \in proc[p].plan : ~j.done => j.entry \in Mine(p).wikis
             /\ local' = IF tip = NoVersion THEN local ELSE [local EXCEPT ![i.entry.local] = tip.md5]
             /\ Checked(p, i)
    /\ Export(p) /\ UNCHANGED faults

MigrateFetchFails(p) ==
    /\ At(p, "migrate", "fetching") /\ Undisturbed /\ faults' = faults + 1
    /\ \E i \in proc[p].plan :
         /\ ~i.done
         /\ \/ UNCHANGED local
            \/ i.entry \in Mine(p).files /\ local' = [local EXCEPT ![i.entry.local] = None]
    /\ Ends(p) /\ Export(p)

(* groupFiles over what exists now, each group under a slug of its own;    *)
(* the wikis' files become pages.                                          *)
GroupedAnew(locals, group, taken) ==
    {NewSet(<<g, 1>>, {l \in locals : group[l] = g}, FALSE) : g \in {group[l] : l \in locals}}
Grouped(locals, group, taken) ==
    {NewSet(Dedupe(g, taken), {l \in locals : group[l] = g}, FALSE) : g \in {group[l] : l \in locals}}

AddPage(w, pages) ==
    IF local[w.local] = None \/ w.local \in LocalsOf(pages) THEN pages
    ELSE pages \union {[local |-> w.local, slug |-> Dedupe(PageSlug[w.remote], SlugsOf(pages))]}

Rewritten(m, kept, group) ==
    [m EXCEPT
        !.id = None, !.files = {}, !.wikis = {},
        !.sets = @ \union Grouped({l \in LocalsOf(kept \cap m.files) : local[l] # None},
                                  group, SlugsOf(@)),
        !.pages = FoldSet(AddPage, @, kept \cap m.wikis)]

MigrateRewrite(p) ==
    /\ At(p, "migrate", "fetching")
    /\ \A i \in proc[p].plan : i.done
    /\ \E group \in Groupings :
         Goes(p, Rewritten(Mine(p), {i.entry : i \in proc[p].plan}, group), "save", "provenance")
    /\ Offline /\ UNCHANGED provenance

(* MIGRATED.md *)
WriteProvenance(p) ==
    /\ proc[p].pc = "provenance"
    /\ provenance' = TRUE /\ Ends(p)
    /\ Offline

MigrateStep(p) ==
    \/ MigrateGuid(p) \/ ExportFile(p) \/ ExportChanged(p) \/ ExportFails(p) \/ ExportPage(p)
    \/ MergeExport(p)
    \/ MigrateManifest(p) \/ MigrateScan(p) \/ MigrateFetch(p) \/ MigrateFetchFails(p)
    \/ MigrateRewrite(p) \/ WriteProvenance(p)

MigrateNext ==
    \/ \E p \in Procs : MigrateStep(p)
    \/ Next /\ UNCHANGED provenance
MigrateSpec == MigrateInit /\ [][MigrateNext]_mvars

-----------------------------------------------------------------------------
(* Properties.                                                             *)

(* Type correctness: what is on disk and in every process's hands is a     *)
(* manifest, and a published dataset names a record that exists, at a      *)
(* version the record has (manifest.go's structs).                         *)
IsManifest(m) ==
    /\ DOMAIN m = DOMAIN Empty /\ m.id \in Projects \union {None}
    /\ \A e \in m.files \union m.wikis : IsEntry(e)
    /\ \A d \in m.sets : d.record > 0 =>
          /\ d.slug \in Slugs /\ d.record \in 1..Len(archive[d.slug])
          /\ d.version \in 0..archive[d.slug][d.record]
TypeOK ==
    /\ disk # NoManifest => IsManifest(disk)
    /\ \A p \in Procs : IsManifest(proc[p].m)
    /\ server \in [Projects -> [Names -> Nat]]
    /\ archive \in [Slugs -> Seq(Nat)]
    /\ provenance \in BOOLEAN

(* A pin on disk names a version its project really has, whatever commands *)
(* ran beside each other and wherever they stopped: true of every entry    *)
(* that names its project, and of the others until the manifest is moved   *)
(* to another project under them (init.go: only the id is updated).  The   *)
(* one other exception is the pin a push writes when it sends a tracked    *)
(* file to a place it is not tracked at (push.go:387-392 looks the entry   *)
(* up by its local path), for as long as that pin stays.                   *)
PinServed ==
    disk # NoManifest =>
        \A e \in disk.files \union disk.wikis :
            /\ Home(e, disk) \in Projects /\ (e.project # None \/ ~rehomed)
            /\ <<e.local, e.pin>> \notin astray
            => e.pin.version <= server[Home(e, disk)][e.remote]

(* One dataset, one record (manifest.go:58), whatever commands run and     *)
(* wherever they stop: a slug has the record the manifest knows, and at    *)
(* most one more for every publish that has not saved yet -- unless some   *)
(* save replaced a manifest its command had not seen.                      *)
Knows(m, slug) == m # NoManifest /\ \E d \in m.sets : d.slug = slug /\ d.record > 0
Unsaved(slug) == {p \in Procs : /\ At(p, "publish", "save")
                                /\ Knows(proc[p].m, slug) /\ ~Knows(proc[p].base, slug)}
OneRecordUnlessOverlapped ==
    ~overlap => \A slug \in Slugs :
        Len(archive[slug]) <= (IF Knows(disk, slug) THEN 1 ELSE 0) + Cardinality(Unsaved(slug))

(* A save that replaces the manifest its command loaded never takes back   *)
(* what was published: every record stays under its slug, at its version   *)
(* or a later one.  Migrating again is no exception                        *)
(* (mergeMigratedManifest: publish pins, remote assignments, datasets the  *)
(* user added).                                                            *)
RecordsKept ==
    [][disk # NoManifest /\ ~overlap' =>
         \A d \in disk.sets : d.record > 0 =>
             \E e \in disk'.sets : e.slug = d.slug /\ e.record = d.record /\ e.version >= d.version]_mvars

(* Commands that are told nothing about paths leave a manifest that loads: *)
(* sync, push, publish and the pull of a dataset move pins, and migrate    *)
(* turns entries into datasets and pages whose paths and slugs clash with  *)
(* nothing there.                                                          *)
Saved(p) == proc[p].pc = "save" /\ proc'[p].pc # "save" /\ proc[p].path = "new"
StillLoads ==
    [][\A p \in Procs :
         Saved(p) /\ proc[p].cmd \in {"sync", "push", "publish", "pull dataset", "migrate"} => Loads(disk')]_mvars

(* When manifest mode lets go of OSF nothing is left behind: a file the    *)
(* project or this directory had at the scan is here and in a dataset,     *)
(* and a page is here and on the site, if nobody changed either meanwhile. *)
NothingLeftBehind ==
    [][\A p \in Procs :
         LET m == Mine(p)
         IN  At(p, "migrate", "fetching") /\ proc'[p].pc = "save" /\ edits = 0 /\ foreign = 0 =>
                /\ \A e \in m.files : History(Home(e, m), e.remote) # {} \/ local[e.local] # None =>
                      local[e.local] # None /\ e.local \in SetLocals(proc'[p].m)
                /\ \A e \in m.wikis : History(Home(e, m), e.remote) # {} \/ local[e.local] # None =>
                      local[e.local] # None /\ e.local \in LocalsOf(proc'[p].m.pages)]_mvars
=============================================================================
