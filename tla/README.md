# Verification of datapin

TLA+ models of datapin (the Go program in `src/`), the TLC instances that
check them and the theorems TLAPS proves about them. Paths such as
`publish.go` or `workspace/workspace.go` are below `src/cmd/` or
`src/internal/`; `README.md:753` is the program's own README.

## 1. The system

datapin keeps research data files in step with remote stores. A repository
holds a manifest, `datapin.toml`, that pins for every tracked file (and wiki
page) the remote version and its MD5. Three kinds of remote exist, and nearly
all of the program's own logic is in how it moves data between the working
copy, the manifest and one of them.

| component | state it keeps | operations | model |
|---|---|---|---|
| workspace (`workspace/workspace.go`) | objects, a content-addressed archive `.datapin/versions/<md5>`, a journal of one file per event | Push, Revert, GC, Versions, GetVersion, GetBlob | `VersionStore`, `Workspace` |
| workspace commands (`cmd/workspace_cmds.go`, `cmd/dataset_workspace_status.go`, `workspace/status.go`) | the users' files | push, revert, gc, pull `--workspace` of a dataset, status | `WorkspaceFiles` |
| workspace drivers (`localdir`, `sftpws`, `s3ws`) | files or objects, temporary files | Put, Get, Stat, Copy, Delete, List, ListPrefix | `ObjectStore`, `StoreDrivers` |
| publishing (`cmd/publish.go`, `dataset_gate.go`, `dataset_helpers.go`) | the dataset block of the manifest | gate, plan, transaction, pin | `Publish` |
| dataset pull and status (`cmd/dataset_pull.go`, `dataset_status.go`) | the pins of the dataset block, the local files | pull of the pinned version, `pull --latest`, status | `DatasetPull` |
| archive drivers (`backend/invenio`, `figshare`, `dataverse`) | drafts and published versions on the server | CreateDraft, NewVersion, ImportPreviousFiles, UploadFile, DeleteDraftFile, ReserveDOI, Publish, Discard, GetRecord | call by call in `Publish`, request by request in `ArchiveCalls` |
| HTTP retries (`httpx/retry.go`) | none | Do | `ArchiveCalls` |
| classification and policies (`manifest/status.go`, `cmd/gate.go`) | none | ClassifyFile, syncDecision, pushDecision, pullDecision | `FileState` |
| OSF synchronisation (`sync.go`, `push.go`, `pull.go`, `scan.go`, `wiki_sync.go`, `resolver/cache.go`, `client/waterbutler.go`) | local files, pins, a per-run listing cache; versions on OSF | sync, push, pull of everything; push and pull of one path | `OsfSync` |
| manifest file (`manifest/manifest.go`) | `datapin.toml` | find, load, validate, save by temporary file and rename | `Manifest` |
| the commands that change it (`init.go`, `add.go`, `wiki_add.go`, `onboard.go`, `sync.go`, `push.go`, `pull.go`, `publish.go`, `dataset_pull.go`) | a copy of the manifest each | one load, changes, one or more saves | `ManifestCommands` |
| migration off OSF (`cmd/migrate.go`) | local files, the manifest, `MIGRATED.md` | export of a project by GUID, rewriting of a tracking manifest | `Migrate` |
| exports, site, the other wiki and project commands, configuration | see `PROJECT.json` | | not modelled |

**How they interact.** A command is one process. It loads the manifest, calls
one remote through a driver (each call retried by `httpx/retry.go`), changes
its copy of the manifest in memory and saves it whole when it is done. There
is no lock anywhere: two processes, a collaborator on the web interface, the
user's editor and the server's background jobs all act between any two steps.
The remote and the working copy are shared state; the manifest is the memory
of what a command believed when it last ended in order.

**What is hard.** Nothing is transactional. A process may die between the
remote write and the local record of it (journal entry, pin), call results
may be lost after the server acted, a classification may be stale when it is
acted upon, an archive may release a version minutes after it accepted it,
and a failed run leaves a draft, a file slot or a truncated file for the next
run to meet. `PROJECT.json` lists each of these at its line under "hazards".

**What makes each part correct.**

* Workspace: every version datapin journaled can be produced again, whatever
  crashed; version numbers name one event; gc keeps its budget; a read
  delivers the version asked for; a push that is re-run gets an answer.
* Workspace commands: following status never costs a user work, a pull
  discards nothing that cannot be had back, a push takes nobody back to an old
  version, the remedy that status names works, and users who follow it come to
  rest.
* Workspace drivers: an object is replaced whole or not at all, whatever other
  writers do; a journal lists the entries of its key and nothing else.
* Publish: a published version holds the files that were hashed; the manifest
  pins a version that exists and has those files; a dataset has one record;
  nothing is published over an unseen version without `--force`; a failed run
  cleans up; re-running ends.
* Archive requests: an upload that reports success delivered the hashed bytes
  under the file's own name, however often its requests were repeated; what a
  call reports is so; a file whose upload is run again gets there.
* Manifest: one dataset has one record and a save never takes one back, as
  long as no save replaces what its command never saw; commands that are told
  no paths leave a manifest that loads; pins name versions that exist.
* Migration: what it lets go of on OSF is here and in a dataset or on the
  site; what was published before it stays recorded.
* OSF synchronisation: work that exists nowhere else is never overwritten, a
  newer remote version never buried, a saved pin is true, no torn file is
  published, a sync that ended settled every entry it did not report, and
  re-running sync ends.

## 2. The modules

**`VersionStore`** is the promise of `workspace.go:1-12` without a mechanism:
a current content, a history that only grows under growing numbers, and the
set of contents that can be produced. It counts outside writes (`outside`), so
that only another program's write may change the content without the content
being new or restored. `Workspace` refines it.

**`Workspace`** is one key. `object`, `archive` and `journal` are the three
places of the store (`workspace.go:75-89`), `torn` that the journal's directory
holds a temporary file that is no whole entry. `task[c]` is the operation a
client is in: its `pc` names the store call it makes next, the other fields
are the Go locals (`known` the journal as read, `next` the sequence number
`appendEvent` tries, `current` the checksum observed, `victims` gc's list).
Actions and code:

| code | actions |
|---|---|
| `journal` (376-399), which every operation starts with | part of each `Begin...`; `JournalCorrupt` where an entry cannot be read |
| `Push` (91-156) | `BeginPush`, `PushNoOp`, `PushStatSettled`, `PushStatSupersedes`, `PushPut` |
| `Revert` (233-281) | `BeginRevert`, `RevertStat`, `RevertStatFault`, `Restore` |
| `archiveIfAbsent` (360-373) | `ArchiveStat`, `ArchiveStatFault`, `ArchiveCopy` |
| `appendEvent` (401-427) | `AppendStat`, `AppendStatFault`, `AppendPut`, `AppendDies`, `AppendGivesUp` |
| `GC` (283-330) | `BeginGC`, `GCStat`, `GCStatFault`, `GCDelete`, `GCSkip`, `GCDone` |
| `GetVersion`, `GetBlob` (185-231) | `BeginRead`, `ReadStat`, `ReadObject`, `ReadBlob` |
| an error of any store call, a kill | `Crash` (the operation ends where it is), `SourceMissing` |
| the user, other programs | `Rerun`, `Abandon`, `ForeignWrite` |

Abstractions: a content stands for its bytes and its MD5. Stat and the
hashing of an object whose store reports no checksum are one observation. A
store call that returns an error has the effect of a crash at that point;
wherever the code goes on regardless (the Stat and hash of Revert, the Stats of
`archiveIfAbsent`, `appendEvent` and gc) that is an action of its own, and
`MaxFaults` counts them. A driver's Put and Copy replace an object whole, which
is what `StoreDrivers` checks, but a Put of a journal entry that dies goes
through a temporary file in the journal's own directory where the store is a
directory or SFTP (`TempFiles`): if the file is a part of the entry nothing on
the key works from then on, if it is complete `journal()` reads it as the entry.
The moment in which an SFTP server without posix-rename has removed a file and
not yet renamed the new one is `StoreDrivers`' alone. The command around Push
hashes its files before the first transfer and Push does not compare the bytes
it sends with `sum` (`workspace_cmds.go:52-78`), so an edit in between journals
a checksum the object does not have; here the bytes sent are the bytes hashed.

**`WorkspaceFiles`** is a dataset of several files shared by several users.
`local[u]` is a user's working copy; `object`, `archive` and `journal` are, per
key, what `VersionStore` promises, with the two steps a crash can come
between: bytes in place, event journaled. `run[u]` holds the locals of a
command: the checksums it hashed (`sums`), the files still to do, what status
said when it began (`shown`, moot once somebody else has interfered), and
whether status asked for this pull and the user has changed no file since
(`asked`, which others' pushes, reverts and gc leave as it is).

| code | actions |
|---|---|
| `runDatasetPush` (`workspace_cmds.go:28-99`) | `BeginPush`, `PushUnchanged`, `PushPut`, `Record`, `PushNoFile` |
| `revertCmd`, `gcCmd` | `BeginRevert`, `Restore`, `Record`, `GC` |
| `runWorkspacePull`, `atomicWorkspaceDownload` (292-355) | `BeginPull`, `PullSkips`, `PullLooks`, `PullFetches`, `PullFetchFails` |
| `ClassifyKey`, `datasetWorkspaceStatus`, `aggregateWorkspaceState` | the operators `ClassifyKey`, `KeyState`, `Aggregate` |
| a kill or a failing call, the user, other programs | `Crash`, `Edit`, `ForeignWrite` |
| a user doing what `workspaceDetail` says | `FollowPush`, `FollowPull` (fairness only) |

Abstractions: commands that write run one at a time, because what races
between them do to one key is `workspace_shared`'s question and breaks any
property here (rows 1 and 2 below); pulls and edits come at any moment. `gc`
and status are one step. A file may disappear between a push's hash and its
upload; that it changes there is row 26.

**`ObjectStore`** is what `workspace.go:37-51` asks of a driver: names and
whole objects, a write that takes effect once between its start and its answer
or never, an object that only a removal takes away.

**`StoreDrivers`** is the three drivers below it. `server` is the driver in
use with what the far side can do (SFTP's posix-rename, a path in an S3 URL);
`files[n][0]` is the file of a name and `files[n][t]` the temporary files
beside it; `put[w]` is a writer's Put or Copy, with the temporary name (`slot`)
and the place the file it has open is at by now (`fd`); `left` is the temporary
files no put will remove any more.

| code | actions |
|---|---|
| start of Put; Copy, which opens its source | `BeginPut`, `BeginCopy` |
| `os.CreateTemp` (`localdir.go:160`), `Create` of the fixed name (`sftpws.go:229`) | `CreateTemp`, `Create` |
| the copy and Close; their failure | `Write`, `WriteFails` |
| `os.Rename` (`localdir.go:174`), `PosixRename` (`sftpws.go:244`); the failure of the former, which leaves the file | `Rename`; `RenameFails` |
| the fallback (`sftpws.go:245-249`) | `RenameRefused`, `RemovalFails`, `PlainRename`, `PlainRenameFails` |
| `PutObject`, `CopyObject` (`s3ws.go:172-186`) | `Store` |
| Delete | `Delete` |
| a kill, a lost connection | `Crash` |
| a file that cannot be made, a failing S3 request | `Refused` |
| List, ListPrefix | the operators `List`, `Journal` |

Abstractions: two writers of one SFTP temporary file leave one writer's bytes
or a mix (`Torn`). An open file survives its renaming and removal, as on
POSIX; a file opened for Copy delivers what was in place then. S3's PutObject
takes effect in one step, multipart or not. At most `MaxLeft` temporary files
are left behind. Of two keys one may begin with the text of the
other; a key that is also the directory of another, possible on S3 alone, is
left out.

**`Publish`** is one dataset and one publish run after another. `versions[r]`
and `draft[r]` are the archive's side of record `r`, `finalizing` the records
Dataverse is still releasing, `pin` the dataset block of the manifest
(`remote`, `record`, the version number `version`, the version the record id
stands for `index`, the checksums `sums`), `local` the tracked files, `run`
the locals of `publishOne` and `publishTransaction`. Five variables only
remember: `kept` the drafts the program left behind and said so, `reserved`
those whose first DOI `--reserve` reserved, `orphans` the drafts that a failing
call left before the run could discard them, `unheard` the records that went
live without their run learning of it, `swapped` the files of which an
unverified upload once sent other bytes than were hashed. `Unverified` names the
files that InvenioRDM takes in parts and reports no MD5 of. A record is one
concept: `index` counts its published versions, as `parent_record_id` and the
version list do on the three archives.

| code | actions |
|---|---|
| hash, observe, gate, plan, re-pin (`publish.go:126-176`) | `Begin`, `Rerun`, `ObserveNothing`, `GateRefuses`, `Repin`, `ObservePlan` |
| open the draft (`246-282`) | `CreateDraft`, `DraftUnheard` (its reply, or that of a new version, is lost), `InvenioNewVersion`, `FigshareNewVersion`, `DataverseNewVersion`, `Import`, `ImportRefused`, `ImportFault`, `ClearFile`, `Cleared` |
| the plan loop (`294-308`) and `UploadFile` of each driver | `Remove`, `InvenioRegister`, `FigshareDropExisting`, `FigshareInitiate`, `DataverseDropExisting`, `DataverseAdd`, `Commit`, `Applied` |
| metadata, preflight, reserve (`310-334`) | `Preflight`, `ReserveDOI` |
| `Publish` of each driver with its reconciliation | `InvenioPublish`, `InvenioPublishFound`, `InvenioPublishUnseen`, `InvenioPublishFails`, `FigsharePublish`, `FigsharePublishUnread`, `FigsharePublishFails`, `DataversePublish`, `DataversePublishFails`, `DataverseRelease`, `DataversePoll`, `DataversePollEnds` |
| pin and save (`210-225`) | `Pin` |
| the discard closure (`284-292`) and `Discard` | `InvenioDiscard`, `FigshareDiscard`, `DataverseDiscard`, `DiscardFails` |
| failing calls, a kill | `CallFails`, `CallAborts`, `DraftRefuses`, `DraftGone`, `Crash` |
| the user and a collaborator | `Edit`, `ForeignPublish` |

Abstractions: a call and its retries are one step. A publish call whose reply
was lost is `InvenioPublish` or `FigsharePublish` itself, because the driver
reads the record and goes on; where that read fails too it is
`InvenioPublishUnseen` or `FigsharePublishUnread`, and the two failing calls of
the former count as one fault, an outage. The confirmation prompt, `--dry-run`
and metadata preflight refusals change nothing. Metadata is left out; of upload
parts what matters here is kept, whether the upload is compared with the hash
(`Verified`). A file whose listing carries no usable MD5 is uploaded once more
than the plan of this model does, with the same bytes. A collaborator's version
is the draft it finds or differs from the latest one in at most one file.

**`DatasetPull`** extends it with the other command that moves the pins. `pull`
is the locals of `runDatasetPull`: the version fetched (`target`), whether the
manifest moves to it (`repin`), its listing (`seen`), the files the listing has
no usable checksum of (`bare`), the files still to treat and the pins in memory
(`pin`).

| code | actions |
|---|---|
| refusals, `--latest` (`dataset_pull.go:32-75`) | `BeginPull`, `PullResolve` |
| listing (77-84) | `PullList` |
| the file loop (86-130) and `downloadDatasetFile` | `PullSkipsAbsent`, `PullRefuses`, `PullKeeps`, `PullDownloads`, `PullFetched` |
| the second `GetRecord` (132-145) | `PullRecord`, `PullRecordFails` |
| save (146-150) | `PullSave` |
| a failing call, a kill | `PullFails`, `PullCrash` |
| `datasetStatus`, `datasetState` | the operators `LocalChanged`, `RemoteNewer`, `DatasetState` |

One command runs at a time; edits, collaborators and Dataverse's release act
at any moment of either. A download is compared with the checksum that comes
along with it, if one does, and with nothing else: a file InvenioRDM took in
parts (`InParts`) may arrive with any bytes and is kept (`Delivered`). A pinned
pull compares the pin with the listing only, before it fetches, and not where
the listing is `bare`; `--latest` then pins no checksum. (The digest InvenioRDM
lists for parts is no MD5; `--latest` pins it as it stands, which the model
takes for none.) `--dry-run` changes nothing, and pulls of a workspace are
another component.

**`FileState`** holds the pure three-way comparison: `Classify` is
`ClassifyFile`, `ClassifyBlind` its `--no-check-remote` branch, `SyncDecision`,
`PushDecision` and `PullDecision` the tables of `gate.go`, `CanSkip` the
shortcut of `manifest_helpers.go` past the version history.

**`OsfSync`** extends it to runs. `local`, `remote` and `pins` are the three
sides of each entry (files and wiki pages); `run` is the process, with its
copy of the manifest (`mem`), the cached listing, what the scan made of each
entry and what is still to do. Pass 1 is `ListFiles`, `ListWikis`, `ScanFile`,
`ScanWiki`, `ScanBlind`; then `Blocked`, `Declined` or `Proceed`; pass 2 is
`ExecPin`, `ExecReport`, `PushFile`, `PushWiki`, `StartDownload`, `Receive`,
`PullWiki`, `SkipUnresolved` and their failures; `Save` writes the manifest at
the very end. `PutList` to `PutElsewhere` are explicit `push PATH`, `GetList`
to `Track` explicit `pull PATH`. What the code makes up when a reply tells it
no version is an action of its own wherever it does so: `PushFileUnreadable`
and `PushWikiUnreadable` guess the next number, `PutUnreadable` tracks nothing,
`StartDownloadUnlisted` and `TrackUnlisted` pin version 0.

Abstractions: tracked files share one directory, so one listing serves the
whole run, which is the most stale the cache can be. A wiki content stands
for all texts with the same canonical form. A file's hash and the fetch of
its history are one step, as are a page's content and its history; both read
the entry alone, so the order against other steps of the run does not matter,
and a page's number, which comes from an earlier request, does stay separate.
Deletions on OSF happen between runs. Ctrl-C cancels the transfer and counts
as a failed call (`root.go:118-123`); only a kill is `Crash`. `pull
--version`, recursive explicit transfers (the single-file step repeated) and
`--dry-run` are left out.

**`ArchiveCalls`** opens the calls that `Publish` takes as one step: one
action per HTTP request of the three drivers, over `RetryClient.Do` and
against servers that answer as the repository's fakes do. `client` is the
driver's call under way (`pc` names the request it makes next) and the draft
the caller holds; `server` is the record, where a file entry has the parts it
received (`data`), whether it is complete (`done`) and the number Dataverse
put in its name (`n`). `Asks` is a request: it is answered, or fails at the
gateway before or after the server acted, and is then repeated where `Do`
repeats it (not a streamed body; InvenioRDM's publish only when told that it
was not served) or surfaces as an error.

| code | actions |
|---|---|
| `CreateDraft`, `NewVersion` | `Create`, `NewVersion` |
| `DeleteDraftFile`, with its lookup on Figshare and Dataverse | `Seek`, `SeekPublished`, `Delete` |
| `invenio.UploadFile` (417-475) and `uploadMultipart` | `Register`, `PutContent`, `Commit`; `RegisterMultipart`, `PutPart`, `Abort` |
| `figshare.UploadFile` | `FindFigshare`, `Drop`, `Initiate`, `UploadInfo`, `PutPart`, `Complete`, `Final` |
| `dataverse.UploadFile` | `Unlock`, `FindDataverse`, `FindPublished`, `Drop`, `Add`, `Undo` |
| `ImportPreviousFiles`, `Discard` | the same |
| `Publish` of each driver | `PublishInvenio`, `Reconcile`; `PublishFigshare`, `ReadPublic`; `Unlock`, `CountBefore`, `Release`, `Poll`, with the server's `Finalize` |
| the command around them: a publish, or one that is run again | `OpenFirst`, `CallUpload`, `CallDelete`, `CallImport`, `CallDiscard`, `CallPublish`; `Insist`, `Retry` |
| the user, a kill | `Edit`, `Death` |

Abstractions: one file size and two parts, so that a repeated or missing part
shows in `data`. Back-off delays and the number of attempts are left out: a
request may be repeated as often as faults are left. Polling once more is a
stutter, giving up is a poll that finds nothing. `Publish` takes a publish
call as one version; `ReportsTrue` is where that is checked, and Figshare is
where it is not so (row 41). Downloads are `DatasetPull`'s; metadata and DOI
requests are left out.

**`Manifest`** is `datapin.toml` as a record (entries, wiki entries, datasets,
site pages) and what makes it load: `Loads` is `Load` with `validate` section
by section, `Dedupe` is `dedupeSlug`, `Home` is `ResolveProject`.

**`ManifestCommands`** runs the commands that change it, as several processes
in one directory. `disk` is the file, `legacy` a `.gosf/gosf.toml`, and
`proc[p]` a command: its copy (`m`), the manifest it loaded (`base`), where it
goes on after a save (`next`). `overlap` records that a save replaced a
manifest its command had not seen, `rehomed` that the project was changed,
`astray` the pins that pushes of a tracked file to some other place wrote.

| code | actions |
|---|---|
| `FindManifest`, `Load`; a new manifest where there is none | `Load`, `AddCreates`, `OnboardCreates`, `Created` |
| explicit transfers beside a manifest that does not load (`push.go:113-122`, `pull.go:198-216`) | `PathUnloaded` |
| `Save` (302), its refusal of a legacy path | `Save`, `SaveRefused` |
| `manifest.Init` | `InitProject` |
| `add`, `wiki add` | `Add`, `AddDirectory`, `WikiAdd` |
| `sync`, bare `push` | `Sync`, `Push` (`Reconcile`, `Refused`) |
| `push` and `pull` of one path | `PushPath`, `PullPath` |
| `publish`, `pull` of a dataset | `Publish`, `PublishNothing`, `PullDataset` |
| `onboard`, `onboard --osf` | `OnboardArchive`, `OnboardDataset`, `OnboardWorkspace`, `OnboardOsfProject`, `OnboardOsfFiles` |
| the user's editor, others | `Review`, `EditFile`, `ForeignUpload` |

Abstractions: the transfers of one run are one step, because what happens
between its scan and its last transfer is `OsfSync`'s subject, and the
transaction of a publish is `Publish`'s; what is kept is the time between load
and save. A push of one path writes where it is told to and re-pins the entry of
that local path, wherever that entry says the file is (`PushTracked`). Bytes are
named by the version that holds them. Bare `pull` writes
the manifest as `sync` does and is left out. Users name the pairs in `Targets`,
others upload to those in `Busy`.

**`Migrate`** extends it with `datapin migrate`. `proc[p].plan` is what is
still to export or fetch, `provenance` that `MIGRATED.md` was written.

| code | actions |
|---|---|
| GUID mode: refusals and listings (`migrate.go:120-190`) | `MigrateGuid` |
| `fetchFile`, `exportWikis` | `ExportFile`, `ExportChanged`, `ExportFails`, `ExportPage` |
| `mergeMigratedManifest` and save | `MergeExport`, `Save` |
| manifest mode: classification and refusal | `MigrateManifest`, `MigrateScan` |
| fetches | `MigrateFetch`, `MigrateFetchFails` |
| `groupFiles`, the pages, save | `MigrateRewrite`, `Save` |
| `MIGRATED.md` | `WriteProvenance` |

Abstractions: the listings of one export are taken together. Groups are the
top-level directories or one `--dataset`. Slugs are a name and a number.

**`MCWorkspace`, `MCWorkspaceFiles`, `MCStoreDrivers`, `MCPublish`,
`MCDatasetPull`, `MCOsfSync`, `MCArchiveCalls`, `MCMigrate`** give the
symmetry sets, `MCMigrate` also the repositories a run starts from; the `.cfg`
files give the constants. **`WorkspaceProofs`**, **`WorkspaceFilesProofs`**,
**`StoreDriversProofs`**, **`PublishProofs`** (which is also about
`DatasetPull`), **`FileStateProofs`**, **`OsfSyncProofs`**,
**`ArchiveCallsProofs`** and **`ManifestProofs`** (about `Manifest`,
`ManifestCommands` and `Migrate`) hold the theorems.

## 3. The runs

| run | instance | question and answer |
|---|---|---|
| `workspace_solo` | 1 client, 3 contents, 3 events, 2 crashes, 1 outside write between operations | All seven workspace properties hold: revertible, numbered, honest about what is recoverable, right reads, gc's budget, refinement of `VersionStore`, and every push that is re-run is answered, unless a death tore a journal entry (row 22). |
| `workspace_shared` | 2 clients, 2 contents, 2 events, an ignored Stat failure | What two racing clients cannot spoil: when all are done, what the key holds is a version the journal has. (What they can spoil is rows 1 and 2.) |
| `workspace_files` | 2 users, 2 files, 2 contents, an edit, a crash or an outside write, gc that keeps nothing, 2 events per key before only remedies start | Following status costs no work, whatever the other user pushes, reverts or collects on the way; it buries nothing newer, works, and comes to rest. |
| `store_drivers` | 3 drivers, 2 writers, an object with its archive and another key's journal entry, 2 contents, 1 crash, 1 failing call, 1 temporary file left behind | The drivers implement `ObjectStore`; what calls that ended leave in a listing beside whole objects is the file of a writer that died or of a rename that failed, and in the latter case it can be read. SFTP writers take turns on one name. |
| `dataset_safe` | 3 archives, 2 files, 2 contents, 2 records, 1 crash or failed call, edits, 1 pull with or without `--latest`, `--force` or not, a collaborator, 1 of the files large enough for InvenioRDM to take it in parts | Published files are the hashed files, the pins name a version that exists and keep naming its content after a pull, IN_SYNC is true, one record, no stray draft, the gate holds; each but for the failures its comment names (rows 10, 11, 38 and 39). |
| `publish_converges` | 3 archives, 1 file, 4 records, 1 crash and 1 failed call, 1 edit, 1 `--reserve`, the collaborator at any moment | A user who re-runs publish, and does not leave `--force` out for ever, is answered. |
| `publish_reserve_forgets` | InvenioRDM, 1 file | **Violated**: the DOI that goes live is not the reserved one. |
| `osf_quiet` | 1 file and 1 wiki page, 3 contents, 3 versions, all commands and flags, 1 crash, failed call or unreadable reply, 1 edit and 1 upload between runs | Local work kept; versions newer than the pin, and files a sync never saw, not overwritten; IN_SYNC is true, a sync that ends settles, and what it pins of files and pages is true. |
| `osf_pins` | 1 file, 3 contents, 3 versions, five commands, 2 edits and 2 uploads at any moment, a failed call or an unreadable reply, a deletion | Saved pins are true and no truncated file is published. |
| `osf_ends` | 1 file and 1 page, 2 versions, sync and a push to another path, a crash or an unreadable reply, an edit, an upload and a deletion at any moment | A re-run sync ends. |
| `manifest_commands` | 2 processes, 2 commands out of thirteen, 5 repositories (fresh, tracking a project and its component, with a dataset, with a legacy manifest, with one of a newer program), 3 paths, 2 versions, 1 edit, upload or fault | One dataset has one record and no save takes one back unless a save replaced what it had not seen; pins name versions that exist, except where a tracked file was pushed to another place; sync, push, publish, a dataset's pull and migrate leave a manifest that loads; manifest-mode migration leaves nothing behind on OSF. |
| `archive_requests` | 3 archives, InvenioRDM with and without multipart and MD5, 1 file in 2 parts, 2 contents, 2 versions, 2 faults, 1 edit, 1 death | An upload that reports success delivered; what publish and delete report is so; one fault or death leaves no renamed file; an upload that is run again ends. |

**Bounds.** Three contents are what a three-way comparison can tell apart and
what gc needs to have a current, a kept and a reclaimed one; two contents
suffice where only equality with the pin matters. Two files in `dataset_safe`
give a plan, and a pull, that is half done. Two crashes of a push cover a
crash in the recovery of a crash. Two records leave one for a failed first
publish and one for the run that succeeds, four in `publish_converges` one
more for each further trouble and for `--reserve`; with fewer, `CreateDraft`
would be disabled where the archive never is. `MaxTroubles` bounds crashes and
failed calls together so that each may happen at every step without both
multiplying. Two versions are the smallest number with an older one; three
give a pin with something on either side. Contents are symmetric in the safety
runs that only compare them, clients in `workspace_shared`, contents and
writers in the `store_` runs; liveness runs use no symmetry. Three temporary
files of one name are what two writers and one that is left behind need; two
writers are
enough for one to be between any two calls of the other. Two files are what
DIVERGED needs, one in each direction. In `workspace_files` contents are only
compared within a file, so that all files may start with the same one; pushes
that status asks for are never held back by a bound, which is why the run
comes to rest by itself. In `manifest_commands` two commands are what a lost
update, a publish before a migration, or a second migration need, and the five
repositories stand for what earlier commands left; the paths are chosen so
that a page of the project, a tracked page and a file of the component can
meet at one. Two faults in `archive_requests` let a lost reply be followed by
a failed clean-up; a third only repeats one of the two.

**Fairness.** `WF(Step)`: a started process is scheduled and a call returns.
In `WorkspaceFiles`, `SF` of `FollowPush` and `FollowPull`: a user whom status
keeps telling to push or pull does so at some point when no other writing
command is under way. `WF(Rerun)`: a user who was not answered runs the
command again, which is what the program's messages and `workspace.go:93` ask
for. `SF` of a rerun with `--force`: a user who is refused time and again does
at some point what the refusal says (`publish.go:152-155`). Dataverse's
release (also `Finalize` in `ArchiveCalls`) and the poll limit are weakly fair
because the server finishes what it accepted and the poll loop counts. In
`ArchiveCalls` a call goes on (`WF(Request)`), and a user whose upload failed
runs the command again (`WF(Retry)`), as `publish.go:294-304` and the drivers'
comments on crashed runs expect. Crashes, failed calls, edits and other users
are never fair; starting a command is not either.

## 4. What is proved

TLAPS checks every proof; nothing is assumed but the constants' assumptions
and what a theorem names. Those premises are of two kinds: bounds set to zero
(`MaxFaults = 0`), and switches of the model that let somebody act at a time
the code does not guard against (`Overlap`, `EditsOverlap`, `ForeignOverlap`).
Both are met by runs of section 3, and for each the divergence that makes it
necessary is in section 5. All theorems hold for any number of keys, clients,
contents, versions and edits.

| module | theorem | states | premise |
|---|---|---|---|
| `WorkspaceProofs` | `TypeCorrect` | types of every place and of each operation's locals | none |
| | `ObjectJournaledAlways` | `ObjectJournaled` | none |
| | `RevertibleAlone`, `NumberedAlone`, `RefinesVersionStore`, `GCKeepsBudgetAlone` | `Revertible`, `JournalNumbered`, `VersionStoreSpec`, `GCKeepsBudget` | one client, outside writes between operations, no failed Stat that the code ignores (rows 1 to 3) |
| | `ReadsRightUndisturbed`, `RecoverableHonestUndisturbed` | `ReadsRight`, `RecoverableHonest` | one operation at a time; faults allowed |
| `WorkspaceFilesProofs` | `FilesTypeCorrect` | types | none |
| | `PullKeepsWorkSequential`, `PushKeepsNewerSequential`, `RemedyWorksSequential` | `PullKeepsWork`, `PushKeepsNewer`, `RemedyWorks` | no edit between a push's hash and its upload (row 26) |
| `StoreDriversProofs` | `DriversTypeCorrect`, `DriversImplementStore` | `TypeOK`, `ObjectStoreSpec` | SFTP writers of one name take turns (row 24) |
| | `ListingsAlwaysClean` | `ListingsClean` | as in the property: all puts ended; what died or could not be renamed is excepted |
| `PublishProofs` | `TypeCorrect` | `PullTypeOK` | none |
| | `OneRecordAlways`, `FailureDiscardsAlways` | the property of that name | as in the properties: records published unheard (row 10), drafts that failing calls left (rows 11 and 38) |
| | `PinNamesVersionAlways`, `GateHoldsAlways`, `PublishedIsLocalAlways`, `PinsServedAlways`, `InSyncIsPublishedAlways` | the property of that name | nobody publishes during a run, `~Overlap` (row 12); for the last three, files whose unverified upload sent other bytes are excepted (row 39) |
| `FileStateProofs` | `SkipSound`, `FetchSafe`, `SyncPushSafe`, `PushSafe`, `PinnedIsInSync` | the policy tables of `gate.go`, for every pin, content and history | none |
| `OsfSyncProofs` | `SyncTypeCorrect` | types, and that a transfer under way has exactly one file to do | none |
| | `NeverTruncated` | `NoTruncatedVersion` | no run is killed (row 18) |
| | `LocalWorkSurvives` | `LocalWorkKept` | no edit during a run (row 13) |
| | `NewerSurvives` | `NewerNotBuried` | no upload by others during a run that looks at the remote (row 13) |
| | `PinsAreTrue` | `PinTrue` | pushes go to the entry's own path (row 17); for pages, nobody acts during a run (row 16), and a guessed number may be too low (row 44) |
| | `InSyncMeansSame`, `SyncSettlesAll` | `InSyncIsSame`, `SyncSettles` | no upload by others during a run; no deletions for the former (row 15) |
| `ArchiveCallsProofs` | `UploadDeliversAlways`, `ReportsTrueAlways`, `NoStrangersAlways` | the property of that name | none |
| `ManifestProofs` | `TypeOKAlways` | `TypeOK`: what is on disk and in every command's hands, and that published datasets name records and versions that exist | none |
| | `PinServedAlways` | `PinServed` | as in the property: entries without a project of their own, until the project is changed (row 30); pins of files pushed to another place (row 17) |
| | `RecordsKeptAlways`, `OneRecordUnlessOverlappedAlways` | `RecordsKept`, `OneRecordUnlessOverlapped` | as in the properties: no save replaced what its command never saw (row 43) |

**The drivers' argument.** That a rename puts a whole object in place needs to
know what the temporary file holds when it is renamed. `DInv` says it: what is
being written and what is in place is whole, a writer's temporary file is
open, partial and its own until it is closed, and from then until the put ends
it holds the content asked for (`Own`), and two puts never have one temporary
file (`Apart`). A directory guarantees the last part by the unique name;
SFTP, whose temporary name is fixed, only by the premise, and the
counterexample without it is row 24 below. Each action then is one of
`ObjectStore`'s: the rename that ends a put is `TakeEffect`, a failure or a
crash `GiveUp`, the removal before the plain rename `Remove`. For the listings
`Accounted` adds that a temporary file exists only under a put that uses it or in
`left`, and that, while nobody died, a file in `left` is whole: only a rename
that failed put it there, and no put writes to a name that is taken.

**The workspace argument.** `Revertible` is not inductive: between its Stat
and its Put a push has forgotten why overwriting is safe. `SoloInv` adds what
the running operation relies on (`Safe`): the journal it read is still the
journal, the number it will try is the one after the last, until the archive
step the object is the one observed, before a Put or a Restore the object's
bytes are absent, identical or archived under their own address, and while
the entry is being written the object holds the content it names. A crash
drops the operation and with it its obligations, which is why any number of
crashes is harmless. `SoloInv` speaks of every client and is preserved because
there is one: a second client invalidates `known = journal` and the observed
object, and the counterexamples 1 and 2 below are exactly that.
`ObjectJournaled` is the part that no race can spoil, and so needs an invariant
of its own: as long as nobody died and no other program wrote, the object is a
version of the journal or what some client between its Put and its journal
entry is about to record. gc's budget
needs more than an invariant of the state: the versions ahead of the one the
sweep is at that were kept are counted, and the count is compared with the
set of recoverable versions by cardinality.

**The workspace commands' argument.** Of each key, every journaled version is
archived, in place or given up; what a push has hashed is what the file still
has; a push or a pull that status asked for meets, for the keys still to do,
the state status had seen. A pull therefore only writes over content that is
the workspace's own, and when the last key is done every key is IN_SYNC. That
much needs others to keep still; that a pull costs nobody's work does not. For
it `Asked` says of a pull that status asked for, file by file, that what the
user has is recorded, reclaimed or written over by another program (`Lasting`),
and nothing others do takes that back (`Lasts`).

**The publish argument.** Every action of `Publish` and `DatasetPull` is first
shown to be a step of one of a dozen forms (a run works on its draft, ends,
opens, publishes, pins, ...) that forgets nothing of what the model notes
(`Remembers`). `Sound` is what a run's place says of its record
and of the archive. On top of it: `Single`, only the pinned record, the one
a run is about to pin, and those that went live unheard have versions;
`Discards`, the drafts there are are those kept, those of a run that is going
on, or orphans of a call that failed before it could discard; `Numbered`,
the number of versions at each place of a run, which is what the driver's
reconciliation and the pinned number rest on; `Filled`, the draft is the
hashed files for the keys done and the published ones for those to do, but for
keys in `swapped`; `Tracked`, that checksums are those of tracked files; `Served`, that
the checksums in memory and in the manifest are those of the version they go
with, or, once a call failed, of one later version. `~Overlap`
is needed because nothing in the code holds the archive still between the
observation and the publish call.

**The synchronisation argument.** What a run knows of each entry is split by
where it came from: the manifest's copy, the listing, the history and the
file. A pass 2 step applies `FetchSafe`, `SyncPushSafe` or `PushSafe` to what
pass 1 read, so what is proved of the run is that what it read still holds of
the entry when its turn comes: the file is the one hashed, the remote history
extends the one read, the pin is the saved one. `PinTrue` adds that every
pin in memory names a version OSF has; for pages the number and the checksum
come from two requests, so the invariant ties them only while nobody acts, and
says of a guessed number that it is not above the version that was written.

**The archive calls' argument.** None of the three properties is inductive:
they speak of calls that have ended, and what makes them true is what holds
between two requests. Every request is first shown to have one of a few
effects on the record, whatever becomes of its reply, and to move its call in
one of a few ways; then, of those, `Placed`, which request belongs to which
call and archive; `Settled`, that no request of an upload meets a release that
is under way; `Sending`, that a multipart upload has sent exactly the parts
before the one it is at, of the bytes that were hashed, as long as nobody
edited; `Current`, that an InvenioRDM draft that is open is the caller's, so
that a 404 on it means what it says; `Publishing`, that what the driver's
reconciliation finds is the draft it was called on; and `Strangers`, that the
one entry that may be renamed is the one the call is about to take back.
`NoStrangers` needs its count of failures: adding is repeated after a lost
reply, and only a second failure can stop the undoing.

**The manifest's argument.** Commands hold copies of the manifest for as long
as they run, while others save, publish and upload. `IInv` therefore says of
every copy what it says of the file: it is `Fine`, its entries pinned to
versions the server has and its published datasets named after records the
archive has. A copy stays fine whatever others do because versions and records
are only added (`Grows`). Two things more are carried. A copy that was loaded
`Keeps` every record of what it was loaded from, which each command is shown
to preserve, the merge of an export and the grouping of a migration included;
a save that replaces exactly that manifest then keeps what was published.
And the pins of entries without a project of their own are good in the
manifest's project, unless they are in `astray`, the manifest was moved to
another project, or saving the copy would move it, which is how a command that
named another project after loading nothing enters.
`OneRecordUnlessOverlapped` counts: a first publish adds one record and one
command that has it unsaved, a save that replaces what its command had seen
turns one such command into a record the manifest knows.

The initial manifests are assumed to be what datapin writes
(`WrittenAssumption`): entries belong to a project and are pinned to a version
it has, no dataset was published yet, and a `.gosf/gosf.toml` has no datasets,
which came with schema 2 (`manifest.go:16`) after the program was renamed. The
last part matters: publishing from a read-only manifest makes records nobody
saves (row 29). Only finitely many commands run (`ProcsAssumption`), so that
they can be counted.

**A correction the proofs led to.** `Action` of `Publish`, `DatasetState` of
`DatasetPull` and the server's replies of `ArchiveCalls` were written with
CASE arms that overlap and rely on their order. TLA+ leaves open which arm is
taken, and TLC takes the first, so the runs said nothing about it; the arms
now exclude each other, as the `if` chain of the code does.

**Only model-checked.** Liveness (`PushAnswered`, `Converges`, `SyncEnds`,
`UsersSettle`, `UploadsEnd`), which needs `ENABLED`; `ReservedGoesLive`, which
the code violates; and `StillLoads` and `NothingLeftBehind`, which rest on what
`Dedupe` and the grouping of a migration, folds over sets, compute for sets of
any size, so that their proofs need induction over data.

## 5. Known divergences

One is a run of the project and a finding in `PROJECT.json`. The others were
met on the way to the premises of the properties, and each can be replayed by
changing the instance named, or by dropping the premise named, which the
property's comment explains.

| | divergence | replay |
|---|---|---|
| 1 | Two pushes race: one overwrites an object the other wrote after it was observed (`workspace.go:132-145`). | `Revertible` in `workspace_shared` with 3 contents, 3 events |
| 2 | Two pushers of different contents take the same number; the name probed holds the checksum too (`workspace.go:411`). | `JournalNumbered` in `workspace_shared` |
| 3 | Revert ignores a failed Stat, and a failed hash of the object (`workspace.go:251-254`): it overwrites an object it archived nowhere, or under the empty address. | `Revertible` in `workspace_solo` with `MaxFaults = 1` |
| 4 | After a push that died between Put and journal, the next push blames an outside write (`workspace.go:127`). | `\A e \in journal : foreign = 0 => ~e.oob` in `workspace_solo` |
| 5 | gc counts a version whose bytes a crash lost against its budget (`workspace.go:305`). | `GCKeepsBudget` without `crashes = 0`, 4 events |
| 6 | The draft of `--reserve` is forgotten on a first publish (`publish.go:202`). | run `publish_reserve_forgets` |
| 7 | Figshare's reconciliation takes an old version for the new one: a publish that failed is pinned as a version that does not exist (`figshare/client.go:447`). | `PinNamesVersion` in `dataset_safe` with `Kinds = {"figshare"}`, `MaxForeign = 0`, `Forces = {FALSE}` |
| 8 | A file a failed run left in a Figshare article or Dataverse draft is published by a later run whose plan keeps that key (`publish.go:294`). | `PublishedIsLocal` without `Kind = "invenio"` |
| 9 | A run started while Dataverse is releasing pins a wrong number (`publish.go:342`), or on a first publish makes a second record. | `PinNamesVersion`, `OneRecord` without their premises |
| 10 | A publish whose run never learns that it succeeded is not pinned: a first publish is repeated as a second record, a later one refused until `--force` (`publish.go:152`, `223`). The run died before the save; or InvenioRDM's reply was lost and the look at the record failed too (`invenio/client.go:673`); or Figshare's public article could not be read back (`figshare/client.go:448`); or Dataverse's release outlasted the polling. | `OneRecord` without `\ unheard`; `Converges` with `Forces = {FALSE}` |
| 11 | A call that fails between opening a new version's draft and the discard closure leaves the draft (`publish.go:252-282`). | `FailureDiscards` without `orphans`, with `MaxFaults = MaxTroubles = 2` |
| 12 | A version a collaborator publishes after the gate looked is published over, and keys the plan keeps take its content. | `GateHolds`, `PublishedIsLocal` with `Overlap = TRUE` |
| 13 | A file edited between the scan and its own transfer is overwritten; a version uploaded in between is buried. | `LocalWorkKept`, `NewerNotBuried` in `osf_quiet` with `EditsOverlap`, `ForeignOverlap` |
| 14 | Bare push, and `sync --no-check-remote`, upload an unpinned file over other content on OSF. | `NewerNotBuried` for unpinned entries without `run.cmd = "sync"`, or without `~run.blind` and `Blinds = {TRUE}` |
| 15 | A file deleted and created again is IN_SYNC with other content: its numbers start over. | `InSyncIsSame` with `MaxDeletes = 1` |
| 16 | A wiki page's number and content come from two requests; a pushed page is pinned with the scan's checksum. | `PinTrue` with a wiki page, `ForeignOverlap` or `EditsOverlap` |
| 17 | An explicit push of a tracked file to another name or project re-pins the original entry, which is found by its local path (`push.go:387`): the pin names another file's version, or one its own file lacks. | `PinTrue` in `osf_pins` with `Conflicts = {"rename", "elsewhere"}`; `PinServed` in `manifest_commands` without `astray` |
| 18 | A killed download leaves a truncated file that the next push publishes. | `NoTruncatedVersion` with `MaxCrashes = 1` |
| 19 | `pull --latest` leaves the old checksum of a key the new version lacks (`dataset_pull.go:90`). | `PinsServed` with `pin.sums[k]` in place of `{None, pin.sums[k]}` |
| 20 | A second `GetRecord` that fails saves the new checksums under the old record (`dataset_pull.go:134`); the next pinned pull is refused. | `PinsServed` with `{pin.index}` as the set of `v` |
| 21 | `sync --no-check-remote` fails for ever on an unpinned page that exists. | `SyncEnds` with `Blinds = {TRUE}` |
| 22 | A crash between the temporary file of a journal entry and its rename leaves the file in the journal's directory; every later operation on the key fails on a corrupt entry (`localdir.go:160`, `workspace.go:391`), against "recovery from any crash is re-run the push" (`workspace.go:93`). A rename that fails leaves a complete one, and the entry is then listed twice (`localdir.go:174`). | `PushAnswered` in `workspace_solo` without `torn`; `JournalReadable` in `store_drivers` with `Names <- JournalsOnly`, `Drivers = {"dir", "sftp"}`, `Together = {"dir"}`, `MaxFaults = 0` |
| 23 | On S3 with a path in the URL the journal of `results.csv` lists that of `results.csv.gz` (`s3ws.go:97`). | `JournalIsOwn` in `store_drivers` with `Names <- JournalsOnly`, `Drivers = Together = {"s3"}`, `MaxCrashes = MaxFaults = 0` |
| 24 | Two SFTP puts of one name share the temporary file: a torn object, or one put's clean-up removes the other's file (`sftpws.go:229`, contrary to 222). | `ObjectStoreSpec` in `store_drivers` with `"sftp"` in `Together` |
| 25 | A reader that lists a journal while a put to it is under way sees the temporary file. | `JournalReadable` without `AllIdle` |
| 26 | A push hashes every file first and journals that hash whatever it sends (`workspace_cmds.go:52`, `78`): after an edit in between the journal vouches for bytes that exist nowhere, another user holding them is told BEHIND, and the pull discards the last copy. | `PullKeepsWork` in `workspace_files` with `EditsOverlap = TRUE` |
| 27 | Status says NOT_PUSHED or AHEAD and names `datapin push` although a tracked file is missing on both sides, on which push refuses (`workspace_cmds.go:56`); status leaves such files out (`dataset_workspace_status.go:103`). | `UsersSettle` without the last line of `AtRest` |
| 28 | A file sync wants to pull whose path cannot be resolved, for whatever reason, is skipped and the run succeeds (`sync.go:228`); one it wants to push is then taken for new (`sync.go:390`). | `SkipUnresolved`, `ListFails` of `OsfSync` |
| 29 | sync, push and publish beside a legacy manifest do all their work, and only then does Save refuse (`manifest.go:303`): an upload or a record nobody pinned. | `SaveRefused` of `ManifestCommands` |
| 30 | `init` beside a legacy manifest hides its entries; on one of a newer schema it rewrites it under the older number; with another id it moves entries without a project of their own but keeps their pins (`manifest.go:373`). | `PinServed` without `~rehomed` |
| 31 | `onboard` offers files "already tracked anywhere in the manifest" when they are site pages (`onboard.go:534`); the manifest then does not load. | `StillLoads` with `"onboard"` |
| 32 | `onboard --osf` offers files that are wiki pages or in a dataset as not "already recorded in the manifest" (`onboard.go:879`). | `StillLoads` with `"onboard --osf"` |
| 33 | `add` looks at the files section only and `wiki add` at files and pages; either may leave a manifest no command loads. | `StillLoads` with `"add"`, `"wiki add"` |
| 34 | Exporting a project again drops the files a user added to one of its datasets, and the checksums pinned for its files, although publish pins are "carried forward" (`migrate.go:406`). | for every `d` in the manifest, `MergeExport` keeps `d.locals` in the dataset of its slug |
| 35 | The paths of an export may meet each other or the manifest's pages; the manifest written does not load. | `StillLoads` with `"migrate guid"` |
| 36 | An export whose wikis, or components, cannot be listed ends as a success without them (`migrate.go:343`, `161`). | `MigrateGuid` |
| 37 | A file uploaded to OSF while the export runs fails the checksum of the listing; the copy that was here before is gone (`migrate.go:323`). | `ExportChanged` |
| 38 | A `CreateDraft` that is repeated after a lost reply leaves a draft nobody knows of (`httpx/retry.go:82`); so does a `CreateDraft` or `NewVersion` whose reply never comes (`publish.go:252-281`). | `Create` of `ArchiveCalls`; `FailureDiscards` without `orphans` |
| 39 | A registration that is repeated is refused as a duplicate, so the upload fails and leaves the entry for the next run to clear; a multipart upload the instance reports no MD5 of is not verified (`invenio/client.go:549`), and if the file was edited since it was hashed another content is published than is pinned. | `UploadDelivers` without `Unverified`; `PublishedIsLocal`, `PinsServed`, `InSyncIsPublished` without `\ swapped` |
| 40 | Dataverse's lookup takes any failure of the published version's listing for "not there" (`dataverse/client.go:533`), against `backend.go:125`; publish ignores a NotFound (`publish.go:299`) and the published version keeps a file the user removed. | `AbsenceIsReal` in `archive_requests` with `Kinds = {"dataverse"}`, `MaxFaults = 1` |
| 41 | Figshare's publish is repeated on gateway errors (`figshare/client.go:439`), against `httpx/retry.go:34`: one publish makes two versions. Dataverse's release is too, and the second is refused as if there had been no draft. | `ReportsTrue` without `kind # "figshare"`, or without `kind # "dataverse"` |
| 42 | `pull <project>:<path>` beside a manifest that does not load, for example of a newer schema, starts a new one and saves it over the old (`pull.go:198-216`): every entry and pin is gone. | `[][disk # NoManifest /\ disk.sets # {} => disk'.sets # {}]_mvars` in `manifest_commands` with `Commands = {"pull path"}` |
| 43 | Two commands at a time: the later save drops what the earlier one recorded, and a dataset gets a second record (`manifest.go:302`). | `OneRecordUnlessOverlapped` without `~overlap` |
| 44 | The version of a pushed wiki page whose reply has no number is guessed (`wiki_sync.go:160`); when others pushed before, the number pinned is an older version's, and the next sync fetches a page it has. | `PinTrue` in `osf_quiet` without `Guessed` where `unreadable > 0`, with `ForeignOverlap = TRUE` |
| 45 | When the versions of a file cannot be listed after an explicit pull, its entry is pinned at version 0 whatever it was pinned at before (`pull.go:415-432`); a bare pull does so after a blind scan (`sync.go:303`). | `TrackUnlisted`, `StartDownloadUnlisted` of `OsfSync` |
| 46 | "A pinned `pull` verifies every downloaded file against the pin" (`README.md:363`): it compares the pin with the archive's listing only, and only where that has a checksum (`dataset_pull.go:101`); the bytes are compared with what the archive sends along, if it does (`invenio/client.go:780`). | in `dataset_safe`: `[][\A k \in Keys : PullAt("fetch") /\ ~pull.repin /\ Pinned(k) # None /\ edits' = edits /\ local'[k] # local[k] => local'[k] = Pinned(k)]_pullVars` |

## 6. The plan

Done: `VersionStore`, `Workspace`, `ObjectStore`, `StoreDrivers` and
their proofs; `WorkspaceFiles`; `Publish` and `DatasetPull`;
`FileState` and its proofs; `OsfSync`; `Manifest`, `ManifestCommands` and
`Migrate`; `ArchiveCalls`.

Proofs done: `Workspace`, `WorkspaceFiles`, `StoreDrivers`, `Publish` with
`DatasetPull`, `FileState`, `OsfSync`, `ArchiveCalls`, and `ManifestCommands`
with `Migrate`.

Next, in order:

1. `StillLoads` for the commands that fold nothing: sync, push, publish and the
   pull of a dataset (that `Reconcile` and `Published` preserve `Loads`). That
   no file is left behind, the half of `NothingLeftBehind` about files.
2. wiki push, mv, rm and get beside sync.

Not modelled, and why: prompts, configuration, output, metadata exports
and the site generator transform one input to one output with no other actor;
project and file management commands are one call to OSF each. Explicit
transfers of a directory are the step of one file repeated, and a listing of
several pages is taken as one reply.
