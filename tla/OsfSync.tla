------------------------------- MODULE OsfSync -------------------------------
(***************************************************************************)
(* `datapin sync`, bare `push` and `pull`, and the explicit `push` and     *)
(* `pull` of one path, against an OSF project: tracked files and wiki      *)
(* pages, each with a local copy, a version history on OSF and a pin in    *)
(* the manifest.                                                           *)
(*                                                                         *)
(* A run is two passes: it classifies every entry, then it performs the    *)
(* chosen actions one after another and saves the manifest at the very     *)
(* end.  Between any two steps the process may die, a call may fail, the   *)
(* user may edit a file and a collaborator may upload.                     *)
(*                                                                         *)
(* The files share one directory, which the caching lister lists once per  *)
(* run; so do the wiki pages of the project.  Wiki contents are compared   *)
(* in their canonical form, so a content stands for all that share one.    *)
(***************************************************************************)
EXTENDS FileState, Sequences

CONSTANTS
    Files, Wikis,     \* tracked entries, numbers in manifest order
    Contents,         \* contents of files and pages
    Partial,          \* what a download that died half way leaves on disk
    Commands,         \* subset of {"sync", "push", "pull", "put", "get"}
    Forces, Resolves, \* values of --force and of --resolve ("", "ours", "theirs")
    Blinds,           \* values of --no-check-remote
    Conflicts,        \* explicit push: --conflict, or "elsewhere" for another path
    MaxVersions,      \* bound on versions of one entry on OSF
    MaxEdits, MaxForeign, MaxDeletes, MaxCrashes, MaxFaults, MaxUnreadable,
    MaxTroubles,      \* bound on crashes, failed calls and unreadable replies together
    EditsOverlap,     \* whether the user edits files while a run is on its way
    ForeignOverlap    \* whether a collaborator uploads while a run is on its way

ASSUME EntriesAssumption == Files \subseteq Nat /\ Wikis \subseteq Nat /\ Files \cap Wikis = {}
ASSUME OrderAssumption == \A f \in Files, w \in Wikis : f < w
ASSUME ContentsAssumption == None \notin Contents /\ Partial \notin Contents \union {None}
Bulk == {"sync", "push", "pull"}
Resolutions == {"", "ours", "theirs"}
Answers == {"", "skip", "overwrite", "rename", "elsewhere"}

ASSUME FlagsAssumption ==
    /\ Commands \subseteq Bulk \union {"put", "get"}
    /\ Forces \subseteq BOOLEAN /\ Blinds \subseteq BOOLEAN
    /\ Resolves \subseteq Resolutions /\ Conflicts \subseteq Answers \ {""}

VARIABLES
    local,    \* local[e]: the file on disk, or None
    remote,   \* remote[e]: its versions on OSF, oldest first; empty when absent
    pins,     \* pins[e]: version and md5 in the saved manifest
    run,      \* the running command and its locals
    asked,    \* the user ran sync and was not yet told how it stands
    edits, foreign, deletes, crashes, faults, unreadable

counters == <<edits, foreign, deletes, crashes, faults, unreadable>>
vars == <<local, remote, pins, run, asked, counters>>

Entries == Files \union Wikis
Bytes == Contents \union {Partial}
Sums == Bytes \union {None}
Pin == [version : Nat, md5 : Sums]

Labels == {"idle", "scan", "exec", "receive", "put", "get", "getting", "track"}

Run == [pc : Labels,
        cmd : Bulk \union {"none", "put", "get"},
        force : BOOLEAN, resolve : Resolutions, blind : BOOLEAN,
        conflict : Answers,
        todo : SUBSET Entries,
        listed : SUBSET {"file", "wiki"},  \* listings in the cache
        listing : [Entries -> Pin],        \* latest version as listed; 0 for absent
        sum : [Entries -> Sums],           \* localMD5 as scanned
        state : [Entries -> States],       \* as classified
        latest : [Entries -> Pin],         \* of remoteVersions, as scanned
        mem : [Entries -> Pin],            \* the manifest in memory
        bytes : Sums]                      \* what a download is delivering

Idle == [pc |-> "idle", cmd |-> "none", force |-> FALSE, resolve |-> "", blind |-> FALSE,
         conflict |-> "", todo |-> {}, listed |-> {},
         listing |-> [e \in Entries |-> NoVersion],
         sum |-> [e \in Entries |-> None],
         state |-> [e \in Entries |-> "NOT_PUSHED"],
         latest |-> [e \in Entries |-> NoVersion],
         mem |-> [e \in Entries |-> NoVersion],
         bytes |-> None]

Versions(h) == {[version |-> i, md5 |-> h[i]] : i \in DOMAIN h}
Tip(h) == IF h = <<>> THEN NoVersion ELSE [version |-> Len(h), md5 |-> h[Len(h)]]
Held(h) == {h[i] : i \in DOMAIN h}

At(label) == run.pc = label
Quit == run' = Idle
FirstOf(e, S) == e \in S /\ \A d \in S : e <= d

Trouble == crashes + faults + unreadable < MaxTroubles
Unread == Trouble /\ unreadable < MaxUnreadable /\ unreadable' = unreadable + 1
             /\ UNCHANGED <<edits, foreign, deletes, crashes, faults>>
Fault == Trouble /\ faults < MaxFaults /\ faults' = faults + 1
            /\ UNCHANGED <<edits, foreign, deletes, crashes, unreadable>>

-----------------------------------------------------------------------------
Init ==
    /\ local \in [Entries -> Contents \union {None}]
    /\ remote \in [Entries -> {<<>>} \union {<<c>> : c \in Contents}]
    /\ pins = [e \in Entries |-> NoVersion]
    /\ run = Idle
    /\ asked = FALSE
    /\ edits = 0 /\ foreign = 0 /\ deletes = 0 /\ crashes = 0 /\ faults = 0 /\ unreadable = 0

Scope(cmd) == IF cmd = "sync" THEN Entries ELSE Files

Room == \A e \in Entries : Len(remote[e]) < MaxVersions

(* sync, bare push, bare pull: load the manifest and start the scan. *)
Start(cmd) ==
    /\ At("idle")
    /\ \E force \in Forces, resolve \in Resolves, blind \in Blinds :
          run' = [Idle EXCEPT !.pc = "scan", !.cmd = cmd, !.force = force,
                              !.resolve = resolve, !.blind = blind /\ cmd # "pull",
                              !.todo = Scope(cmd), !.mem = pins]
    /\ UNCHANGED <<local, remote, pins, counters>>

Begin ==
    /\ ~asked /\ Room
    /\ \E cmd \in Commands \cap Bulk :
          Start(cmd) /\ asked' = (cmd = "sync")

(* A user whose sync failed runs it again. *)
Rerun == asked /\ Start("sync") /\ UNCHANGED asked

-----------------------------------------------------------------------------
(* Pass 1: scanEntries, then scanWikiEntries.                              *)

Listed(kind, S) ==
    run' = [run EXCEPT !.listed = @ \union {kind},
                       !.listing = [e \in Entries |-> IF e \in S THEN Tip(remote[e]) ELSE @[e]]]

Plan(e) == Decision(run.cmd, run.state[e], run.sum[e] # None, run.force, run.resolve)
Now(e) == At("exec") /\ FirstOf(e, run.todo)
Transfers == {"push", "pull", "restore"}

(* The directory is listed at the first resolution of the run. *)
ListFiles ==
    /\ "file" \notin run.listed
    /\ \/ At("scan") /\ ~run.blind /\ run.todo \cap Files # {}
       \/ \E e \in Files : Now(e) /\ Plan(e) \in Transfers
    /\ Listed("file", Files)
    /\ UNCHANGED <<local, remote, pins, asked, counters>>

ListWikis ==
    /\ "wiki" \notin run.listed
    /\ At("scan") /\ ~run.blind /\ run.todo \cap Files = {} /\ run.todo # {}
    /\ Listed("wiki", Wikis)
    /\ UNCHANGED <<local, remote, pins, asked, counters>>

Classified(e, state, latest) ==
    run' = [run EXCEPT !.todo = @ \ {e}, !.sum[e] = local[e],
                       !.state[e] = state, !.latest[e] = latest]

(* fetchRemoteState: the listing when it settles the state, else the whole *)
(* history as it is by now.                                                *)
FetchedVersions(e) ==
    CASE run.listing[e].version = 0 -> {}
      [] CanSkip(run.mem[e], local[e], run.listing[e]) -> {run.listing[e]}
      [] OTHER -> Versions(remote[e])

ScanFile(e) ==
    /\ At("scan") /\ ~run.blind /\ "file" \in run.listed
    /\ e \in run.todo \cap Files
    /\ Classified(e, Classify(run.mem[e], local[e], FetchedVersions(e)),
                     Latest(FetchedVersions(e)))
    /\ UNCHANGED <<local, remote, pins, asked, counters>>

(* --no-check-remote. *)
ScanBlind(e) ==
    /\ At("scan") /\ run.blind /\ e \in run.todo
    /\ e \in Wikis => run.todo \cap Files = {}
    /\ Classified(e, ClassifyBlind(run.mem[e], local[e]), NoVersion)
    /\ UNCHANGED <<local, remote, pins, asked, counters>>

(* fetchWikiRemoteState: the number comes from the page listing, the       *)
(* content is fetched after it.                                            *)
WikiLatest(e) ==
    [version |-> run.listing[e].version, md5 |-> remote[e][Len(remote[e])]]
WikiVersions(e) ==
    CASE run.listing[e].version = 0 -> {}
      [] CanSkip(run.mem[e], local[e], WikiLatest(e)) -> {WikiLatest(e)}
      [] OTHER -> {v \in Versions(remote[e]) : v.version # run.listing[e].version}
                     \union {WikiLatest(e)}

ScanWiki(e) ==
    /\ At("scan") /\ ~run.blind /\ "wiki" \in run.listed
    /\ FirstOf(e, run.todo) /\ e \in Wikis
    /\ Classified(e, Classify(run.mem[e], local[e], WikiVersions(e)),
                     Latest(WikiVersions(e)))
    /\ UNCHANGED <<local, remote, pins, asked, counters>>

(* Its history cannot be read: the latest version has to do. *)
ScanWikiFault(e) ==
    /\ At("scan") /\ ~run.blind /\ "wiki" \in run.listed
    /\ FirstOf(e, run.todo) /\ e \in Wikis /\ run.listing[e].version > 0
    /\ ~CanSkip(run.mem[e], local[e], WikiLatest(e))
    /\ Fault
    /\ Classified(e, Classify(run.mem[e], local[e], {WikiLatest(e)}), WikiLatest(e))
    /\ UNCHANGED <<local, remote, pins, asked>>

(* Anything but a clean answer ends the run before anything moved. *)
ScanFails ==
    /\ At("scan") /\ ~run.blind /\ run.todo # {}
    /\ Fault
    /\ Quit
    /\ UNCHANGED <<local, remote, pins, asked>>

(* Pre-flight: a diverged entry without --resolve refuses the whole run. *)
Blocked ==
    /\ At("scan") /\ run.todo = {}
    /\ \E e \in Scope(run.cmd) : Plan(e) = "blocked"
    /\ Quit /\ asked' = FALSE
    /\ UNCHANGED <<local, remote, pins, counters>>

(* The user of a push looks at the plan and declines. *)
Declined ==
    /\ At("scan") /\ run.todo = {} /\ run.cmd = "push" /\ ~run.force
    /\ \E e \in Files : Plan(e) = "push"
    /\ Quit
    /\ UNCHANGED <<local, remote, pins, asked, counters>>

Proceed ==
    /\ At("scan") /\ run.todo = {}
    /\ \A e \in Scope(run.cmd) : Plan(e) # "blocked"
    /\ run' = [run EXCEPT !.pc = "exec", !.todo = {e \in Scope(run.cmd) : Plan(e) # "none"}]
    /\ UNCHANGED <<local, remote, pins, asked, counters>>

-----------------------------------------------------------------------------
(* Pass 2: executeEntry, executeWikiEntry.                                 *)

Done(e, pin) == run' = [run EXCEPT !.pc = "exec", !.todo = @ \ {e}, !.mem[e] = pin]

ExecPin(e) ==
    /\ Now(e) /\ Plan(e) = "pin"
    /\ Done(e, run.latest[e])
    /\ UNCHANGED <<local, remote, pins, asked, counters>>

ExecReport(e) ==
    /\ Now(e) /\ Plan(e) = "report"
    /\ Done(e, run.mem[e])
    /\ UNCHANGED <<local, remote, pins, asked, counters>>

(* pushFile: a new version of a listed file, a creation of another.  The   *)
(* server refuses to create what exists and to update what is gone.        *)
PushingFile(e) == Now(e) /\ Plan(e) = "push" /\ e \in Files /\ "file" \in run.listed
Creatable(e) == run.listing[e].version = 0 /\ remote[e] = <<>>
Updatable(e) == run.listing[e].version > 0 /\ remote[e] # <<>>
Accepts(e) == Creatable(e) \/ Updatable(e)

Grown(e, content) == [remote EXCEPT ![e] = Append(@, content)]
Uploaded(e) == remote' = Grown(e, local[e])

PushFileGuess(e) ==
    /\ PushingFile(e) /\ Accepts(e) /\ local[e] # None
    /\ Uploaded(e)
    /\ Done(e, [version |-> run.mem[e].version + 1, md5 |-> local[e]])
    /\ UNCHANGED <<local, pins, asked, counters>>
PushFile(e) ==
    /\ PushingFile(e) /\ Accepts(e) /\ local[e] # None
    /\ Uploaded(e)
    /\ Done(e, [version |-> Len(remote[e]) + 1, md5 |-> local[e]])
    /\ UNCHANGED <<local, pins, asked, counters>>

(* The reply to the upload cannot be read: the version is guessed. *)
PushFileUnreadable(e) ==
    /\ PushingFile(e) /\ Accepts(e) /\ local[e] # None
    /\ Unread
    /\ Uploaded(e)
    /\ Done(e, [version |-> run.mem[e].version + 1, md5 |-> None])
    /\ UNCHANGED <<local, pins, asked>>

(* pushWikiFile pins the checksum the scan took of the local file. *)
PushingWiki(e) == Now(e) /\ Plan(e) = "push" /\ e \in Wikis

PushWikiGuess(e) ==
    /\ PushingWiki(e) /\ Accepts(e) /\ local[e] # None
    /\ Uploaded(e)
    /\ Done(e, [version |-> run.mem[e].version + 1, md5 |-> run.sum[e]])
    /\ UNCHANGED <<local, pins, asked, counters>>
PushWiki(e) ==
    /\ PushingWiki(e) /\ Accepts(e) /\ local[e] # None
    /\ Uploaded(e)
    /\ Done(e, [version |-> Len(remote[e]) + 1, md5 |-> run.sum[e]])
    /\ UNCHANGED <<local, pins, asked, counters>>

(* The reply to a new version of a page carries no number: it is guessed,  *)
(* and pinned with the checksum of the page.  A new page is version 1.     *)
PushWikiUnreadable(e) ==
    /\ PushingWiki(e) /\ Updatable(e) /\ local[e] # None
    /\ Unread
    /\ Uploaded(e)
    /\ Done(e, [version |-> run.mem[e].version + 1, md5 |-> run.sum[e]])
    /\ UNCHANGED <<local, pins, asked>>

PushRefused(e) ==
    /\ PushingFile(e) \/ PushingWiki(e)
    /\ ~Accepts(e) \/ local[e] = None
    /\ Quit
    /\ UNCHANGED <<local, remote, pins, asked, counters>>

(* The call fails; the server may have taken the upload all the same. *)
PushFails(e) ==
    /\ PushingFile(e) \/ PushingWiki(e)
    /\ Fault
    /\ Quit
    /\ remote' = remote \/ (Accepts(e) /\ local[e] # None /\ Uploaded(e))
    /\ UNCHANGED <<local, pins, asked>>

(* downloadAndPin, downloadWikiVersion. *)
Pulling(e) ==
    /\ Now(e) /\ Plan(e) \in {"pull", "restore"}
    /\ e \in Files => "file" \in run.listed

SkipAborts(e) ==
    /\ Pulling(e) /\ run.listing[e].version = 0
    /\ Quit
    /\ UNCHANGED <<local, remote, pins, asked, counters>>
SkipUnresolved(e) ==
    /\ Pulling(e) /\ run.listing[e].version = 0
    /\ Done(e, run.mem[e])
    /\ UNCHANGED <<local, remote, pins, asked, counters>>

(* So it is too when, after a blind scan, the listing itself fails; a push *)
(* goes on as for a new file, which the server takes if it is one.         *)
ListFails ==
    \E e \in Files :
       /\ Now(e) /\ Plan(e) \in Transfers /\ "file" \notin run.listed
       /\ Fault
       /\ \/ Plan(e) # "push" /\ Done(e, run.mem[e]) /\ UNCHANGED remote
          \/ Plan(e) = "push" /\ Quit /\ UNCHANGED remote
          \/ /\ Plan(e) = "push" /\ remote[e] = <<>> /\ local[e] # None
             /\ Uploaded(e) /\ Done(e, [version |-> 1, md5 |-> local[e]])
       /\ UNCHANGED <<local, pins, asked>>

ToLatest(e) == Plan(e) = "pull" \/ run.mem[e].version = 0
Revision(e) == IF ToLatest(e) THEN Len(remote[e]) ELSE run.mem[e].version
Served(e) == run.listing[e].version > 0 /\ Revision(e) \in DOMAIN remote[e]

(* os.Create truncates the file once the answer has begun. *)
StartDownload(e) ==
    /\ Pulling(e) /\ e \in Files /\ Served(e)
    /\ local' = [local EXCEPT ![e] = Partial]
    /\ run' = [run EXCEPT !.pc = "receive", !.bytes = remote[e][Revision(e)],
                          !.latest[e] = IF @ = NoVersion THEN Tip(remote[e]) ELSE @]
    /\ UNCHANGED <<remote, pins, asked, counters>>

(* After a blind scan the versions are asked for only now; a failing       *)
(* answer leaves none, and version 0 is what a pull then pins.             *)
StartDownloadUnlisted(e) ==
    /\ Pulling(e) /\ e \in Files /\ Served(e) /\ run.latest[e] = NoVersion
    /\ Fault
    /\ local' = [local EXCEPT ![e] = Partial]
    /\ run' = [run EXCEPT !.pc = "receive", !.bytes = remote[e][Revision(e)]]
    /\ UNCHANGED <<remote, pins, asked>>

NotServed(e) ==
    /\ Pulling(e) /\ run.listing[e].version > 0 /\ ~Served(e)
    /\ Quit
    /\ UNCHANGED <<local, remote, pins, asked, counters>>

LatestPin(e, bytes) ==
    IF run.latest[e].md5 = None THEN [run.latest[e] EXCEPT !.md5 = bytes] ELSE run.latest[e]
Verified(e, bytes) == ToLatest(e) \/ run.mem[e].md5 \in {None, bytes}

(* The bytes are here.  A pull pins what the scan called latest; a restore *)
(* that does not match the pin is taken off the disk again.                *)
Arrive(e, bytes) ==
    /\ local' = [local EXCEPT ![e] = IF Verified(e, bytes) THEN bytes ELSE None]
    /\ IF Verified(e, bytes)
       THEN Done(e, IF ToLatest(e) THEN LatestPin(e, bytes) ELSE run.mem[e])
       ELSE Quit
    /\ UNCHANGED <<remote, pins, asked, counters>>

ArriveKeepsPin(e, bytes) ==
    /\ local' = [local EXCEPT ![e] = bytes]
    /\ Done(e, run.mem[e])
    /\ UNCHANGED <<remote, pins, asked, counters>>

ReceiveKeepsPin ==
    \E e \in Files : At("receive") /\ FirstOf(e, run.todo) /\ ArriveKeepsPin(e, run.bytes)
Receive ==
    \E e \in Files : At("receive") /\ FirstOf(e, run.todo) /\ Arrive(e, run.bytes)

(* A failed transfer removes the truncated file. *)
ReceiveFailsLeaves ==
    /\ At("receive") /\ Fault
    /\ Quit
    /\ UNCHANGED <<local, remote, pins, asked>>
ReceiveFails ==
    /\ At("receive") /\ Fault
    /\ \E e \in Files : FirstOf(e, run.todo) /\ local' = [local EXCEPT ![e] = None]
    /\ Quit
    /\ UNCHANGED <<remote, pins, asked>>

(* A wiki page is fetched whole and renamed into place. *)
PullWiki(e) ==
    /\ Pulling(e) /\ e \in Wikis /\ Served(e)
    /\ Arrive(e, remote[e][Revision(e)])

(* Everything done: save the manifest. *)
Save ==
    /\ At("exec") /\ run.todo = {}
    /\ pins' = run.mem
    /\ asked' = FALSE
    /\ Quit
    /\ UNCHANGED <<local, remote, counters>>

-----------------------------------------------------------------------------
(* Explicit push of one file: pushSession.file.                            *)

PutList(e, conflict) ==
    /\ At("idle") /\ ~asked /\ Room /\ local[e] # None
    /\ run' = [Idle EXCEPT !.pc = "put", !.cmd = "put", !.conflict = conflict,
                           !.todo = {e}, !.mem = pins, !.listing[e] = Tip(remote[e])]
    /\ UNCHANGED <<local, remote, pins, asked, counters>>

Putting(e) == At("put") /\ e \in run.todo
Exists(e) == run.listing[e].version > 0

PutSkip(e) ==
    /\ Putting(e) /\ Exists(e)
    /\ \/ run.conflict = "skip"
       \/ run.conflict = "overwrite" /\ local[e] = run.listing[e].md5
    /\ Quit
    /\ UNCHANGED <<local, remote, pins, asked, counters>>

PutUpload(e) ==
    /\ Putting(e) /\ Accepts(e) /\ local[e] # None
    /\ run.conflict # "elsewhere"
    /\ Exists(e) => run.conflict = "overwrite" /\ local[e] # run.listing[e].md5
    /\ Uploaded(e)
    /\ Done(e, [version |-> Len(remote[e]) + 1, md5 |-> local[e]])
    /\ UNCHANGED <<local, pins, asked, counters>>

(* A reply that cannot be read tracks nothing. *)
PutUnreadable(e) ==
    /\ Putting(e) /\ Accepts(e) /\ local[e] # None
    /\ run.conflict # "elsewhere"
    /\ Exists(e) => run.conflict = "overwrite" /\ local[e] # run.listing[e].md5
    /\ Unread
    /\ Uploaded(e)
    /\ Done(e, run.mem[e])
    /\ UNCHANGED <<local, pins, asked>>

(* Under another name, or to another path: a file of its own, at version 1. *)
(* findEntryByLocal still finds the entry that tracks the local file.       *)
PutElsewhere(e) ==
    /\ Putting(e) /\ local[e] # None
    /\ run.conflict = "elsewhere" \/ (run.conflict = "rename" /\ Exists(e))
    /\ Done(e, [version |-> 1, md5 |-> local[e]])
    /\ UNCHANGED <<local, remote, pins, asked, counters>>

PutFails(e) ==
    /\ Putting(e)
    /\ \/ Fault
       \/ (~Accepts(e) \/ local[e] = None) /\ UNCHANGED counters
    /\ Quit
    /\ UNCHANGED <<local, remote, pins, asked>>

-----------------------------------------------------------------------------
(* Explicit pull of one file: pullSession.file, pinFor.                    *)

GetList(e) ==
    /\ At("idle") /\ ~asked /\ remote[e] # <<>>
    /\ run' = [Idle EXCEPT !.pc = "get", !.cmd = "get", !.todo = {e}, !.mem = pins,
                           !.listing[e] = Tip(remote[e])]
    /\ UNCHANGED <<local, remote, pins, asked, counters>>

(* Identical already, or --track-only: nothing to download. *)
GetNothing(e) ==
    /\ At("get") /\ e \in run.todo
    /\ run' = [run EXCEPT !.pc = "track"]
    /\ UNCHANGED <<local, remote, pins, asked, counters>>

GetStart(e) ==
    /\ At("get") /\ e \in run.todo
    /\ local[e] # run.listing[e].md5 /\ remote[e] # <<>>
    /\ local' = [local EXCEPT ![e] = Partial]
    /\ run' = [run EXCEPT !.pc = "getting", !.bytes = Tip(remote[e]).md5]
    /\ UNCHANGED <<remote, pins, asked, counters>>

GetReceive(e) ==
    /\ At("getting") /\ e \in run.todo
    /\ \/ /\ local' = [local EXCEPT ![e] = run.bytes]
          /\ run' = [run EXCEPT !.pc = "track"]
          /\ UNCHANGED counters
       \/ /\ Fault /\ Quit
          /\ local' = [local EXCEPT ![e] = None]
    /\ UNCHANGED <<remote, pins, asked>>

(* The version pinned is the latest by now. *)
Track(e) ==
    /\ At("track") /\ e \in run.todo
    /\ Done(e, Tip(remote[e]))
    /\ UNCHANGED <<local, remote, pins, asked, counters>>

(* The versions cannot be had: the entry is tracked at version 0, with the *)
(* checksum of the local file or, under --track-only, with none.           *)
TrackUnlisted(e) ==
    /\ At("track") /\ e \in run.todo
    /\ Fault
    /\ \E sum \in {local[e], None} : Done(e, [version |-> 0, md5 |-> sum])
    /\ UNCHANGED <<local, remote, pins, asked>>

-----------------------------------------------------------------------------
(* What happens around the run.                                            *)

(* Killed: unlike Ctrl-C, which cancels the transfer as a failure does. *)
Crash ==
    /\ ~At("idle")
    /\ Trouble /\ crashes < MaxCrashes /\ crashes' = crashes + 1
    /\ Quit
    /\ UNCHANGED <<local, remote, pins, asked, edits, foreign, deletes, faults, unreadable>>

Edit ==
    /\ edits < MaxEdits /\ edits' = edits + 1
    /\ EditsOverlap \/ At("idle")
    /\ \E e \in Entries, c \in Contents \union {None} :
          c # local[e] /\ local' = [local EXCEPT ![e] = c]
    /\ UNCHANGED <<remote, pins, run, asked, foreign, deletes, crashes, faults, unreadable>>

ForeignUpload ==
    /\ foreign < MaxForeign /\ foreign' = foreign + 1
    /\ ForeignOverlap \/ At("idle")
    /\ \E e \in Entries, c \in Contents :
          /\ Len(remote[e]) < MaxVersions
          /\ remote' = Grown(e, c)
    /\ UNCHANGED <<local, pins, run, asked, edits, deletes, crashes, faults, unreadable>>

ForeignDelete ==
    /\ deletes < MaxDeletes /\ deletes' = deletes + 1
    /\ At("idle")
    /\ \E e \in Entries : remote[e] # <<>> /\ remote' = [remote EXCEPT ![e] = <<>>]
    /\ UNCHANGED <<local, pins, run, asked, edits, foreign, crashes, faults, unreadable>>

(* The user has been told and does nothing. *)
Rest == At("idle") /\ ~asked /\ UNCHANGED vars

Explicit ==
    \/ "put" \in Commands /\ \E e \in Files, conflict \in Conflicts : PutList(e, conflict)
    \/ "get" \in Commands /\ \E e \in Files : GetList(e)

Step ==
    \/ ListFiles \/ ListWikis \/ Blocked \/ Proceed \/ Receive \/ Save
    \/ \E e \in Entries :
          \/ ScanFile(e) \/ ScanBlind(e) \/ ScanWiki(e)
          \/ ExecPin(e) \/ ExecReport(e)
          \/ PushFile(e) \/ PushWiki(e) \/ PushRefused(e)
          \/ SkipUnresolved(e) \/ StartDownload(e) \/ NotServed(e) \/ PullWiki(e)
          \/ PutSkip(e) \/ PutUpload(e) \/ PutElsewhere(e) \/ PutFails(e)
          \/ GetNothing(e) \/ GetStart(e) \/ GetReceive(e) \/ Track(e)

Failure ==
    \/ ScanFails \/ ListFails \/ ReceiveFails \/ Declined \/ Crash
    \/ \E e \in Entries :
          \/ ScanWikiFault(e) \/ PushFileUnreadable(e) \/ PushWikiUnreadable(e)
          \/ PushFails(e) \/ StartDownloadUnlisted(e) \/ PutUnreadable(e) \/ TrackUnlisted(e)

Next ==
    \/ Begin \/ Rerun \/ Explicit \/ Rest \/ Step \/ Failure
    \/ Edit \/ ForeignUpload \/ ForeignDelete

Spec == Init /\ [][Next]_vars

(* A started run goes on, and a user whose sync failed runs it again. *)
FairSpec == Spec /\ WF_vars(Step) /\ WF_vars(Rerun)

-----------------------------------------------------------------------------
(***************************************************************************)
(* Properties.                                                             *)
(***************************************************************************)

(* Every variable stays in its range, and a run that transfers has the     *)
(* file it transfers still to do.                                          *)
TypeOK ==
    /\ local \in [Entries -> Sums]
    /\ remote \in [Entries -> Seq(Bytes)]
    /\ pins \in [Entries -> Pin]
    /\ run \in Run
    /\ run.pc \in {"put", "get", "getting", "track"} => run.todo \subseteq Files
    /\ run.pc \in {"receive", "getting"} => run.bytes \in Bytes /\ run.todo \cap Files # {}
    /\ asked \in BOOLEAN

(* gate.go:77-80 "writing a file that does not exist destroys nothing",    *)
(* sync.go:237 "nothing local is at risk": what a run overwrites or        *)
(* removes on disk without --force or --resolve=theirs is on OSF or is the *)
(* pinned baseline; work that exists nowhere else survives.                *)
LocalWorkKept ==
    [][\A e \in Entries :
          (/\ local'[e] # local[e] /\ edits' = edits
           /\ ~run.force /\ run.resolve # "theirs" /\ run.cmd # "get")
          => local[e] \in {None, Partial, pins[e].md5} \union Held(remote[e])]_vars

(* gate.go:113-116, README.md:748-751: nothing newer than the pin is        *)
(* buried unless the user forced or resolved it.  An entry with no pin has *)
(* nothing to compare, and sync uploads it only where nothing is.  (Bare   *)
(* push does not ask for those, and --no-check-remote does not look.)      *)
NewerNotBuried ==
    [][\A e \in Entries :
          (/\ remote'[e] # remote[e] /\ foreign' = foreign /\ deletes' = deletes
           /\ ~run.force /\ run.resolve # "ours" /\ run.cmd # "put"
           /\ run.mem[e].version > 0 \/ (run.cmd = "sync" /\ ~run.blind))
          => Len(remote[e]) <= run.mem[e].version]_vars

(* A page whose reply carried no number is pinned at a guess. *)
Guessed(e) == e \in Wikis /\ unreadable > 0

(* README.md:720 a pin is the version and "MD5 of the pinned version":     *)
(* whatever the interleaving, what is saved was true of one version; a     *)
(* guessed number is that version's or an older one's, never one that is   *)
(* not there.  (Numbers start over when a file is deleted and created      *)
(* again.)                                                                 *)
PinTrue ==
    \A e \in Entries : pins[e].version > 0 /\ deletes = 0 =>
        /\ pins[e].version <= Len(remote[e])
        /\ \/ pins[e].md5 \in {None, remote[e][pins[e].version]}
           \/ Guessed(e) /\ pins[e].version < Len(remote[e])

(* README.md:744 an entry found IN_SYNC is the remote's latest version.    *)
InSyncIsSame ==
    \A e \in Entries :
        (At("exec") /\ e \in Scope(run.cmd) /\ ~run.blind /\ run.cmd \in Bulk
            /\ run.state[e] = "IN_SYNC")
        => Tip(remote[e]).md5 = run.sum[e]

(* A sync that ran to its end has settled every entry: classified again it *)
(* is in sync, absent on both sides, or one of those it reported.  Only a  *)
(* reply that could not be read leaves something to the next sync: a       *)
(* checksum to pin, or a page to fetch that it has already.                *)
SyncSettles ==
    At("exec") /\ run.todo = {} /\ run.cmd = "sync" /\ ~run.blind =>
        \A e \in Entries :
            LET state == Classify(run.mem[e], local[e], Versions(remote[e])) IN
            \/ state = "IN_SYNC"
            \/ state = "PIN_ONLY" /\ run.mem[e].md5 = None
            \/ state = "REMOTE_NEWER" /\ Guessed(e) /\ Tip(remote[e]).md5 = local[e]
            \/ local[e] = None /\ remote[e] = <<>>
            \/ Plan(e) = "report"

(* waterbutler.go:110 "Don't leave a truncated file behind": none is ever  *)
(* published.                                                              *)
NoTruncatedVersion == \A e \in Entries : Partial \notin Held(remote[e])

(* sync.go:182 a sync either tells how things stand or can be run again:   *)
(* one that keeps being run after failures and crashes comes to its end.   *)
SyncEnds == asked ~> ~asked
=============================================================================
