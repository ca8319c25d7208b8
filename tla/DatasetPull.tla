----------------------------- MODULE DatasetPull -----------------------------
(***************************************************************************)
(* `datapin pull <dataset>` (cmd/dataset_pull.go) beside `datapin publish`:*)
(* the two commands one user runs in turn share the pins, the local files  *)
(* and the archive, and a collaborator publishes to the same record.  A    *)
(* pinned pull delivers the pinned version; --latest moves to the newest   *)
(* version and re-pins.  Every archive call and every file is one step;    *)
(* the manifest is saved once, at the end.                                 *)
(***************************************************************************)
EXTENDS Publish

CONSTANTS
    MaxPulls,    \* bound on pulls started
    Latests      \* the values of --latest the user runs pull with

ASSUME PullAssumption == MaxPulls \in Nat /\ Latests \subseteq BOOLEAN

VARIABLES
    pull,        \* the pull run and its locals
    pulls        \* pulls started

pullVars == <<vars, pull, pulls>>

PullRun == [pc : {"idle", "resolve", "list", "fetch", "record", "save"},
             target : Nat,        \* the version whose files are fetched
            repin : BOOLEAN,     \* whether the manifest moves to it
            seen : Files,        \* its files
            bare : SUBSET Keys,  \* keys that its listing has no usable checksum of
            todo : SUBSET Keys,  \* tracked files still to treat
            pin : [index : Nat, version : Nat, sums : Files]] \* the pins in memory

NoPull == [pc |-> "idle", target |-> 0, repin |-> FALSE, seen |-> NoFiles, bare |-> {},
           todo |-> {}, pin |-> [index |-> 0, version |-> 0, sums |-> NoFiles]]

PullInit == Init /\ pull = NoPull /\ pulls = 0

PullAt(label) == pull.pc = label
PullEnds == pull' = NoPull

-----------------------------------------------------------------------------
(* A dataset never published is refused before anything happens. *)
BeginPull ==
    /\ At("idle") /\ PullAt("idle") /\ pin.record # 0
    /\ pulls < MaxPulls /\ pulls' = pulls + 1
    /\ \E latest \in Latests :
          pull' = [NoPull EXCEPT !.pc = IF latest THEN "resolve" ELSE "list",
                                 !.target = pin.index,
                                 !.pin = [index |-> pin.index, version |-> pin.version,
                                          sums |-> pin.sums]]
    /\ UNCHANGED vars

(* --latest: GetRecord names the version to move to. *)
PullResolve ==
    /\ PullAt("resolve")
    /\ LET n == Len(versions[pin.record]) IN
       pull' = [pull EXCEPT !.pc = "list", !.target = n, !.repin = (n # pull.target)]
    /\ UNCHANGED <<vars, pulls>>

(* Keys that went to InvenioRDM in parts: until it has computed their MD5, *)
(* no listing and no download names one.                                   *)
InParts == IF Kind = "invenio" THEN Unverified ELSE {}

(* ListFiles.  A version that does not exist cannot be listed. *)
PullList ==
    /\ PullAt("list")
    /\ IF pull.target \in 1..Len(versions[pin.record])
       THEN \E bare \in SUBSET InParts :
               pull' = [pull EXCEPT !.pc = "fetch", !.todo = Held(local), !.bare = bare,
                                    !.seen = versions[pin.record][pull.target]]
       ELSE PullEnds
    /\ UNCHANGED <<vars, pulls>>

NextFile(k) == PullAt("fetch") /\ FirstOf(k, pull.todo)
Pinned(k) == pull.pin.sums[k]
Listed(k) == pull.seen[k] # None /\ k \notin pull.bare
Contradicted(k) ==
    ~pull.repin /\ Listed(k) /\ Pinned(k) # None /\ pull.seen[k] # Pinned(k)

(* A tracked key the version does not have: the loop goes on to the next. *)
PullSkipsAbsent ==
    /\ \E k \in pull.todo :
          /\ NextFile(k) /\ pull.seen[k] = None
          /\ pull' = [pull EXCEPT !.todo = @ \ {k}]
    /\ UNCHANGED <<vars, pulls>>

(* The listing contradicts the pin: the pull fails; the files before this  *)
(* one are already in place, the manifest stays as it was.  The digest     *)
(* InvenioRDM lists for the parts of an upload contradicts every pin.      *)
PullRefuses ==
    /\ \E k \in pull.todo :
          /\ NextFile(k)
          /\ Contradicted(k) \/ (k \in pull.bare /\ ~pull.repin /\ Pinned(k) # None)
    /\ PullEnds
    /\ UNCHANGED <<vars, pulls>>

(* The local file is the version's already. *)
PullKeeps ==
    /\ \E k \in pull.todo :
          /\ NextFile(k) /\ Listed(k) /\ ~Contradicted(k)
          /\ local[k] = pull.seen[k]
          /\ pull' = [pull EXCEPT !.todo = @ \ {k},
                                  !.pin.sums[k] = IF pull.repin THEN pull.seen[k] ELSE @]
    /\ UNCHANGED <<vars, pulls>>

(* DownloadFile compares the bytes with the checksum sent along with them, *)
(* if there is one; nothing compares them with the listing or the pin.     *)
Delivered(k, bytes) ==
    \/ bytes = pull.seen[k] /\ UNCHANGED counters
    \/ k \in InParts /\ bytes \in Contents /\ Fault

(* Any other local file is replaced in one rename, and pinned by what the  *)
(* listing says of it, which may be nothing.                               *)
PullDownloads ==
    /\ \E k \in pull.todo, bytes \in Contents :
          /\ NextFile(k) /\ pull.seen[k] # None /\ ~Contradicted(k)
          /\ Listed(k) => local[k] # pull.seen[k]
          /\ Delivered(k, bytes)
          /\ local' = [local EXCEPT ![k] = bytes]
          /\ pull' = [pull EXCEPT !.todo = @ \ {k},
                                  !.pin.sums[k] = IF Listed(k) THEN pull.seen[k] ELSE None]
    /\ UNCHANGED <<archive, pin, wish, run, kept, history, pulls>>

PullFetched ==
    /\ PullAt("fetch") /\ pull.todo = {}
    /\ pull' = [pull EXCEPT !.pc = IF pull.repin THEN "record" ELSE "save"]
    /\ UNCHANGED <<vars, pulls>>

(* --latest: a second GetRecord supplies the version's number and id... *)
PullRecordCountsVersions ==
    /\ PullAt("record")
    /\ pull' = [pull EXCEPT !.pc = "save", !.pin.index = pull.target,
                            !.pin.version = Len(versions[pin.record])]
    /\ UNCHANGED <<vars, pulls>>
PullRecord ==
    /\ PullAt("record")
    /\ pull' = [pull EXCEPT !.pc = "save", !.pin.index = pull.target,
                            !.pin.version = pull.target]
    /\ UNCHANGED <<vars, pulls>>

(* ...and when it fails, the checksums are saved without them. *)
PullRecordFails ==
    /\ PullAt("record") /\ Fault
    /\ pull' = [pull EXCEPT !.pc = "save"]
    /\ UNCHANGED <<archive, user, run, kept, history, pulls>>

PullSave ==
    /\ PullAt("save")
    /\ pin' = [pin EXCEPT !.index = pull.pin.index, !.version = pull.pin.version,
                          !.sums = pull.pin.sums]
    /\ PullEnds
    /\ UNCHANGED <<archive, local, wish, run, kept, history, counters, pulls>>

(* An archive call fails: what was renamed into place stays there. *)
PullFails ==
    /\ PullAt("resolve") \/ PullAt("list") \/ (PullAt("fetch") /\ pull.todo # {})
    /\ Fault
    /\ PullEnds
    /\ UNCHANGED <<archive, user, run, kept, history, pulls>>

PullCrash ==
    /\ ~PullAt("idle")
    /\ Trouble /\ crashes < MaxCrashes /\ crashes' = crashes + 1
    /\ PullEnds
    /\ UNCHANGED <<archive, user, run, kept, history, reserves, edits, faults, foreign, pulls>>

PullStep ==
    \/ BeginPull \/ PullResolve \/ PullList
    \/ PullSkipsAbsent \/ PullRefuses \/ PullKeeps \/ PullDownloads \/ PullFetched
    \/ PullRecord \/ PullRecordFails \/ PullSave \/ PullFails \/ PullCrash

(* One command at a time; files change and versions appear at any moment,  *)
(* but the list of tracked files stays while a pull runs.                  *)
Turn == PullAt("idle") /\ (Begin \/ Rerun \/ Step \/ Failure)
Around ==
    \/ Rest \/ DataverseRelease \/ ForeignPublish
    \/ Edit /\ (PullAt("idle") \/ Held(local') = Held(local))

PullNext ==
    \/ PullStep
    \/ (Turn \/ Around) /\ UNCHANGED <<pull, pulls>>

PullSpec == PullInit /\ [][PullNext]_pullVars

-----------------------------------------------------------------------------
(* datasetStatus and datasetState: what `datapin status` says of a         *)
(* published dataset with all its files present.                           *)
LocalChanged == \E k \in Held(local) : local[k] # pin.sums[k]
RemoteNewer == Len(versions[pin.record]) > pin.version

DatasetState ==
    IF pin.record = 0 THEN "NOT_PUBLISHED"
    ELSE CASE LocalChanged /\ RemoteNewer   -> "DIVERGED"
           [] LocalChanged /\ ~RemoteNewer  -> "AHEAD"
           [] RemoteNewer /\ ~LocalChanged  -> "REMOTE_NEWER"
           [] OTHER                         -> "IN_SYNC"

-----------------------------------------------------------------------------
(***************************************************************************)
(* Properties.                                                             *)
(***************************************************************************)

(* Publish's ranges, and those of a pull: it has a version to deliver.     *)
PullTypeOK ==
    /\ TypeOK
    /\ pull \in PullRun /\ pulls \in 0..MaxPulls
    /\ ~PullAt("idle") => At("idle") /\ pin.record # 0

(* The pins after any mix of publishes and pulls name published bytes: a   *)
(* pinned file carries its checksum in the pinned version or is missing    *)
(* there.  After a failing call they may be those of one later version:    *)
(* a pull to it whose second GetRecord failed saves its checksums under    *)
(* the number of the version before (dataset_pull.go:132-145).  Keys whose *)
(* unverified upload once sent other bytes than hashed are pinned wrongly. *)
PinsServed ==
    pin.record # 0 /\ Kind = "invenio" =>
        \E v \in pin.index..(IF faults = 0 THEN pin.index ELSE Len(versions[pin.record])) :
            \A k \in Held(pin.sums) \ swapped :
                \/ versions[pin.record][v][k] \in {None, pin.sums[k]}
                \/ versions[pin.record][pin.index][k] = pin.sums[k]

(* `datapin status` says IN_SYNC only of files that the latest version has *)
(* with the same content, or does not have at all, whichever calls failed; *)
(* a file published by an unverified upload is an exception, as above.     *)
InSyncIsPublished ==
    DatasetState = "IN_SYNC" /\ Kind = "invenio" =>
        \A k \in Held(local) \ swapped : Latest(pin.record)[k] \in {None, local[k]}
=============================================================================
