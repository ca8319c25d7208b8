------------------------------ MODULE Publish -------------------------------
(***************************************************************************)
(* `datapin publish` (cmd/publish.go): one dataset promoted to a record of *)
(* an archive that keeps published versions for ever.  A run hashes the    *)
(* local files, compares the archive's latest version with the pins, plans *)
(* an action per key, edits a draft, publishes it and saves the new pins.  *)
(* Every archive call is one step; the process may die between any two,    *)
(* calls may fail, the user may edit files while they upload, and a        *)
(* collaborator may publish to the same record.                            *)
(*                                                                         *)
(* The three drivers differ in what a draft is and in how they learn what  *)
(* became of a publish call; the manifest says which one holds the record. *)
(***************************************************************************)
EXTENDS Naturals, Sequences

CONSTANTS
    Kinds,        \* archives the dataset may be bound to
    Keys,         \* file keys, numbers: the plan is executed in their order
    Contents,     \* file contents
    None,         \* no such file
    Pending,      \* a draft file registered but never completed
    NoDraft,      \* the record has no draft
    MaxRecords,   \* bound on records ever created
    MaxVersions,  \* bound: no new wish once a record has this many versions
    MaxReserves,  \* bound on runs with --reserve
    MaxEdits,     \* bound on edits of local files and of the tracked set
    MaxCrashes,   \* bound on crashes of the publishing process
    MaxFaults,    \* bound on archive calls that fail
    MaxTroubles,  \* bound on both together
    MaxForeign,   \* bound on versions published by a collaborator
    Overlap,      \* whether a collaborator may publish while a run is on its way
    Forces,       \* the values of --force the user runs publish with
    Reserves,     \* the values of --reserve the user runs publish with
    Unverified    \* keys InvenioRDM takes in parts and reports no MD5 of

ASSUME KindsAssumption == Kinds \subseteq {"invenio", "figshare", "dataverse"}
ASSUME KeysAssumption == Keys \subseteq Nat
ASSUME FlagsAssumption == Forces \subseteq BOOLEAN /\ Reserves \subseteq BOOLEAN
ASSUME UnverifiedAssumption == Unverified \subseteq Keys
ASSUME MarksAssumption ==
    /\ None \notin Contents /\ Pending \notin Contents \union {None}
    /\ NoDraft \notin [Keys -> Contents \union {None, Pending}]
ASSUME BoundsAssumption ==
    {MaxRecords, MaxVersions, MaxReserves, MaxEdits, MaxCrashes, MaxFaults, MaxTroubles,
     MaxForeign} \subseteq Nat

VARIABLES
    versions,    \* versions[r]: the published file sets of record r, oldest first
    draft,       \* draft[r]: the draft's files, or NoDraft
    finalizing,  \* dataverse: records whose release is under way
    pin,         \* what the manifest says is published
    local,       \* the tracked local files; None for a key not tracked
    run,         \* the publish run and its locals
    wish,        \* the user asked for a publish and was not yet told it is done
    kept,        \* records whose draft a run left behind on purpose or with a warning
    reserved,    \* records whose first DOI was reserved by --reserve
    swapped,     \* keys of which an unverified upload once sent other bytes than hashed
    unheard,     \* records that went live without the run learning of it
    orphans,     \* drafts that a failing call left before the run could discard them
    reserves, edits, crashes, faults, foreign

archive == <<versions, draft, finalizing>>
user == <<pin, local, wish>>
counters == <<reserves, edits, crashes, faults, foreign>>
history == <<reserved, swapped, unheard, orphans>>
vars == <<archive, user, run, kept, history, counters>>

Records == 1..MaxRecords
Files == [Keys -> Contents \union {None}]
DraftFiles == [Keys -> Contents \union {None, Pending}]
NoFiles == [k \in Keys |-> None]

Labels == {"idle", "observe", "open", "import", "clear", "reimport", "apply", "upload",
           "commit", "preflight", "reserve", "publish", "poll", "pin", "discard"}
Run == [pc : Labels,
        force : BOOLEAN, reserve : BOOLEAN,
        sums : Files,       \* localMD5: the local files as hashed at the start
        rec : 0..MaxRecords,
        latest : Nat,       \* latestNum
        seen : Files,       \* the latest version's files
        todo : SUBSET Keys, \* keys the current loop has still to treat
        prior : Nat,        \* versions the record had before the one this run makes
        index : Nat]        \* the version the publish call is said to have made

Idle == [pc |-> "idle", force |-> FALSE, reserve |-> FALSE, sums |-> NoFiles,
         rec |-> 0, latest |-> 0, seen |-> NoFiles, todo |-> {}, prior |-> 0, index |-> 0]

Unpinned(kind) ==
    [remote |-> kind, record |-> 0, index |-> 0, version |-> 0, sums |-> NoFiles]

Kind == pin.remote

(* planDataset: the action of a key, from its local and its remote content. *)
Action(mine, theirs) ==
    CASE mine = theirs                  -> "keep"
      [] mine = None /\ theirs # None   -> "remove"
      [] theirs = None /\ mine # None   -> "upload"
      [] OTHER                          -> "replace"

(* The keys of the plan that are not kept; planHasWork is that there are some. *)
Work(sums, seen) == {k \in Keys : Action(sums[k], seen[k]) # "keep"}

At(label) == run.pc = label
Goto(label) == run' = [run EXCEPT !.pc = label]
Treat(label, keys) == run' = [run EXCEPT !.pc = label, !.todo = keys]
Counted(label) == run' = [run EXCEPT !.pc = label, !.prior = Len(versions[run.rec])]
Quit == run' = Idle
Held(f) == {k \in Keys : f[k] # None}
FirstOf(k, S) == k \in S /\ \A j \in S : k <= j

Trouble == crashes + faults < MaxTroubles
Fault == Trouble /\ faults < MaxFaults /\ faults' = faults + 1
            /\ UNCHANGED <<reserves, edits, crashes, foreign>>

-----------------------------------------------------------------------------
Init ==
    /\ versions = [r \in Records |-> <<>>]
    /\ draft = [r \in Records |-> NoDraft]
    /\ finalizing = {}
    /\ \E kind \in Kinds : pin = Unpinned(kind)
    /\ local \in {f \in Files : Held(f) # {}}
    /\ run = Idle
    /\ wish = FALSE /\ kept = {}
    /\ reserved = {} /\ swapped = {} /\ unheard = {} /\ orphans = {}
    /\ reserves = 0 /\ edits = 0 /\ crashes = 0 /\ faults = 0 /\ foreign = 0

(* publishOne: hash the tracked files.  (--dry-run, a refused confirmation *)
(* and incomplete metadata end a run before it changes anything.)          *)
Start(force, reserve) ==
    /\ At("idle")
    /\ run' = [Idle EXCEPT !.pc = "observe", !.force = force, !.reserve = reserve,
                           !.sums = local, !.rec = pin.record]
    /\ UNCHANGED <<archive, pin, local, kept, history, edits, crashes, faults, foreign>>

Begin ==
    /\ ~wish
    /\ \A r \in Records : Len(versions[r]) < MaxVersions
    /\ \E force \in Forces, reserve \in Reserves :
          /\ Start(force, reserve)
          /\ wish' = ~reserve
          /\ reserves' = IF reserve THEN reserves + 1 ELSE reserves
          /\ reserves' <= MaxReserves

(* The user runs publish again until told that the dataset is published. *)
Rerun ==
    /\ wish
    /\ UNCHANGED <<wish, reserves>>
    /\ \E force \in Forces : Start(force, FALSE)

-----------------------------------------------------------------------------
(* remoteDatasetState, the gate and the plan.                              *)

Latest(r) == versions[r][Len(versions[r])]

ObserveNothing ==
    /\ At("observe") /\ pin.record = 0
    /\ Treat("open", Work(run.sums, NoFiles))
    /\ UNCHANGED <<archive, user, kept, history, counters>>

(* A version this manifest has not seen, and no --force. *)
GateIgnoresForce ==
    /\ At("observe") /\ pin.record # 0
    /\ Len(versions[pin.record]) > pin.version
    /\ Quit
    /\ UNCHANGED <<archive, user, kept, history, counters>>
GateRefuses ==
    /\ At("observe") /\ pin.record # 0
    /\ Len(versions[pin.record]) > pin.version /\ ~run.force
    /\ Quit
    /\ UNCHANGED <<archive, user, kept, history, counters>>

PassesGateUnseen ==
    /\ At("observe") /\ pin.record # 0
PassesGate ==
    /\ At("observe") /\ pin.record # 0
    /\ Len(versions[pin.record]) <= pin.version \/ run.force

(* Nothing to publish: repinDataset.  The version number follows only when *)
(* the pinned record is not the latest one.                                *)
RepinForgetsVersion ==
    /\ PassesGate /\ Work(run.sums, Latest(pin.record)) = {}
    /\ pin' = [pin EXCEPT !.index = Len(versions[pin.record]), !.sums = run.sums]
    /\ wish' = FALSE
    /\ Quit
    /\ UNCHANGED <<archive, local, kept, history, counters>>
Repin ==
    /\ PassesGate /\ Work(run.sums, Latest(pin.record)) = {}
    /\ LET n == Len(versions[pin.record]) IN
       pin' = [pin EXCEPT !.index = n,
                          !.version = IF pin.index = n THEN @ ELSE n,
                          !.sums = run.sums]
    /\ wish' = FALSE
    /\ Quit
    /\ UNCHANGED <<archive, local, kept, history, counters>>

ObservePlan ==
    /\ PassesGate /\ Work(run.sums, Latest(pin.record)) # {}
    /\ run' = [run EXCEPT !.pc = "open",
                          !.latest = Len(versions[pin.record]),
                          !.seen = Latest(pin.record),
                          !.todo = Work(run.sums, Latest(pin.record))]
    /\ UNCHANGED <<archive, user, kept, history, counters>>

-----------------------------------------------------------------------------
(* publishTransaction: open the draft.                                     *)

Fresh(r) ==
    /\ versions[r] = <<>> /\ draft[r] = NoDraft
    /\ \A q \in Records : (versions[q] = <<>> /\ draft[q] = NoDraft) => r <= q

(* First publish: CreateDraft makes a record that did not exist before. *)
CreateDraft ==
    /\ At("open") /\ run.rec = 0
    /\ \E r \in Records :
          /\ Fresh(r)
          /\ draft' = [draft EXCEPT ![r] = NoFiles]
          /\ run' = [run EXCEPT !.pc = "apply", !.rec = r]
    /\ UNCHANGED <<versions, finalizing, user, kept, history, counters>>

(* InvenioRDM opens an empty draft, or returns the one there already is. *)
InvenioNewVersion ==
    /\ At("open") /\ run.rec # 0 /\ Kind = "invenio"
    /\ draft' = [draft EXCEPT ![run.rec] = IF @ = NoDraft THEN NoFiles ELSE @]
    /\ orphans' = orphans \ {run.rec}
    /\ Counted("import")
    /\ UNCHANGED <<versions, finalizing, user, kept, reserved, swapped, unheard, counters>>

(* Figshare's account article and Dataverse's dataset are their own draft. *)
FigshareNewVersion ==
    /\ At("open") /\ run.rec # 0 /\ Kind = "figshare"
    /\ Goto("apply")
    /\ UNCHANGED <<archive, user, kept, history, counters>>

DataverseNewVersion ==
    /\ At("open") /\ run.rec # 0 /\ Kind = "dataverse"
    /\ Goto("apply")
    /\ UNCHANGED <<archive, user, kept, history, counters>>

(* The archive opens a draft and its answer is lost: the run ends with the *)
(* error before it has a draft to discard (publish.go:249-282).            *)
DraftUnheard ==
    /\ At("open") /\ Fault
    /\ \E r \in Records :
          /\ IF run.rec = 0 THEN Fresh(r) ELSE r = run.rec /\ Kind = "invenio"
          /\ draft' = [draft EXCEPT ![r] = IF @ = NoDraft THEN NoFiles ELSE @]
          /\ orphans' = orphans \union {r}
    /\ Quit
    /\ UNCHANGED <<versions, finalizing, user, kept, reserved, swapped, unheard>>

(* ImportPreviousFiles works on an empty draft only. *)
ImportAnyway ==
    /\ At("import") \/ At("reimport")
    /\ draft[run.rec] # NoDraft
    /\ draft' = [draft EXCEPT ![run.rec] = IF @ = NoFiles THEN Latest(run.rec) ELSE @]
    /\ Goto("apply")
    /\ UNCHANGED <<versions, finalizing, user, kept, history, counters>>
Import ==
    /\ At("import") \/ At("reimport")
    /\ draft[run.rec] = NoFiles
    /\ draft' = [draft EXCEPT ![run.rec] = Latest(run.rec)]
    /\ Goto("apply")
    /\ UNCHANGED <<versions, finalizing, user, kept, history, counters>>

(* A draft left over by an earlier run is not empty: list what to clear. *)
ImportRefusedAborts ==
    /\ At("import") /\ draft[run.rec] \notin {NoDraft, NoFiles}
    /\ Quit
    /\ UNCHANGED <<archive, user, kept, history, counters>>
ImportRefused ==
    /\ At("import") /\ draft[run.rec] \notin {NoDraft, NoFiles}
    /\ Treat("clear", Held(draft[run.rec]))
    /\ UNCHANGED <<archive, user, kept, history, counters>>

ImportFault ==
    /\ At("import") /\ draft[run.rec] # NoDraft
    /\ Fault
    /\ Treat("clear", Held(draft[run.rec]))
    /\ UNCHANGED <<archive, user, kept, history>>

ClearFile ==
    /\ At("clear") /\ draft[run.rec] # NoDraft
    /\ \E k \in run.todo :
          /\ FirstOf(k, run.todo)
          /\ draft' = [draft EXCEPT ![run.rec][k] = None]
          /\ Treat("clear", run.todo \ {k})
    /\ UNCHANGED <<versions, finalizing, user, kept, history, counters>>

Cleared ==
    /\ At("clear") /\ run.todo = {}
    /\ Treat("reimport", Work(run.sums, run.seen))
    /\ UNCHANGED <<archive, user, kept, history, counters>>

-----------------------------------------------------------------------------
(* Apply the plan, key by key.                                             *)

Now(k) == At("apply") /\ FirstOf(k, run.todo)
Act(k) == Action(run.sums[k], run.seen[k])
Done(k) == Treat("apply", run.todo \ {k})
Open == run.rec \in Records \ finalizing /\ draft[run.rec] # NoDraft

(* DeleteDraftFile; a file that is not there is no error. *)
Remove ==
    /\ \E k \in run.todo :
          /\ Now(k) /\ Act(k) \in {"remove", "replace"} /\ run.rec \notin finalizing
          /\ draft' = IF Open THEN [draft EXCEPT ![run.rec][k] = None] ELSE draft
          /\ IF Act(k) = "remove" THEN Done(k) ELSE Goto("upload")
    /\ UNCHANGED <<versions, finalizing, user, kept, history, counters>>

(* Where an upload of k may start: right away, or after its removal. *)
Uploading(k) ==
    /\ Open
    /\ \/ Now(k) /\ Act(k) = "upload"
       \/ At("upload") /\ FirstOf(k, run.todo)

(* UploadFile registers the key, streams the file and commits it.          *)
(* InvenioRDM refuses a key the draft already has.                         *)
InvenioRegister ==
    /\ Kind = "invenio"
    /\ \E k \in run.todo :
          /\ Uploading(k) /\ draft[run.rec][k] = None
          /\ draft' = [draft EXCEPT ![run.rec][k] = Pending]
    /\ Goto("commit")
    /\ UNCHANGED <<versions, finalizing, user, kept, history, counters>>

(* Figshare drops an entry of the same name before it initiates another. *)
FigshareDropExisting ==
    /\ Kind = "figshare"
    /\ \E k \in run.todo :
          /\ Uploading(k) /\ draft[run.rec][k] # None
          /\ draft' = [draft EXCEPT ![run.rec][k] = None]
    /\ Goto("upload")
    /\ UNCHANGED <<versions, finalizing, user, kept, history, counters>>

FigshareInitiate ==
    /\ Kind = "figshare"
    /\ \E k \in run.todo :
          /\ Uploading(k) /\ draft[run.rec][k] = None
          /\ draft' = [draft EXCEPT ![run.rec][k] = Pending]
    /\ Goto("commit")
    /\ UNCHANGED <<versions, finalizing, user, kept, history, counters>>

(* The bytes streamed are those of the file by now; the checksum the run   *)
(* computed at its start must match what the archive says it stored.  A    *)
(* mismatch leaves a committed file in an InvenioRDM draft, a pending one  *)
(* in a Figshare draft.  A large file goes to InvenioRDM in parts, and a   *)
(* commit that reports no MD5 is taken as it is.                           *)
Verified(k) == Kind # "invenio" \/ k \notin Unverified
FailsAtOnce == Quit
Fails == IF run.reserve THEN Quit ELSE Goto("discard")
KeptIfReserve == kept' = IF run.reserve /\ run.rec # 0 THEN kept \union {run.rec} ELSE kept

Commit ==
    /\ At("commit") /\ Open
    /\ \E k \in run.todo :
          /\ FirstOf(k, run.todo)
          /\ draft' = [draft EXCEPT ![run.rec][k] =
                          IF Kind = "figshare" /\ local[k] # run.sums[k] THEN @ ELSE local[k]]
          /\ IF local[k] = run.sums[k] \/ ~Verified(k)
             THEN Done(k) /\ UNCHANGED kept
             ELSE Fails /\ KeptIfReserve
          /\ swapped' = IF local[k] = run.sums[k] \/ Verified(k) THEN swapped
                                                               ELSE swapped \union {k}
    /\ UNCHANGED <<versions, finalizing, user, reserved, unheard, orphans, counters>>

(* Dataverse would rename a duplicate, so an entry of the same name goes   *)
(* first; the file is added in one call and taken back when it is corrupt. *)
DataverseDropExisting ==
    /\ Kind = "dataverse"
    /\ \E k \in run.todo :
          /\ Uploading(k) /\ draft[run.rec][k] # None
          /\ draft' = [draft EXCEPT ![run.rec][k] = None]
    /\ Goto("upload")
    /\ UNCHANGED <<versions, finalizing, user, kept, history, counters>>

DataverseAdd ==
    /\ Kind = "dataverse"
    /\ \E k \in run.todo :
          /\ Uploading(k) /\ draft[run.rec][k] = None
          /\ IF local[k] = run.sums[k]
             THEN /\ draft' = [draft EXCEPT ![run.rec][k] = local[k]]
                  /\ Done(k) /\ UNCHANGED kept
             ELSE Fails /\ KeptIfReserve /\ UNCHANGED draft
    /\ UNCHANGED <<versions, finalizing, user, history, counters>>

Applied ==
    /\ At("apply") /\ run.todo = {}
    /\ Goto("preflight")
    /\ UNCHANGED <<archive, user, kept, history, counters>>

(* UpdateMetadata, then pending entries are cleared from the draft. *)
Preflight ==
    /\ At("preflight") /\ Open
    /\ draft' = [draft EXCEPT ![run.rec] =
                    [k \in Keys |-> IF @[k] = Pending THEN None ELSE @[k]]]
    /\ Goto(IF run.reserve THEN "reserve" ELSE "publish")
    /\ UNCHANGED <<versions, finalizing, user, kept, history, counters>>

(* ReserveDOI: the draft survives the run, the manifest is not touched. *)
ReserveDOI ==
    /\ At("reserve") /\ Open
    /\ kept' = kept \union {run.rec}
    /\ reserved' = IF versions[run.rec] = <<>> THEN reserved \union {run.rec} ELSE reserved
    /\ Quit
    /\ UNCHANGED <<archive, user, swapped, unheard, orphans, counters>>

-----------------------------------------------------------------------------
(* The publish call.  A call that fails after the server did its work is   *)
(* no different from one that succeeds once the driver has looked again;   *)
(* what differs is what the driver makes of a call that did nothing.       *)

Publishable == At("publish") /\ Open /\ \A k \in Keys : draft[run.rec][k] # Pending

Released(r) == versions' = [versions EXCEPT ![r] = Append(@, draft[r])]

Made(n) == run' = [run EXCEPT !.pc = "pin", !.index = n]

(* A run that ends here leaves its record live, or about to be, and the    *)
(* manifest without it.                                                    *)
Unheard(r) ==
    unheard' = IF /\ r \in Records \ {pin.record}
                  /\ Len(versions'[r]) > 0 \/ r \in finalizing
               THEN unheard \union {r} ELSE unheard

InvenioPublishBlind ==
    /\ Publishable /\ Kind = "invenio"
    /\ Released(run.rec)
    /\ draft' = [draft EXCEPT ![run.rec] = NoDraft]
    /\ \/ Made(Len(versions[run.rec]) + 1) /\ UNCHANGED faults
       \/ Trouble /\ faults < MaxFaults /\ faults' = faults + 1 /\ Quit
    /\ UNCHANGED <<finalizing, user, kept, history, reserves, edits, crashes, foreign>>
InvenioPublish ==
    /\ Publishable /\ Kind = "invenio"
    /\ Released(run.rec)
    /\ draft' = [draft EXCEPT ![run.rec] = NoDraft]
    /\ Made(Len(versions[run.rec]) + 1)
    /\ kept' = kept \ {run.rec}
    /\ UNCHANGED <<finalizing, user, history, counters>>

(* Its answer is lost and the look at the record fails too. *)
InvenioPublishUnseen ==
    /\ Publishable /\ Kind = "invenio"
    /\ Fault
    /\ Released(run.rec)
    /\ draft' = [draft EXCEPT ![run.rec] = NoDraft]
    /\ kept' = kept \ {run.rec}
    /\ Unheard(run.rec)
    /\ Quit
    /\ UNCHANGED <<finalizing, user, reserved, swapped, orphans>>

(* The draft is gone, but a record of its id is published. *)
InvenioPublishFound ==
    /\ At("publish") /\ Kind = "invenio" /\ draft[run.rec] = NoDraft
    /\ Len(versions[run.rec]) > run.prior
    /\ Made(run.prior + 1)
    /\ UNCHANGED <<archive, user, kept, history, counters>>

(* The call did nothing, and reading the record says so: the error is      *)
(* returned and the draft survives.                                        *)
InvenioPublishFails ==
    /\ Publishable /\ Kind = "invenio"
    /\ Fault
    /\ kept' = kept \union {run.rec}
    /\ Quit
    /\ UNCHANGED <<archive, user, history>>

FigsharePublishBlind ==
    /\ Publishable /\ Kind = "figshare"
    /\ Released(run.rec)
    /\ \/ Made(Len(versions[run.rec]) + 1) /\ UNCHANGED faults
       \/ Trouble /\ faults < MaxFaults /\ faults' = faults + 1 /\ Quit
    /\ UNCHANGED <<draft, finalizing, user, kept, history, reserves, edits, crashes, foreign>>
FigsharePublish ==
    /\ Publishable /\ Kind = "figshare"
    /\ Released(run.rec)
    /\ Made(Len(versions[run.rec]) + 1)
    /\ UNCHANGED <<draft, finalizing, user, kept, history, counters>>

(* The version is out, but the public article cannot be read back. *)
FigsharePublishUnread ==
    /\ Publishable /\ Kind = "figshare"
    /\ Fault
    /\ Released(run.rec)
    /\ Unheard(run.rec)
    /\ Quit
    /\ UNCHANGED <<draft, finalizing, user, kept, reserved, swapped, orphans>>

(* The call did nothing; the public article is read back all the same, and *)
(* it exists as soon as the record has any version.                        *)
FigsharePublishFails ==
    /\ Publishable /\ Kind = "figshare"
    /\ Fault
    /\ \/ versions[run.rec] # <<>> /\ Made(Len(versions[run.rec])) /\ UNCHANGED kept
       \/ Quit /\ kept' = kept \union {run.rec}
    /\ UNCHANGED <<archive, user, history>>

(* Dataverse accepts the call and releases the version in the background. *)
DataversePublish ==
    /\ Publishable /\ Kind = "dataverse"
    /\ finalizing' = finalizing \union {run.rec}
    /\ Counted("poll")
    /\ UNCHANGED <<versions, draft, user, kept, history, counters>>

DataversePublishFails ==
    /\ Publishable /\ Kind = "dataverse"
    /\ Fault
    /\ Counted("poll")
    /\ UNCHANGED <<archive, user, kept, history>>

DataverseRelease ==
    /\ \E r \in finalizing : Released(r) /\ finalizing' = finalizing \ {r}
    /\ UNCHANGED <<draft, user, run, kept, history, counters>>

(* Publish polls until the count of released versions has grown. *)
DataversePollAnyVersion ==
    /\ At("poll") /\ versions[run.rec] # <<>>
    /\ Made(Len(versions[run.rec]))
    /\ UNCHANGED <<archive, user, kept, history, counters>>
DataversePoll ==
    /\ At("poll") /\ Len(versions[run.rec]) > run.prior
    /\ Made(Len(versions[run.rec]))
    /\ UNCHANGED <<archive, user, kept, history, counters>>

(* It gives up after so many polls, and fails. *)
DataversePollEnds ==
    /\ At("poll") /\ Len(versions[run.rec]) = run.prior
    /\ IF run.rec \in finalizing THEN Fault ELSE UNCHANGED counters
    /\ kept' = kept \union {run.rec}
    /\ UNCHANGED archive /\ Unheard(run.rec)
    /\ Quit
    /\ UNCHANGED <<user, reserved, swapped, orphans>>

(* The new version is the pinned baseline: save the manifest. *)
PinLocal ==
    /\ At("pin")
    /\ pin' = [remote |-> Kind, record |-> run.rec, index |-> run.index,
               version |-> run.latest + 1, sums |-> local]
    /\ wish' = FALSE
    /\ Quit
    /\ UNCHANGED <<archive, local, kept, history, counters>>
Pin ==
    /\ At("pin")
    /\ pin' = [remote |-> Kind, record |-> run.rec, index |-> run.index,
               version |-> run.latest + 1, sums |-> run.sums]
    /\ wish' = FALSE
    /\ Quit
    /\ UNCHANGED <<archive, local, kept, history, counters>>

-----------------------------------------------------------------------------
(* Failures.                                                               *)

Editing == At("apply") \/ At("upload") \/ At("commit") \/ At("preflight")

(* A failing call between the draft being ready and the publish call. *)
CallFails ==
    /\ Editing /\ Fault
    /\ Fails /\ KeptIfReserve
    /\ UNCHANGED <<archive, user, history>>

(* The draft is gone or locked, or refuses a key it already has. *)
DraftRefuses ==
    /\ Editing /\ (At("apply") => run.todo # {})
    /\ \/ ~Open
       \/ /\ Kind = "invenio"
          /\ \E k \in run.todo : Uploading(k) /\ draft[run.rec][k] # None
    /\ Fails /\ KeptIfReserve
    /\ UNCHANGED <<archive, user, history, counters>>

(* A failing call before that, or of ReserveDOI: the run ends as it is,    *)
(* with the draft it has opened.                                           *)
CallAborts ==
    /\ \E l \in {"observe", "open", "clear", "reimport", "reserve"} : At(l)
    /\ At("observe") => pin.record # 0
    /\ Fault
    /\ KeptIfReserve
    /\ orphans' = IF At("clear") \/ At("reimport") THEN orphans \union {run.rec} ELSE orphans
    /\ Quit
    /\ UNCHANGED <<archive, user, reserved, swapped, unheard>>

DraftGone ==
    /\ \E l \in {"import", "clear", "reimport", "reserve"} : At(l)
    /\ ~Open
    /\ Quit
    /\ UNCHANGED <<archive, user, kept, history, counters>>

InvenioDiscard ==
    /\ At("discard") /\ Kind = "invenio"
    /\ draft' = [draft EXCEPT ![run.rec] = NoDraft]
    /\ kept' = kept \ {run.rec}
    /\ Quit
    /\ UNCHANGED <<versions, finalizing, user, history, counters>>

(* The other two delete the whole record, which a published one forbids. *)
FigshareDiscard ==
    /\ At("discard") /\ Kind = "figshare"
    /\ draft' = [draft EXCEPT ![run.rec] = IF versions[run.rec] = <<>> THEN NoDraft ELSE @]
    /\ Quit
    /\ UNCHANGED <<versions, finalizing, user, kept, history, counters>>

DataverseDiscard ==
    /\ At("discard") /\ Kind = "dataverse"
    /\ draft' = [draft EXCEPT ![run.rec] = IF versions[run.rec] = <<>> THEN NoDraft ELSE @]
    /\ Quit
    /\ UNCHANGED <<versions, finalizing, user, kept, history, counters>>

DiscardFails ==
    /\ At("discard") /\ Fault
    /\ kept' = kept \union {run.rec}
    /\ Quit
    /\ UNCHANGED <<archive, user, history>>

-----------------------------------------------------------------------------
(* What happens around the run.                                            *)

Crash ==
    /\ ~At("idle")
    /\ Trouble /\ crashes < MaxCrashes /\ crashes' = crashes + 1
    /\ UNCHANGED archive /\ Unheard(run.rec)
    /\ Quit
    /\ UNCHANGED <<user, kept, reserved, swapped, orphans, reserves, edits, faults, foreign>>

Edited == edits < MaxEdits /\ edits' = edits + 1 /\ UNCHANGED <<reserves, crashes, faults, foreign>>

(* A tracked file changes, at any moment; one is added to or dropped from  *)
(* the manifest between runs, and its pin lives and goes with its entry.   *)
Edit ==
    /\ Edited
    /\ \E k \in Keys, m \in Contents \union {None} :
          LET tracking == None \in {m, local[k]} IN
          /\ m # local[k] /\ (tracking => At("idle"))
          /\ local' = [local EXCEPT ![k] = m]
          /\ Held(local') # {}
          /\ pin' = IF tracking THEN [pin EXCEPT !.sums[k] = None] ELSE pin
    /\ UNCHANGED <<archive, wish, run, kept, history>>

(* A collaborator publishes a version: the draft it finds on InvenioRDM,   *)
(* or the latest files with at most one of them changed, added or dropped. *)
ForeignPublish ==
    /\ foreign < MaxForeign /\ foreign' = foreign + 1
    /\ Overlap \/ At("idle")
    /\ \E r \in Records, f \in Files \ {NoFiles} :
          /\ versions[r] # <<>> /\ r \notin finalizing
          /\ IF Kind = "invenio" /\ draft[r] # NoDraft
             THEN draft[r] = f
             ELSE \E k \in Keys : \A j \in Keys \ {k} : f[j] = Latest(r)[j]
          /\ versions' = [versions EXCEPT ![r] = Append(@, f)]
          /\ draft' = [draft EXCEPT ![r] = IF Kind = "invenio" THEN NoDraft ELSE f]
          /\ kept' = kept \ {r} /\ orphans' = orphans \ {r}
    /\ UNCHANGED <<finalizing, user, run, reserved, swapped, unheard,
                   reserves, edits, crashes, faults>>

(* The user has been answered and asks for nothing more. *)
Rest == At("idle") /\ ~wish /\ UNCHANGED vars

Step ==
    \/ ObserveNothing \/ GateRefuses \/ Repin \/ ObservePlan
    \/ CreateDraft \/ InvenioNewVersion \/ FigshareNewVersion \/ DataverseNewVersion
    \/ Import \/ ImportRefused \/ ClearFile \/ Cleared
    \/ Remove \/ InvenioRegister \/ FigshareDropExisting \/ FigshareInitiate \/ Commit
    \/ DataverseDropExisting \/ DataverseAdd \/ Applied \/ Preflight \/ ReserveDOI
    \/ InvenioPublish \/ InvenioPublishFound \/ FigsharePublish
    \/ DataversePublish \/ DataversePoll \/ Pin
    \/ DraftRefuses \/ DraftGone
    \/ InvenioDiscard \/ FigshareDiscard \/ DataverseDiscard

Failure ==
    \/ DraftUnheard \/ ImportFault \/ CallFails \/ CallAborts \/ DiscardFails
    \/ InvenioPublishUnseen \/ InvenioPublishFails
    \/ FigsharePublishUnread \/ FigsharePublishFails
    \/ DataversePublishFails \/ DataversePollEnds
    \/ Crash

Next ==
    \/ Begin \/ Rerun \/ Rest \/ Step \/ Failure
    \/ DataverseRelease \/ Edit \/ ForeignPublish

Spec == Init /\ [][Next]_vars

(* A started run goes on, its polling ends, the archive finishes a release *)
(* it accepted, and the user re-runs publish until it is answered, and now *)
(* and then with the --force the refusal names.                            *)
Fairness ==
    /\ WF_vars(Step) /\ WF_vars(DataversePollEnds) /\ WF_vars(DataverseRelease)
    /\ WF_vars(Rerun) /\ SF_vars(Rerun /\ run'.force)
FairSpec == Spec /\ Fairness

-----------------------------------------------------------------------------
(***************************************************************************)
(* Properties.                                                             *)
(***************************************************************************)

(* Every variable stays in its range; a run at work on a draft has one of  *)
(* a record that exists.                                                   *)
TypeOK ==
    /\ versions \in [Records -> Seq(Files)]
    /\ draft \in [Records -> DraftFiles \union {NoDraft}]
    /\ finalizing \subseteq Records
    /\ pin \in [remote : Kinds, record : 0..MaxRecords, index : Nat, version : Nat,
               sums : Files]
    /\ local \in Files /\ wish \in BOOLEAN
    /\ run \in Run
    /\ run.pc \notin {"idle", "observe", "open"} => run.rec # 0
    /\ kept \subseteq Records /\ reserved \subseteq Records
    /\ swapped \subseteq Unverified /\ unheard \subseteq Records /\ orphans \subseteq Records

(* A version that a run takes for its own holds exactly the files the run  *)
(* hashed when it started, whatever an earlier run left in the draft and   *)
(* whatever the user edited meanwhile (publish.go:220-222 pins them), but  *)
(* for keys of which an upload in parts, that InvenioRDM reported no MD5   *)
(* of, once sent bytes edited since they were hashed.                      *)
(* InvenioRDM's drafts start from the published files; the other archives  *)
(* keep what a failed run uploaded, where it can be published later.       *)
PublishedIsLocal ==
    At("pin") /\ Kind = "invenio" =>
        /\ run.index \in 1..Len(versions[run.rec])
        /\ \A k \in Keys \ swapped : versions[run.rec][run.index][k] = run.sums[k]

(* publish.go:210 "the new version is the pinned baseline": the pinned     *)
(* version number and the pinned version id name one published version.    *)
PinNamesVersion ==
    pin.record # 0 =>
        pin.version = pin.index /\ pin.index \in 1..Len(versions[pin.record])

(* So they do but where a failed call fools Figshare's reconciliation, or  *)
(* a run died or gave up while Dataverse was releasing and the next one    *)
(* counted the versions before it was through.                             *)
Undisturbed ==
    /\ Kind \in {"figshare", "dataverse"} => faults = 0
    /\ Kind = "dataverse" => crashes = 0
PinNamesVersionUndisturbed == Undisturbed => PinNamesVersion

(* publish.go:152 no version is published on top of one the manifest has   *)
(* not seen, unless the user forced it.                                    *)
GateHolds ==
    [][\A r \in Records :
          (At("publish") /\ run.rec = r /\ ~run.force
             /\ versions'[r] # versions[r] /\ foreign' = foreign /\ Undisturbed)
          => Len(versions[r]) = IF pin.record = r THEN pin.version ELSE 0]_vars

(* The dataset has one published record, and so one concept DOI, besides   *)
(* those that went live unheard: only a run that is killed between its     *)
(* publish call and the saving of the manifest, one whose look at what the *)
(* call did fails as well, and one that stops polling a Dataverse release  *)
(* before it is through leave the next run to make another.                *)
OneRecord ==
    \A r, q \in Records \ unheard :
        versions[r] # <<>> /\ versions[q] # <<>> => r = q

(* README.md:326 "a failure before the publish step discards the draft, so *)
(* a crashed run leaves no half-record": as long as no run is killed, an   *)
(* InvenioRDM draft exists only while a run works on it, after a publish   *)
(* or discard call that failed, for --reserve, or as an orphan of a call   *)
(* that failed before the run was ready to discard: the one that opened    *)
(* the draft and one that cleared or imported files (publish.go:249-282).  *)
FailureDiscards ==
    crashes = 0 /\ Kind = "invenio" =>
        \A r \in Records :
            draft[r] # NoDraft =>
                r \in kept \union orphans \/ (~At("idle") /\ run.rec = r)

(* publish.go:43 "run publish again (without --reserve) to make it live":  *)
(* the record that goes live is the one whose DOI was reserved.            *)
ReservedGoesLive ==
    pin.record # 0 /\ reserved # {} => pin.record \in reserved

(* publish.go:258 "so the transaction is re-runnable": a user who keeps    *)
(* re-running publish is told in the end that the dataset is published.    *)
Converges == wish ~> ~wish
=============================================================================
