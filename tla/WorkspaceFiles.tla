--------------------------- MODULE WorkspaceFiles ---------------------------
(***************************************************************************)
(* A dataset shared through a workspace: the working copies of several     *)
(* users, the commands that move files between them and the workspace      *)
(* (cmd/workspace_cmds.go) and the state `datapin status` derives          *)
(* (cmd/dataset_workspace_status.go, internal/workspace/status.go).        *)
(* One writing command runs at a time, so that a key is what VersionStore  *)
(* promises, in the two steps a crash can come between: the bytes are in   *)
(* place, the event is journaled.  Pulls, edits and outside writes come at *)
(* any moment.                                                             *)
(***************************************************************************)
EXTENDS Naturals, Sequences, FiniteSets

CONSTANTS
    Users,         \* each with a working copy of its own
    Keys,          \* the dataset's files, numbered in the manifest's order
    Contents,      \* contents, standing for their checksums too
    None,          \* no file, no object
    Author,        \* the user whose files they are at first
    Original,      \* what they hold then: contents are compared per file only
    Keep,          \* gc --keep
    MaxEvents,     \* bound: no command but a remedy starts above it, per key
    MaxEdits,      \* bound on edits
    EditsOverlap,  \* whether files change between a push's hash and its upload
    MaxFaults      \* bound on commands that die and writes by other programs

ASSUME DatasetAssumption ==
    /\ Keys \subseteq Nat /\ None \notin Contents
    /\ Author \in Users /\ Original \in Contents
    /\ EditsOverlap \in BOOLEAN
    /\ {Keep, MaxEvents, MaxEdits, MaxFaults} \subseteq Nat

VARIABLES
    local,     \* local[u][k]: the user's file
    object,    \* object[k]: the workspace's current bytes
    archive,   \* archive[k]: contents archived
    journal,   \* journal[k]: the checksums journaled, oldest first
    run,       \* run[u]: the command a user is in, with its locals
    forgone,   \* forgone[k]: contents reclaimed, or overwritten from outside
    edits, faults

store == <<object, archive, journal>>
counters == <<edits, faults>>
vars == <<local, store, run, forgone, counters>>

MaybeContent == Contents \union {None}

KeyStates == {"IN_SYNC", "NOT_PUSHED", "MISSING", "BEHIND", "AHEAD"}
States == KeyStates \union {"DIVERGED"}

Run == [cmd : {"push", "revert", "pull"},
        step : {"put", "journal", "look", "fetch"},
        sums : [Keys -> MaybeContent],   \* what the command hashed, or restores
        todo : SUBSET Keys,
        shown : States \union {"moot"},  \* what status said when the command started;
                                         \* moot once somebody has interfered
        asked : BOOLEAN]                 \* history: status asked for this pull, and the
                                         \* user has changed no file since
Idle == [cmd |-> "none"]

Recorded(k) == {journal[k][i] : i \in DOMAIN journal[k]}
HeadIs(k, m) == journal[k] # <<>> /\ journal[k][Len(journal[k])] = m
Available(o, a) == (a \union {o}) \ {None}

-----------------------------------------------------------------------------
(* Status.                                                                 *)

ClassifyKeyMissingFirst(mine, head, recorded) ==
    IF mine = None THEN "MISSING"
    ELSE IF head = None THEN "NOT_PUSHED"
    ELSE IF mine = head THEN "IN_SYNC"
    ELSE IF mine \in recorded THEN "BEHIND"
    ELSE "AHEAD"
ClassifyKey(mine, head, recorded) ==
    IF head = None THEN "NOT_PUSHED"
    ELSE IF mine = None THEN "MISSING"
    ELSE IF mine = head THEN "IN_SYNC"
    ELSE IF mine \in recorded THEN "BEHIND"
    ELSE "AHEAD"

KeyState(u, k) == ClassifyKey(local[u][k], object[k], Recorded(k))

(* Keys on neither side carry no work. *)
AggregatePushFirst(u) ==
    LET Some(state) == \E k \in Keys : KeyState(u, k) = state /\
                           (state = "NOT_PUSHED" => local[u][k] # None)
        first == CHOOSE i \in 1..6 :
                    LET order == <<"AHEAD", "NOT_PUSHED", "BEHIND", "MISSING", "IN_SYNC">>
                    IN /\ i = 6 \/ Some(order[i])
                       /\ \A j \in 1..(i - 1) : ~Some(order[j])
    IN <<"AHEAD", "NOT_PUSHED", "BEHIND", "MISSING", "IN_SYNC", "NOT_PUSHED">>[first]
Aggregate(u) ==
    LET Some(state) == \E k \in Keys : KeyState(u, k) = state /\
                           (state = "NOT_PUSHED" => local[u][k] # None)
        needsPush == Some("AHEAD") \/ Some("NOT_PUSHED")
        needsPull == Some("BEHIND") \/ Some("MISSING")
    IN IF needsPush /\ needsPull THEN "DIVERGED"
       ELSE IF Some("AHEAD") THEN "AHEAD"
       ELSE IF Some("NOT_PUSHED") THEN "NOT_PUSHED"
       ELSE IF Some("BEHIND") THEN "BEHIND"
       ELSE IF Some("MISSING") THEN "MISSING"
       ELSE IF Some("IN_SYNC") THEN "IN_SYNC"
       ELSE "NOT_PUSHED"

NoPushNeeded(u) == Aggregate(u) \in {"BEHIND", "MISSING", "IN_SYNC"}

-----------------------------------------------------------------------------
(* The author has made the files and the manifest that lists them, the     *)
(* others have cloned the repository without them.                         *)
Init ==
    /\ local = [u \in Users |-> [k \in Keys |-> IF u = Author THEN Original ELSE None]]
    /\ object = [k \in Keys |-> None]
    /\ archive = [k \in Keys |-> {}]
    /\ journal = [k \in Keys |-> <<>>]
    /\ run = [u \in Users |-> Idle]
    /\ forgone = [k \in Keys |-> {}]
    /\ edits = 0 /\ faults = 0

Running(u) == run[u] # Idle
At(u, step) == Running(u) /\ run[u].step = step
Writing(u) == Running(u) /\ run[u].cmd \in {"push", "revert"}
NobodyWrites == \A u \in Users : ~Writing(u)
Room == \A k \in Keys : Len(journal[k]) < MaxEvents

(* The key a command is at: files are taken in the manifest's order. *)
IsAt(u, k) == k \in run[u].todo /\ \A j \in run[u].todo : k <= j

(* On to the next file, or the end of the command. *)
Onward(u, k, step) ==
    run' = [run EXCEPT ![u] = IF run[u].todo = {k} THEN Idle
                              ELSE [run[u] EXCEPT !.step = step, !.todo = run[u].todo \ {k}]]

(* The object is in place: u journals next, and the other users' commands  *)
(* are no longer alone with the workspace.                                 *)
Placed(u) ==
    run' = [v \in Users |->
               IF v = u THEN [run[v] EXCEPT !.step = "journal"]
               ELSE IF Running(v) /\ object' # object THEN [run[v] EXCEPT !.shown = "moot"]
               ELSE run[v]]
Quit(u) == run' = [run EXCEPT ![u] = Idle]

Forgo(k, S) ==
    forgone' = [forgone EXCEPT ![k] = (@ \union S) \ Available(object'[k], archive'[k])]
Starts(u, cmd, step, sums, todo) ==
    /\ ~Running(u) /\ todo # {}
    /\ run' = [run EXCEPT ![u] = [cmd |-> cmd, step |-> step, sums |-> sums, todo |-> todo,
                                  shown |-> IF cmd = "revert" THEN "moot" ELSE Aggregate(u),
                                  asked |-> cmd = "pull" /\ NoPushNeeded(u)]]
    /\ UNCHANGED <<local, store, forgone, counters>>

-----------------------------------------------------------------------------
(* push <slug>: hash every file, refuse if one is missing, then file by    *)
(* file Workspace.Push with the checksum hashed before.                    *)

BeginPush(u) ==
    /\ NobodyWrites
    /\ Room \/ Aggregate(u) \in {"AHEAD", "NOT_PUSHED"}
    /\ \A k \in Keys : local[u][k] # None
    /\ Starts(u, "push", "put", local[u], Keys)

PushUnchanged(u) ==
    /\ At(u, "put") /\ run[u].cmd = "push"
    /\ \E k \in Keys :
          /\ IsAt(u, k) /\ local[u][k] # None
          /\ object[k] = run[u].sums[k] /\ HeadIs(k, object[k])
          /\ Onward(u, k, "put")
    /\ UNCHANGED <<local, store, forgone, counters>>

(* Archive what is there, put what the file holds by now; a store that     *)
(* reports checksums spares the put when the object has it already.        *)
PushPutUnarchived(u) ==
    /\ At(u, "put") /\ run[u].cmd = "push"
    /\ \E k \in Keys :
          /\ IsAt(u, k) /\ local[u][k] # None
          /\ ~(object[k] = run[u].sums[k] /\ HeadIs(k, object[k]))
          /\ object' = [object EXCEPT ![k] = local[u][k]]
          /\ Placed(u)
          /\ UNCHANGED archive /\ Forgo(k, {})
    /\ UNCHANGED <<local, journal, counters>>
PushPut(u) ==
    /\ At(u, "put") /\ run[u].cmd = "push"
    /\ \E k \in Keys :
          /\ IsAt(u, k) /\ local[u][k] # None
          /\ ~(object[k] = run[u].sums[k] /\ HeadIs(k, object[k]))
          /\ archive' = [archive EXCEPT ![k] = @ \union ({object[k]} \ {None, run[u].sums[k]})]
          /\ \E bytes \in {local[u][k]} \union ({object[k]} \intersect {run[u].sums[k]}) :
                object' = [object EXCEPT ![k] = bytes]
          /\ Placed(u)
          /\ Forgo(k, {})
    /\ UNCHANGED <<local, journal, counters>>

Record(u) ==
    /\ At(u, "journal")
    /\ \E k \in Keys :
          /\ IsAt(u, k)
          /\ journal' = [journal EXCEPT ![k] = Append(@, run[u].sums[k])]
          /\ Onward(u, k, "put")
    /\ UNCHANGED <<local, object, archive, forgone, counters>>

(* A file hashed at the start is gone by now: the push stops there. *)
PushNoFile(u) ==
    /\ At(u, "put") /\ run[u].cmd = "push"
    /\ \E k \in Keys : IsAt(u, k) /\ local[u][k] = None
    /\ Quit(u)
    /\ UNCHANGED <<local, store, forgone, counters>>

-----------------------------------------------------------------------------
(* revert <slug>/<key> --to n: the working copy is left alone.             *)

BeginRevert(u) ==
    /\ NobodyWrites /\ Room
    /\ \E k \in Keys : \E m \in Recorded(k) :
          /\ m \in Available(object[k], archive[k])
          /\ Starts(u, "revert", "put", [j \in Keys |-> m], {k})

Restore(u) ==
    /\ At(u, "put") /\ run[u].cmd = "revert"
    /\ \E k \in Keys :
          /\ IsAt(u, k)
          /\ run[u].sums[k] \in Available(object[k], archive[k])
          /\ archive' = [archive EXCEPT ![k] = @ \union ({object[k]} \ {None, run[u].sums[k]})]
          /\ object' = [object EXCEPT ![k] = run[u].sums[k]]
          /\ Placed(u)
          /\ Forgo(k, {})
    /\ UNCHANGED <<local, journal, counters>>

(* gc: of the distinct contents journaled, other than the current one, the *)
(* Keep most recent ones stay.                                             *)
LastAt(k, m) == CHOOSE i \in DOMAIN journal[k] :
    journal[k][i] = m /\ \A j \in DOMAIN journal[k] : journal[k][j] = m => j <= i
Victims(k) ==
    {m \in Recorded(k) \ {object[k]} :
        Cardinality({n \in Recorded(k) \ {object[k]} : LastAt(k, n) > LastAt(k, m)}) >= Keep}

GC ==
    /\ NobodyWrites
    /\ archive' = [k \in Keys |-> archive[k] \ Victims(k)]
    /\ archive' # archive
    /\ forgone' = [k \in Keys |-> forgone[k] \union (archive[k] \intersect Victims(k))]
    /\ UNCHANGED <<local, object, journal, run, counters>>

-----------------------------------------------------------------------------
(* pull <slug> --workspace: each file is compared with the workspace's     *)
(* current bytes and replaced when it differs, whatever it holds.          *)

BeginPull(u) == Starts(u, "pull", "look", [k \in Keys |-> None], Keys)

PullSkips(u) ==
    /\ At(u, "look")
    /\ \E k \in Keys :
          /\ IsAt(u, k) /\ object[k] \in {None, local[u][k]}
          /\ Onward(u, k, "look")
    /\ UNCHANGED <<local, store, forgone, counters>>

PullLooks(u) ==
    /\ At(u, "look")
    /\ \E k \in Keys : IsAt(u, k) /\ object[k] \notin {None, local[u][k]}
    /\ run' = [run EXCEPT ![u].step = "fetch"]
    /\ UNCHANGED <<local, store, forgone, counters>>

PullFetches(u) ==
    /\ At(u, "fetch")
    /\ \E k \in Keys :
          /\ IsAt(u, k) /\ object[k] # None
          /\ local' = [local EXCEPT ![u][k] = object[k]]
          /\ Onward(u, k, "look")
    /\ UNCHANGED <<store, forgone, counters>>

PullFetchFails(u) ==
    /\ At(u, "fetch")
    /\ \E k \in Keys : IsAt(u, k) /\ object[k] = None
    /\ Quit(u)
    /\ UNCHANGED <<local, store, forgone, counters>>

-----------------------------------------------------------------------------
Crash(u) ==
    /\ Running(u)
    /\ faults < MaxFaults /\ faults' = faults + 1
    /\ Quit(u)
    /\ UNCHANGED <<local, store, forgone, edits>>

Edit(u) ==
    /\ edits < MaxEdits /\ edits' = edits + 1
    /\ \E k \in Keys, m \in MaybeContent :
          /\ m # local[u][k]
          /\ EditsOverlap \/ m = None \/ ~Writing(u)
          /\ local' = [local EXCEPT ![u][k] = m]
    /\ run' = IF Running(u) THEN [run EXCEPT ![u].shown = "moot", ![u].asked = FALSE] ELSE run
    /\ UNCHANGED <<store, forgone, faults>>

ForeignWrite ==
    /\ NobodyWrites
    /\ faults < MaxFaults /\ faults' = faults + 1
    /\ \E k \in Keys, m \in MaybeContent :
          /\ m # object[k]
          /\ object' = [object EXCEPT ![k] = m]
          /\ UNCHANGED archive /\ Forgo(k, {object[k]} \ {None})
    /\ run' = [u \in Users |-> IF Running(u) THEN [run[u] EXCEPT !.shown = "moot"] ELSE run[u]]
    /\ UNCHANGED <<local, journal, edits>>

(* What a started command does by itself. *)
Step(u) ==
    \/ PushUnchanged(u) \/ PushPut(u) \/ PushNoFile(u) \/ Record(u) \/ Restore(u)
    \/ PullSkips(u) \/ PullLooks(u) \/ PullFetches(u) \/ PullFetchFails(u)

Next ==
    \/ \E u \in Users :
          Step(u) \/ BeginPush(u) \/ BeginRevert(u) \/ BeginPull(u) \/ Crash(u) \/ Edit(u)
    \/ GC \/ ForeignWrite

Spec == Init /\ [][Next]_vars

(* Users do what status tells them to, again and again. *)
FollowPush(u) == Aggregate(u) \in {"AHEAD", "NOT_PUSHED"} /\ BeginPush(u)
FollowPull(u) == Aggregate(u) \in {"BEHIND", "MISSING"} /\ BeginPull(u)
Fairness == \A u \in Users :
    WF_vars(Step(u)) /\ SF_vars(FollowPush(u)) /\ SF_vars(FollowPull(u))
FairSpec == Spec /\ Fairness

-----------------------------------------------------------------------------
(***************************************************************************)
(* Properties.                                                             *)
(***************************************************************************)

FilesTypeOK ==
    /\ local \in [Users -> [Keys -> MaybeContent]]
    /\ object \in [Keys -> MaybeContent]
    /\ archive \in [Keys -> SUBSET Contents]
    /\ journal \in [Keys -> Seq(Contents)]
    /\ run \in [Users -> Run \union {Idle}]
    /\ forgone \in [Keys -> SUBSET Contents]
    /\ \A u \in Users : Writing(u) => /\ run[u].sums \in [Keys -> Contents]
                                     /\ \A v \in Users \ {u} : ~Writing(v)

(* dataset_workspace_status.go:28-33 BEHIND and MISSING say that nothing   *)
(* needs pushing, status.go:26 that "a pull fast-forwards": whatever the   *)
(* others push, revert or collect between that status, the comparison of a *)
(* file and its fetch, such a pull costs the user no content that the      *)
(* workspace did not keep, or was made to give up: by gc, which keeps only *)
(* so many versions, or by another program that wrote over it.  What the   *)
(* user changes once the pull has begun it does not protect, and while     *)
(* files change under a push nothing does (EditsOverlap).                  *)
PullKeepsWork ==
    [][\A u \in Users, k \in Keys :
          /\ Running(u) /\ run[u].cmd = "pull" /\ run[u].asked /\ edits' = edits
          /\ local'[u][k] # local[u][k]
          => local[u][k] \in Available(object[k], archive[k]) \union forgone[k] \union {None}]_vars

(* dataset_workspace_status.go:22,31 NOT_PUSHED and AHEAD say that nothing *)
(* needs pulling: such a push does not take the workspace back to a        *)
(* version it had moved past.                                              *)
PushKeepsNewer ==
    [][\A u \in Users, k \in Keys :
          /\ Running(u) /\ run[u].cmd = "push" /\ run[u].shown \in {"AHEAD", "NOT_PUSHED"}
          /\ object'[k] # object[k] /\ object[k] # None
          => object'[k] \notin Recorded(k)]_vars

(* workspaceDetail names a remedy: a push that ended, and a pull where     *)
(* status asked for one, leave the dataset IN_SYNC, if nobody interfered.  *)
RemedyWorks ==
    [][\A u \in Users :
          /\ Running(u) /\ run'[u] = Idle /\ faults' = faults
          /\ \/ run[u].cmd = "push" /\ run[u].shown # "moot"
             \/ run[u].cmd = "pull" /\ run[u].shown \in {"BEHIND", "MISSING", "IN_SYNC"}
          => Aggregate(u)' = "IN_SYNC"]_vars

(* Users who follow status come to rest: in the end every one is IN_SYNC,  *)
(* told DIVERGED, where no one command helps, or lacks a file that push    *)
(* insists on.                                                             *)
AtRest(u) ==
    \/ Aggregate(u) \in {"IN_SYNC", "DIVERGED"}
    \/ Aggregate(u) \in {"AHEAD", "NOT_PUSHED"} /\ \E k \in Keys : local[u][k] = None
UsersSettle == <>[](\A u \in Users : AtRest(u))
=============================================================================
