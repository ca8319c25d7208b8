------------------------------ MODULE FileState ------------------------------
(***************************************************************************)
(* The three-way comparison behind `datapin sync`, `push`, `pull` and      *)
(* `status`: the local content L, the pinned baseline B and the remote     *)
(* versions R give a state (internal/manifest/status.go), and the state    *)
(* with the run's flags gives an action (cmd/gate.go).                     *)
(*                                                                         *)
(* A content stands for its checksum.  The remote versions are a set of    *)
(* records [version, md5]; version numbers are positive.                   *)
(***************************************************************************)
EXTENDS Naturals

CONSTANT None       \* no local file; an unknown checksum

States == {"IN_SYNC", "MISSING", "BEHIND", "AHEAD_OF_MANIFEST", "REMOTE_NEWER",
           "NOT_PUSHED", "PIN_ONLY", "DIVERGED"}
Actions == {"none", "pin", "pull", "push", "restore", "report", "blocked"}

NoVersion == [version |-> 0, md5 |-> None]

IsLatest(v, vs) == v \in vs /\ \A w \in vs : w.version <= v.version
Latest(vs) == IF vs = {} THEN NoVersion ELSE CHOOSE v \in vs : IsLatest(v, vs)

MatchesAny(sum, vs) == sum # None /\ \E v \in vs : v.md5 = sum
HasNewerByTwo(n, vs) == \E v \in vs : v.version > n + 1
HasNewer(n, vs) == \E v \in vs : v.version > n

-----------------------------------------------------------------------------
(* ClassifyFile.                                                           *)

(* Without the remote only L and B can be compared. *)
ClassifyBlind(pin, sum) ==
    CASE pin.version = 0 -> "NOT_PUSHED"
      [] pin.version > 0 /\ sum = None -> "MISSING"
      [] pin.version > 0 /\ sum # None /\ sum = pin.md5 -> "IN_SYNC"
      [] OTHER -> "AHEAD_OF_MANIFEST"

MatchesLatest(sum, vs) == vs # {} /\ sum # None /\ sum = Latest(vs).md5

ClassifyUnpinned(sum, vs) ==
    CASE vs = {} -> "NOT_PUSHED"
      [] vs # {} /\ sum = None -> "MISSING"
      [] MatchesLatest(sum, vs) -> "PIN_ONLY"
      [] ~MatchesLatest(sum, vs) /\ MatchesAny(sum, vs) -> "BEHIND"
      [] OTHER -> "AHEAD_OF_MANIFEST"

(* Local content that is not the baseline. *)
ClassifyChanged(pin, sum, vs) ==
    CASE MatchesLatest(sum, vs) -> "PIN_ONLY"
      [] ~MatchesLatest(sum, vs) /\ MatchesAny(sum, vs) -> "BEHIND"
      [] ~MatchesLatest(sum, vs) /\ ~MatchesAny(sum, vs) /\ HasNewer(pin.version, vs)
            -> "DIVERGED"
      [] OTHER -> "AHEAD_OF_MANIFEST"

Classify(pin, sum, vs) ==
    CASE pin.version = 0 -> ClassifyUnpinned(sum, vs)
      [] pin.version > 0 /\ sum = None -> "MISSING"
      [] pin.version > 0 /\ sum # None /\ sum # pin.md5 -> ClassifyChanged(pin, sum, vs)
      [] OTHER -> IF HasNewer(pin.version, vs) THEN "REMOTE_NEWER" ELSE "IN_SYNC"

(* canSkipVersionHistory: the latest version, as a directory listing gives *)
(* it, settles the classification.                                         *)
CanSkip(pin, sum, latest) ==
    /\ latest.version > 0 /\ sum # None
    /\ sum = latest.md5 \/ (pin.version > 0 /\ sum = pin.md5)

-----------------------------------------------------------------------------
(* The policies.  resolve is "", "ours" or "theirs".                       *)

ResolveDecision(resolve) ==
    CASE resolve = "ours" -> "push" [] resolve = "theirs" -> "pull" [] OTHER -> "blocked"

ModifiedRestores(force) == "restore"
Modified(force) == IF force THEN "restore" ELSE "report"

SyncDecision(state, hasLocal, force, resolve) ==
    CASE state = "PIN_ONLY" -> "pin"
      [] state \in {"MISSING", "BEHIND", "REMOTE_NEWER"} -> "pull"
      [] state = "NOT_PUSHED" /\ hasLocal -> "push"
      [] state = "AHEAD_OF_MANIFEST" -> Modified(force)
      [] state = "DIVERGED" -> ResolveDecision(resolve)
      [] OTHER -> "none"

PushDecisionRollsBack(state, hasLocal, force, resolve) ==
    CASE state = "PIN_ONLY" -> "pin"
      [] state \in {"AHEAD_OF_MANIFEST", "REMOTE_NEWER", "BEHIND"} -> "push"
      [] state = "NOT_PUSHED" /\ hasLocal -> "push"
      [] state = "DIVERGED" -> IF resolve = "ours" THEN "push" ELSE "blocked"
      [] OTHER -> "none"
PushDecision(state, hasLocal, force, resolve) ==
    CASE state = "PIN_ONLY" -> "pin"
      [] state = "AHEAD_OF_MANIFEST" -> "push"
      [] state = "NOT_PUSHED" /\ hasLocal -> "push"
      [] state \in {"REMOTE_NEWER", "BEHIND"} /\ force -> "push"
      [] state = "DIVERGED" -> IF resolve = "ours" THEN "push" ELSE "blocked"
      [] OTHER -> "none"

PullDecision(state, force, resolve) ==
    CASE state = "PIN_ONLY" -> "pin"
      [] state \in {"MISSING", "BEHIND", "REMOTE_NEWER"} -> "pull"
      [] state = "AHEAD_OF_MANIFEST" -> Modified(force)
      [] state = "DIVERGED" -> IF resolve = "theirs" THEN "pull" ELSE "blocked"
      [] OTHER -> "none"

Decision(command, state, hasLocal, force, resolve) ==
    CASE command = "sync" -> SyncDecision(state, hasLocal, force, resolve)
      [] command = "push" -> PushDecision(state, hasLocal, force, resolve)
      [] command = "pull" -> PullDecision(state, force, resolve)
=============================================================================
