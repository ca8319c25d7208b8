--------------------------- MODULE FileStateProofs ---------------------------
(***************************************************************************)
(* What the classification and the policies of FileState guarantee for     *)
(* every pin, every local content and every history of remote versions.    *)
(***************************************************************************)
EXTENDS FileState, TLAPS

(* The versions of one remote file: positive numbers, no two alike. *)
Numbered(vs) ==
    /\ \A v \in vs : v.version \in Nat \ {0}
    /\ \A v, w \in vs : v.version = w.version => v = w

(* The latest of numbered versions is the one Latest chooses. *)
LEMMA LatestIs ==
    ASSUME NEW vs, Numbered(vs), NEW v, IsLatest(v, vs)
    PROVE  Latest(vs) = v
<1>1. v \in vs /\ vs # {}
  BY DEF IsLatest
<1>2. ASSUME NEW w, IsLatest(w, vs)
      PROVE  w = v
  <2>1. w \in vs /\ w.version <= v.version /\ v.version <= w.version
    BY <1>1, <1>2 DEF IsLatest
  <2>2. w.version \in Nat /\ v.version \in Nat
    BY <1>1, <2>1 DEF Numbered
  <2>3. w.version = v.version
    BY <2>1, <2>2
  <2> QED
    BY <1>1, <2>1, <2>3 DEF Numbered
<1> QED
  BY <1>1, <1>2 DEF Latest

(* Of numbered versions, one is newer than a number exactly if the latest is. *)
LEMMA NewerIsLatest ==
    ASSUME NEW vs, Numbered(vs), NEW v, IsLatest(v, vs), NEW n \in Nat
    PROVE  HasNewer(n, vs) <=> v.version > n
<1>1. v \in vs /\ v.version \in Nat
  BY DEF IsLatest, Numbered
<1>2. ASSUME NEW w \in vs, w.version > n
      PROVE  v.version > n
  <2>1. w.version <= v.version /\ w.version \in Nat
    BY <1>2 DEF IsLatest, Numbered
  <2> QED
    BY <1>1, <1>2, <2>1
<1> QED
  BY <1>1, <1>2 DEF HasNewer

(* manifest_helpers.go:76-88 canSkipVersionHistory: "classification        *)
(* provably cannot depend on any older version".  Where the listing is     *)
(* taken to suffice, the whole history would have given the same state.    *)
THEOREM SkipSound ==
    ASSUME NEW vs, Numbered(vs), NEW latest, IsLatest(latest, vs),
           NEW pin, pin.version \in Nat, NEW sum,
           CanSkip(pin, sum, latest)
    PROVE  Classify(pin, sum, {latest}) = Classify(pin, sum, vs)
<1> DEFINE one == {latest}
<1>1. latest \in vs /\ vs # {} /\ one # {}
  BY DEF IsLatest
<1>2. Numbered(one)
  BY <1>1 DEF Numbered
<1>3. IsLatest(latest, one)
  BY <1>1 DEF IsLatest, Numbered
<1>4. Latest(vs) = latest /\ Latest(one) = latest
  BY <1>2, <1>3, LatestIs
<1>5. HasNewer(pin.version, one) = HasNewer(pin.version, vs)
  BY <1>2, <1>3, NewerIsLatest DEF HasNewer
<1>6. sum # None
  BY DEF CanSkip
<1>7. CASE sum = latest.md5
  <2>1. MatchesLatest(sum, vs) /\ MatchesLatest(sum, one)
    BY <1>1, <1>4, <1>6, <1>7 DEF MatchesLatest
  <2>2. ClassifyUnpinned(sum, vs) = "PIN_ONLY" /\ ClassifyUnpinned(sum, one) = "PIN_ONLY"
    BY <1>1, <1>6, <2>1 DEF ClassifyUnpinned
  <2>3. ClassifyChanged(pin, sum, vs) = "PIN_ONLY" /\ ClassifyChanged(pin, sum, one) = "PIN_ONLY"
    BY <2>1 DEF ClassifyChanged
  <2> HIDE DEF one
  <2> QED
    BY <1>5, <1>6, <2>2, <2>3 DEF Classify, one
<1>8. CASE pin.version > 0 /\ sum = pin.md5
  <2>1. pin.version # 0
    BY <1>8
  <2> HIDE DEF one
  <2> QED
    BY <1>5, <1>6, <1>8, <2>1 DEF Classify, one
<1> QED
  BY <1>7, <1>8 DEF CanSkip

(* A state is one of the eight (status.go:6-15). *)
THEOREM ClassifyType ==
    ASSUME NEW pin, pin.version \in Nat, NEW sum, NEW vs
    PROVE  Classify(pin, sum, vs) \in States /\ ClassifyBlind(pin, sum) \in States
<1>1. ClassifyUnpinned(sum, vs) \in States
  BY DEF ClassifyUnpinned, States
<1>2. ClassifyChanged(pin, sum, vs) \in States
  BY DEF ClassifyChanged, States
<1>3. Classify(pin, sum, vs) \in States
  BY <1>1, <1>2 DEF Classify, States
<1> QED
  BY <1>3 DEF ClassifyBlind, States

-----------------------------------------------------------------------------
(* What each state says. *)

(* The states a download follows: what it overwrites is no file, the       *)
(* baseline, or a version that is on the remote.                           *)
LEMMA FetchStates ==
    ASSUME NEW pin, pin.version \in Nat, NEW sum, NEW vs,
           Classify(pin, sum, vs) \in {"MISSING", "BEHIND", "REMOTE_NEWER"}
    PROVE  sum \in {None, pin.md5} \union {v.md5 : v \in vs}
<1>1. CASE pin.version = 0
  <2>1. ClassifyUnpinned(sum, vs) \in {"MISSING", "BEHIND", "REMOTE_NEWER"}
    BY <1>1 DEF Classify
  <2> QED
    BY <2>1 DEF ClassifyUnpinned, MatchesAny
<1>2. CASE pin.version > 0 /\ sum # None /\ sum # pin.md5
  <2>1. ClassifyChanged(pin, sum, vs) \in {"MISSING", "BEHIND", "REMOTE_NEWER"}
    BY <1>2 DEF Classify
  <2> QED
    BY <2>1 DEF ClassifyChanged, MatchesAny
<1> QED
  BY <1>1, <1>2

(* NOT_PUSHED is for entries that neither the manifest nor the remote knows. *)
LEMMA NotPushed ==
    ASSUME NEW pin, pin.version \in Nat, NEW sum, NEW vs,
           Classify(pin, sum, vs) = "NOT_PUSHED"
    PROVE  pin.version = 0 /\ vs = {}
<1>1. CASE pin.version = 0
  <2>1. ClassifyUnpinned(sum, vs) = "NOT_PUSHED"
    BY <1>1 DEF Classify
  <2> QED
    BY <1>1, <2>1 DEF ClassifyUnpinned
<1>2. CASE pin.version > 0
  <2>1. ClassifyChanged(pin, sum, vs) # "NOT_PUSHED"
    BY DEF ClassifyChanged
  <2> QED
    BY <1>2, <2>1 DEF Classify
<1> QED
  BY <1>1, <1>2

(* AHEAD_OF_MANIFEST: content the remote does not hold, and for a pinned   *)
(* entry no version beyond the pin.                                        *)
LEMMA Ahead ==
    ASSUME NEW pin, pin.version \in Nat, NEW sum, NEW vs,
           Classify(pin, sum, vs) = "AHEAD_OF_MANIFEST"
    PROVE  /\ sum # None /\ ~MatchesAny(sum, vs)
           /\ pin.version > 0 => ~HasNewer(pin.version, vs)
<1> USE DEF MatchesLatest
<1>1. CASE pin.version = 0
  <2>1. ClassifyUnpinned(sum, vs) = "AHEAD_OF_MANIFEST"
    BY <1>1 DEF Classify
  <2>2. vs # {} /\ sum # None /\ ~MatchesLatest(sum, vs)
    BY <2>1 DEF ClassifyUnpinned
  <2>3. ~MatchesAny(sum, vs)
    BY <2>1, <2>2 DEF ClassifyUnpinned
  <2> QED
    BY <1>1, <2>2, <2>3
<1>2. CASE pin.version > 0
  <2>1. pin.version # 0
    BY <1>2
  <2>2. sum # None /\ sum # pin.md5 /\ ClassifyChanged(pin, sum, vs) = "AHEAD_OF_MANIFEST"
    BY <1>2, <2>1 DEF Classify
  <2>3. ~MatchesLatest(sum, vs)
    BY <2>2 DEF ClassifyChanged
  <2>4. ~MatchesAny(sum, vs) /\ ~HasNewer(pin.version, vs)
    BY <2>2, <2>3 DEF ClassifyChanged
  <2> QED
    BY <2>2, <2>4
<1> QED
  BY <1>1, <1>2

-----------------------------------------------------------------------------
(* What the policies do with them. *)

(* gate.go:65-78 and 133-153: without --force and --resolve=theirs neither *)
(* sync nor pull writes over a content that is not on the remote and not   *)
(* the baseline.                                                           *)
THEOREM FetchSafe ==
    ASSUME NEW pin, pin.version \in Nat, NEW sum, NEW vs,
           NEW command \in {"sync", "pull"}, NEW hasLocal, NEW resolve, resolve # "theirs",
           Decision(command, Classify(pin, sum, vs), hasLocal, FALSE, resolve)
               \in {"pull", "restore"}
    PROVE  sum \in {None, pin.md5} \union {v.md5 : v \in vs}
<1> DEFINE state == Classify(pin, sum, vs)
<1>1. state \in States
  BY ClassifyType
<1> HIDE DEF state
<1>2. CASE command = "sync"
  <2>1. SyncDecision(state, hasLocal, FALSE, resolve) \in {"pull", "restore"}
    BY <1>2 DEF Decision, state
  <2>2. state \in {"MISSING", "BEHIND", "REMOTE_NEWER"}
    BY <1>1, <2>1 DEF SyncDecision, Modified, ResolveDecision, States
  <2> QED
    BY <2>2, FetchStates DEF state
<1>3. CASE command = "pull"
  <2>1. PullDecision(state, FALSE, resolve) \in {"pull", "restore"}
    BY <1>3 DEF Decision, state
  <2>2. state \in {"MISSING", "BEHIND", "REMOTE_NEWER"}
    BY <1>1, <2>1 DEF PullDecision, Modified, States
  <2> QED
    BY <2>2, FetchStates DEF state
<1> QED
  BY <1>2, <1>3

(* gate.go:65-78: without --resolve=ours, sync uploads only a file that    *)
(* is not on the remote and never was pinned.                              *)
THEOREM SyncPushSafe ==
    ASSUME NEW pin, pin.version \in Nat, NEW sum, NEW vs,
           NEW hasLocal, NEW force, NEW resolve, resolve # "ours",
           SyncDecision(Classify(pin, sum, vs), hasLocal, force, resolve) = "push"
    PROVE  pin.version = 0 /\ vs = {}
<1> DEFINE state == Classify(pin, sum, vs)
<1>1. state \in States
  BY ClassifyType
<1> HIDE DEF state
<1>2. SyncDecision(state, hasLocal, force, resolve) = "push"
  BY DEF state
<1>3. state = "NOT_PUSHED"
  BY <1>1, <1>2 DEF SyncDecision, Modified, ResolveDecision, States
<1> QED
  BY <1>3, NotPushed DEF state

(* gate.go:103-107: a push that is neither forced nor resolved publishes   *)
(* what the remote does not hold and buries no version newer than the pin. *)
THEOREM PushSafe ==
    ASSUME NEW pin, pin.version \in Nat, NEW sum, NEW vs,
           NEW hasLocal, NEW resolve, resolve # "ours",
           PushDecision(Classify(pin, sum, vs), hasLocal, FALSE, resolve) = "push"
    PROVE  /\ ~MatchesAny(sum, vs)
           /\ pin.version > 0 => ~HasNewer(pin.version, vs)
<1> DEFINE state == Classify(pin, sum, vs)
<1>1. state \in States
  BY ClassifyType
<1> HIDE DEF state
<1>2. PushDecision(state, hasLocal, FALSE, resolve) = "push"
  BY DEF state
<1>3. state \in {"AHEAD_OF_MANIFEST", "NOT_PUSHED"}
  BY <1>1, <1>2 DEF PushDecision, States
<1>4. CASE state = "AHEAD_OF_MANIFEST"
  BY <1>4, Ahead DEF state
<1>5. CASE state = "NOT_PUSHED"
  <2>1. pin.version = 0 /\ vs = {}
    BY <1>5, NotPushed DEF state
  <2> QED
    BY <2>1 DEF MatchesAny
<1> QED
  BY <1>3, <1>4, <1>5

(* README.md:744-745: once the latest version is pinned and on disk, the   *)
(* entry is IN_SYNC and every command leaves it alone.                     *)
THEOREM PinnedIsInSync ==
    ASSUME NEW vs, Numbered(vs), NEW latest, IsLatest(latest, vs), latest.md5 # None
    PROVE  Classify(latest, latest.md5, vs) = "IN_SYNC"
<1>1. latest.version \in Nat \ {0}
  BY DEF IsLatest, Numbered
<1>2. ~HasNewer(latest.version, vs)
  BY <1>1, NewerIsLatest
<1> QED
  BY <1>1, <1>2 DEF Classify
=============================================================================
